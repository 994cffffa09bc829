---------------------------- MODULE Mux_proofs ----------------------------
(* Proofs about Mux, for any calls and any tags.                           *)
EXTENDS Mux, TLAPS

Notified(p, d) == pc'[d] = p[d] \/ (p[d] = "tagwait" /\ pc'[d] = "tag")

LEMMA NotifyTagFacts ==
  ASSUME NEW p \in [Calls -> PCs], NotifyTag(p)
  PROVE  pc' \in [Calls -> PCs] /\ \A d \in Calls : Notified(p, d)
BY DEF NotifyTag, Notified, PCs

LEMMA QueueKept ==
  ASSUME IInv, amux' = amux,
         \A d \in Calls : /\ pc[d] = "queued" => pc'[d] = "queued"
                          /\ pc'[d] \in {"push", "queued"} => pc[d] \in {"push", "queued"}
  PROVE  QueueInv'
<1>1. \A i \in 1..Len(amux) : amux[i] \in Calls
  BY DEF IInv, TypeOK, Calls
<1>2. \A i \in 1..Len(amux) : pc'[amux[i]] = "queued"
  <2> TAKE i \in 1..Len(amux)
  <2>1. amux[i] \in Calls /\ pc[amux[i]] = "queued"
    BY <1>1 DEF IInv, QueueInv
  <2> QED BY <2>1
<1> QED BY <1>2 DEF IInv, QueueInv

(* A call, and a tag, has at most one message in flight.                  *)
LEMMA SameMessage ==
  ASSUME IInv, NEW m \in InFlight, NEW n \in InFlight, m.tag = n.tag \/ m.call = n.call
  PROVE  m = n
<1>1. m \in Msg /\ n \in Msg
  BY DEF IInv, TypeOK, InFlight
<1>2. m.tag = n.tag => m.call = n.call
  BY DEF IInv, MsgInv
<1>3. m.call = n.call => m.tag = n.tag
  BY DEF IInv, MsgInv
<1> QED BY <1>1, <1>2, <1>3 DEF Msg

(* A step that changes no message leaves them well placed, when the calls  *)
(* it fails or begins to send have none and the readers keep theirs.       *)
LEMMA MsgKept ==
  ASSUME IInv, InFlight' = InFlight, UNCHANGED <<requests, responses, got>>,
         \A m \in InFlight : tag'[m.call] = m.tag /\ m.tag \notin free' /\ wait'[m.tag] \in {m.call, NoCall},
         \A c \in Calls : got[c] # {} => pc'[c] = "dispatch",
         \A c \in Calls : pc'[c] \in {"send", "short"} \/ (pc'[c] = "failed" /\ ~waiting'[c])
                        => \A m \in InFlight : m.call # c
  PROVE  MsgInv'
BY DEF IInv, MsgInv

LEMMA BeginInv == ASSUME IInv, NEW c \in Calls, Begin(c) PROVE IInv'
<1> USE MuxAssumption DEF IInv, TypeOK, Calls, tags, net, apart, Begin, Nested
<1>1. TypeOK'
  BY DEF PCs, Msg, TagInv
<1>2. MsgInv'
  BY DEF MsgInv, TagInv, DataInv, OneMuxer, InFlight
<1>3. TagInv'
  BY DEF TagInv, MsgInv, DataInv, OneMuxer
<1>4. DataInv'
  BY DEF DataInv, TagInv, MsgInv, OneMuxer, QueueInv, InFlight
<1>5. QueueInv'
  BY DEF QueueInv
<1>6. OneMuxer'
  BY DEF OneMuxer, TagInv, DataInv, QueueInv
<1>7. TagsKept'
  BY DEF TagsKept, TagInv, DataInv, OneMuxer
<1> QED BY <1>1, <1>2, <1>3, <1>4, <1>5, <1>6, <1>7

LEMMA GetTagInv == ASSUME IInv, NEW c \in Calls, GetTag(c) PROVE IInv'
<1> USE MuxAssumption DEF IInv, TypeOK, Calls, tags, net, apart, GetTag
<1>1. TypeOK'
  BY DEF PCs, Msg, TagInv
<1>2. MsgInv'
  <2>1. PICK t \in free : /\ free' = free \ {t} /\ wait' = [wait EXCEPT ![t] = c]
                          /\ tag' = [tag EXCEPT ![c] = t] /\ pc' = [pc EXCEPT ![c] = "send"]
    OBVIOUS
  <2>2. \A m \in InFlight : m \in Msg /\ m.call # c /\ m.tag # t
    BY <2>1 DEF MsgInv, TagInv, InFlight, Msg
  <2>3. InFlight' = InFlight
    BY DEF InFlight
  <2> QED BY <2>1, <2>2, <2>3 DEF MsgInv, Msg
<1>3. TagInv'
  BY DEF TagInv, MsgInv, DataInv, OneMuxer
<1>4. DataInv'
  BY DEF DataInv, TagInv, MsgInv, OneMuxer, QueueInv, InFlight
<1>5. QueueInv'
  BY DEF QueueInv
<1>6. OneMuxer'
  BY DEF OneMuxer, TagInv, DataInv, QueueInv
<1>7. TagsKept'
  BY DEF TagsKept, TagInv, DataInv, OneMuxer
<1> QED BY <1>1, <1>2, <1>3, <1>4, <1>5, <1>6, <1>7

LEMMA TagWaitInv == ASSUME IInv, NEW c \in Calls, TagWait(c) PROVE IInv'
<1> USE MuxAssumption DEF IInv, TypeOK, Calls, tags, net, apart, TagWait
<1>1. TypeOK'
  BY DEF PCs, Msg, TagInv
<1>2. MsgInv'
  BY DEF MsgInv, TagInv, DataInv, OneMuxer, InFlight
<1>3. TagInv'
  BY DEF TagInv, MsgInv, DataInv, OneMuxer
<1>4. DataInv'
  BY DEF DataInv, TagInv, MsgInv, OneMuxer, QueueInv, InFlight
<1>5. QueueInv'
  BY DEF QueueInv
<1>6. OneMuxer'
  BY DEF OneMuxer, TagInv, DataInv, QueueInv
<1>7. TagsKept'
  BY DEF TagsKept, TagInv, DataInv, OneMuxer
<1> QED BY <1>1, <1>2, <1>3, <1>4, <1>5, <1>6, <1>7

LEMMA SendInv == ASSUME IInv, NEW c \in Calls, Send(c) PROVE IInv'
<1> DEFINE new == [tag |-> tag[c], call |-> c]
<1>a. tag[c] \in Tags /\ wait[tag[c]] = c /\ data[c] = NoCall
  <2>1. pc[c] = "send" /\ data[c] = NoCall
    BY DEF IInv, DataInv, Send
  <2> QED BY <2>1 DEF IInv, TypeOK, TagInv
<1>b. InFlight' = InFlight \cup {new} /\ new \in Msg
  BY <1>a DEF InFlight, Send, Msg
<1>c. /\ \A m \in InFlight : m.call # c /\ m.tag # tag[c] /\ m \in Msg
      /\ requests' = requests \cup {new}
  BY <1>a, MuxAssumption DEF Calls, IInv, TypeOK, MsgInv, Send, Msg, InFlight
<1>d. pc' = [pc EXCEPT ![c] = IF c \in Async THEN "push" ELSE "mux"]
  BY DEF Send
<1>1. TypeOK'
  BY <1>a, <1>b, <1>d DEF IInv, TypeOK, Send, PCs, tags, net, apart
<1>2. MsgInv'
  <2>1. \A m \in InFlight' : tag[m.call] = m.tag /\ m.tag \notin free /\ wait[m.tag] \in {m.call, NoCall}
    BY <1>a, <1>b, MuxAssumption DEF IInv, MsgInv, TagInv, TypeOK, Msg
  <2>2. requests' \cap responses = {} /\ \A d \in Calls : got[d] \cap (requests' \cup responses) = {}
    BY <1>c, <1>b DEF IInv, MsgInv, InFlight
  <2>3. \A d \in Calls : pc'[d] \in {"send", "short"} \/ (pc'[d] = "failed" /\ ~waiting[d])
                        => \A m \in InFlight' : m.call # d
    BY <1>b, <1>d DEF IInv, TypeOK, MsgInv, Send
  <2>4. \A m, n \in InFlight' : m.tag = n.tag => m.call = n.call
    BY <1>b, <1>c, SameMessage
  <2>5. \A d \in Calls : got[d] # {} => pc'[d] = "dispatch"
    BY <1>d DEF IInv, TypeOK, MsgInv, Send
  <2>6. \A d \in Calls : \A m, n \in got[d] : m = n
    BY DEF IInv, MsgInv
  <2>7. UNCHANGED <<tag, free, wait, responses, got, waiting>>
    BY DEF Send, tags
  <2> QED BY <2>1, <2>2, <2>3, <2>4, <2>5, <2>6, <2>7 DEF MsgInv
<1>3. TagInv'
  BY <1>d, MuxAssumption DEF IInv, TypeOK, TagInv, Send, PCs, tags
<1>4. DataInv'
  <2>1. \A m \in InFlight' : m.call \in served <=> m \notin requests'
    BY <1>a, <1>b, <1>c DEF IInv, DataInv, MsgInv, Msg, TypeOK, Send
  <2> QED BY <2>1, <1>d DEF IInv, TypeOK, DataInv, Send, tags, apart
<1>5. QueueInv'
  BY <1>d DEF IInv, TypeOK, QueueInv, Send, apart
<1>6. OneMuxer'
  BY <1>d DEF IInv, TypeOK, OneMuxer, TagInv, Send
<1>7. TagsKept'
  BY DEF IInv, TagsKept, Send, tags
<1> QED BY <1>1, <1>2, <1>3, <1>4, <1>5, <1>6, <1>7 DEF IInv

LEMMA SendRaisesInv == ASSUME IInv, NEW c \in Calls, SendRaises(c) PROVE IInv'
<1> USE MuxAssumption DEF IInv, TypeOK, Calls, tags, net, apart, SendRaises
<1>1. TypeOK'
  BY DEF PCs, Msg, TagInv
<1>2. MsgInv'
  BY DEF MsgInv, TagInv, DataInv, OneMuxer, InFlight
<1>3. TagInv'
  BY DEF TagInv, MsgInv, DataInv, OneMuxer
<1>4. DataInv'
  BY DEF DataInv, TagInv, MsgInv, OneMuxer, QueueInv, InFlight
<1>5. QueueInv'
  BY DEF QueueInv
<1>6. OneMuxer'
  BY DEF OneMuxer, TagInv, DataInv, QueueInv
<1>7. TagsKept'
  BY DEF TagsKept, TagInv, DataInv, OneMuxer
<1> QED BY <1>1, <1>2, <1>3, <1>4, <1>5, <1>6, <1>7

LEMMA SendShortInv == ASSUME IInv, NEW c \in Calls, SendShort(c) PROVE IInv'
<1> USE MuxAssumption DEF IInv, TypeOK, Calls, tags, net, apart, SendShort
<1>1. TypeOK'
  BY DEF PCs, Msg, TagInv
<1>2. MsgInv'
  BY DEF MsgInv, TagInv, DataInv, OneMuxer, InFlight
<1>3. TagInv'
  <2>1. \A d \in Calls : pc'[d] = pc[d] \/ (d = c /\ pc[d] = "send" /\ pc'[d] = "short")
    OBVIOUS
  <2>2. UNCHANGED <<tag, free, wait, data, waiting>>
    OBVIOUS
  <2>3. TagInv
    OBVIOUS
  <2> HIDE MuxAssumption DEF IInv, TypeOK, SendShort, tags, net, apart
  <2>4. /\ \A t \in free' : wait'[t] = NoCall
        /\ \A t \in Tags : wait'[t] # NoCall =>
             tag'[wait'[t]] = t /\ data'[wait'[t]] = NoCall
    BY <2>2, <2>3 DEF TagInv
  <2>5. \A t \in Tags : wait'[t] # NoCall => wait'[t] \in Calls
    BY MuxAssumption DEF IInv, TypeOK, SendShort, tags
  <2>6. \A t \in Tags : wait'[t] # NoCall /\ waiting'[wait'[t]] =>
             pc'[wait'[t]] \in {"mux", "asleep", "read", "dispatch", "eof"}
    BY <2>1, <2>2, <2>3, <2>5 DEF TagInv
  <2>7. ASSUME NEW d \in Calls
        PROVE  /\ pc'[d] \in {"idle", "tag", "tagwait"} <=> tag'[d] = NoTag
               /\ pc'[d] \in {"idle", "tag", "tagwait", "send", "short", "push", "queued"}
                    => ~waiting'[d]
               /\ pc'[d] \in {"asleep", "read", "dispatch", "elect", "eof"} => waiting'[d]
               /\ pc'[d] \in {"send", "short", "push", "queued", "mux", "asleep", "read",
                              "dispatch", "eof"} => data'[d] # NoCall \/ wait'[tag'[d]] = d
    <3>1. CASE pc'[d] = pc[d]
      BY <3>1, <2>2, <2>3 DEF TagInv
    <3>2. CASE pc[d] = "send" /\ pc'[d] = "short"
      BY <3>2, <2>2, <2>3 DEF TagInv
    <3> QED BY <2>1, <3>1, <3>2
  <2> QED BY <2>4, <2>6, <2>7 DEF TagInv
<1>4. DataInv'
  BY DEF DataInv, TagInv, MsgInv, OneMuxer, QueueInv, InFlight
<1>5. QueueInv'
  BY DEF QueueInv
<1>6. OneMuxer'
  BY DEF OneMuxer, TagInv, DataInv, QueueInv
<1>7. TagsKept'
  BY DEF TagsKept, TagInv, DataInv, OneMuxer
<1> QED BY <1>1, <1>2, <1>3, <1>4, <1>5, <1>6, <1>7

LEMMA PutBackInv == ASSUME IInv, NEW c \in Calls, PutBack(c) PROVE IInv'
<1> DEFINE p == [pc EXCEPT ![c] = "failed"]
<1>a. tag[c] \in Tags /\ wait[tag[c]] = c /\ data[c] = NoCall /\ ~waiting[c] /\ eof
  BY MuxAssumption DEF Calls, IInv, TypeOK, TagInv, DataInv, PutBack
<1>b. /\ wait' = [wait EXCEPT ![tag[c]] = NoCall] /\ free' = free \cup {tag[c]}
      /\ pc[c] = "short" /\ NotifyTag(p)
      /\ UNCHANGED <<tag, data, waiting, muxer, got, apart, net, eof>>
  BY DEF PutBack, PutTag
<1>c. pc' \in [Calls -> PCs] /\ \A d \in Calls : Notified(p, d)
  BY <1>b, NotifyTagFacts DEF IInv, TypeOK, PCs
<1>d. InFlight' = InFlight
  BY <1>b DEF InFlight, net
<1>e. \A m \in InFlight : m.call # c /\ m.tag # tag[c] /\ m \in Msg
  BY <1>a, <1>b, MuxAssumption DEF Calls, IInv, TypeOK, MsgInv, Msg, InFlight
<1>1. TypeOK'
  BY <1>a, <1>b, <1>c DEF IInv, TypeOK, apart, net
<1>2. MsgInv'
  <2>1. \A m \in InFlight' : tag'[m.call] = m.tag /\ m.tag \notin free' /\ wait'[m.tag] \in {m.call, NoCall}
    BY <1>b, <1>d, <1>e DEF IInv, MsgInv, TypeOK, Msg
  <2>2. \A d \in Calls : got[d] # {} => pc'[d] = "dispatch"
    <3> TAKE d \in Calls
    <3>1. got[d] # {} => pc[d] = "dispatch" /\ d # c
      BY <1>b DEF IInv, MsgInv
    <3> QED BY <3>1, <1>c DEF IInv, TypeOK, Notified
  <2>3. \A d \in Calls : pc'[d] \in {"send", "short"} \/ (pc'[d] = "failed" /\ ~waiting[d])
                        => \A m \in InFlight : m.call # d
    BY <1>b, <1>c, <1>e DEF IInv, MsgInv, TypeOK, Notified
  <2> QED BY <1>b, <1>d, <2>1, <2>2, <2>3 DEF IInv, MsgInv, net
<1>3. TagInv'
  <2>1. \A t \in Tags : wait'[t] # NoCall => wait[t] = wait'[t] /\ wait[t] # c
    BY <1>a, <1>b DEF IInv, TypeOK, TagInv
  <2>2. \A t \in free' : wait'[t] = NoCall
    BY <1>a, <1>b DEF IInv, TypeOK, TagInv
  <2>3. \A t \in Tags : wait'[t] # NoCall =>
          /\ tag[wait'[t]] = t
          /\ data[wait'[t]] = NoCall
          /\ waiting[wait'[t]] => pc'[wait'[t]] \in {"mux", "asleep", "read", "dispatch", "eof"}
    BY <2>1, <1>b, <1>c DEF IInv, TypeOK, TagInv, Notified
  <2>4. \A d \in Calls :
       /\ pc'[d] \in {"idle", "tag", "tagwait"} <=> tag[d] = NoTag
       /\ pc'[d] \in {"idle", "tag", "tagwait", "send", "short", "push", "queued"} => ~waiting[d]
       /\ pc'[d] \in {"asleep", "read", "dispatch", "elect", "eof"} => waiting[d]
    BY <1>a, <1>b, <1>c, MuxAssumption DEF IInv, TypeOK, TagInv, Notified
  <2>5. \A d \in Calls :
         pc'[d] \in {"send", "short", "push", "queued", "mux", "asleep", "read", "dispatch", "eof"}
            => data[d] # NoCall \/ wait'[tag[d]] = d
    BY <1>a, <1>b, <1>c, MuxAssumption DEF IInv, TypeOK, TagInv, Notified
  <2> QED BY <1>b, <2>2, <2>3, <2>4, <2>5 DEF TagInv
<1>4. DataInv'
  <2>1. \A d \in Calls : pc'[d] = pc[d] \/ (pc[d] = "tagwait" /\ pc'[d] = "tag") \/ (d = c /\ pc'[d] = "failed")
    BY <1>b, <1>c DEF IInv, TypeOK, Notified
  <2> QED BY <1>a, <1>b, <1>d, <2>1 DEF IInv, TypeOK, DataInv, apart, net
<1>5. QueueInv'
  BY <1>b, <1>c, QueueKept DEF Notified, apart
<1>6. OneMuxer'
  BY <1>b, <1>c DEF IInv, TypeOK, OneMuxer, Notified
<1>7. TagsKept'
  BY <1>a, <1>b DEF IInv, TypeOK, TagsKept
<1> QED BY <1>1, <1>2, <1>3, <1>4, <1>5, <1>6, <1>7 DEF IInv

LEMMA PushInv == ASSUME IInv, NEW c \in Calls, Push(c) PROVE IInv'
<1> USE MuxAssumption DEF IInv, TypeOK, Calls, tags, net, apart, Push
<1>1. TypeOK'
  <2>1. c \in Async
    BY DEF QueueInv
  <2> QED BY <2>1 DEF PCs
<1>2. MsgInv'
  BY DEF MsgInv, TagInv, DataInv, OneMuxer, InFlight
<1>3. TagInv'
  BY DEF TagInv, MsgInv, DataInv, OneMuxer
<1>4. DataInv'
  BY DEF DataInv, TagInv, MsgInv, OneMuxer, QueueInv, InFlight
<1>5. QueueInv'
  BY DEF QueueInv
<1>6. OneMuxer'
  BY DEF OneMuxer, TagInv, DataInv, QueueInv
<1>7. TagsKept'
  BY DEF TagsKept, TagInv, DataInv, OneMuxer
<1> QED BY <1>1, <1>2, <1>3, <1>4, <1>5, <1>6, <1>7

LEMMA PopInv == ASSUME IInv, Pop PROVE IInv'
<1> DEFINE c == Head(amux)
<1>a. /\ c = amux[1] /\ c \in Async /\ c \in Calls /\ pc[c] = "queued"
      /\ amux' \in Seq(Async) /\ Len(amux') = Len(amux) - 1
      /\ \A i \in 1..Len(amux') : amux'[i] = amux[i + 1]
  BY DEF Pop, IInv, TypeOK, QueueInv, Calls
<1>b. /\ pc' = [pc EXCEPT ![c] = "mux"] /\ muxing' = c
      /\ UNCHANGED <<tags, data, waiting, muxer, got, adisp, calling, called, net, eof>>
  BY DEF Pop
<1> HIDE DEF c
<1>c. InFlight' = InFlight
  BY <1>b DEF InFlight, net
<1>1. TypeOK'
  BY <1>a, <1>b DEF IInv, TypeOK, PCs, tags, net
<1>2. MsgInv'
  BY <1>a, <1>b, <1>c DEF IInv, TypeOK, MsgInv, tags, net
<1>3. TagInv'
  BY <1>a, <1>b DEF IInv, TypeOK, TagInv, tags
<1>4. DataInv'
  BY <1>a, <1>b, <1>c DEF IInv, TypeOK, DataInv, net
<1>5. QueueInv'
  <2>1. \A i \in 1..Len(amux') : i + 1 \in 1..Len(amux) /\ amux[i + 1] # amux[1]
    <3> TAKE i \in 1..Len(amux')
    <3>1. i + 1 \in 1..Len(amux) /\ 1 \in 1..Len(amux) /\ i + 1 # 1
      BY <1>a DEF IInv, TypeOK
    <3> QED BY <3>1 DEF IInv, QueueInv
  <2>2. \A i \in 1..Len(amux') : pc'[amux'[i]] = "queued"
    <3> TAKE i \in 1..Len(amux')
    <3>1. i + 1 \in 1..Len(amux) /\ amux'[i] = amux[i + 1] /\ amux[i + 1] # c
      BY <2>1, <1>a
    <3>2. amux[i + 1] \in Calls /\ pc[amux[i + 1]] = "queued"
      BY <3>1 DEF IInv, TypeOK, QueueInv, Calls
    <3> QED BY <3>1, <3>2, <1>b DEF IInv, TypeOK
  <2>3. \A i, j \in 1..Len(amux') : amux'[i] = amux'[j] => i = j
    BY <1>a, <2>1 DEF IInv, TypeOK, QueueInv
  <2>4. \A d \in Calls : pc'[d] \in {"push", "queued"} => d \in Async
    BY <1>b DEF IInv, TypeOK, QueueInv
  <2> QED BY <2>2, <2>3, <2>4 DEF QueueInv
<1>6. OneMuxer'
  BY <1>a, <1>b DEF IInv, TypeOK, OneMuxer
<1>7. TagsKept'
  BY <1>b DEF IInv, TagsKept, tags
<1> QED BY <1>1, <1>2, <1>3, <1>4, <1>5, <1>6, <1>7 DEF IInv

LEMMA MuxHasInv == ASSUME IInv, NEW c \in Calls, MuxHas(c) PROVE IInv'
<1> USE MuxAssumption DEF IInv, TypeOK, Calls, tags, net, apart, MuxHas, LeaveMux
<1>1. TypeOK'
  BY DEF PCs, Msg, TagInv
<1>2. MsgInv'
  BY DEF MsgInv, TagInv, DataInv, OneMuxer, InFlight
<1>3. TagInv'
  BY DEF TagInv, MsgInv, DataInv, OneMuxer
<1>4. DataInv'
  BY DEF DataInv, TagInv, MsgInv, OneMuxer, QueueInv, InFlight
<1>5. QueueInv'
  BY DEF QueueInv
<1>6. OneMuxer'
  BY DEF OneMuxer, TagInv, DataInv, QueueInv
<1>7. TagsKept'
  BY DEF TagsKept, TagInv, DataInv, OneMuxer
<1> QED BY <1>1, <1>2, <1>3, <1>4, <1>5, <1>6, <1>7

LEMMA MuxWaitInv == ASSUME IInv, NEW c \in Calls, MuxWait(c) PROVE IInv'
<1> USE MuxAssumption DEF IInv, TypeOK, Calls, tags, net, apart, MuxWait
<1>1. TypeOK'
  BY DEF PCs, Msg, TagInv
<1>2. MsgInv'
  BY DEF MsgInv, TagInv, DataInv, OneMuxer, InFlight
<1>3. TagInv'
  BY DEF TagInv, MsgInv, DataInv, OneMuxer
<1>4. DataInv'
  BY DEF DataInv, TagInv, MsgInv, OneMuxer, QueueInv, InFlight
<1>5. QueueInv'
  BY DEF QueueInv
<1>6. OneMuxer'
  BY DEF OneMuxer, TagInv, DataInv, QueueInv
<1>7. TagsKept'
  BY DEF TagsKept, TagInv, DataInv, OneMuxer
<1> QED BY <1>1, <1>2, <1>3, <1>4, <1>5, <1>6, <1>7

LEMMA MuxReadInv == ASSUME IInv, NEW c \in Calls, MuxRead(c) PROVE IInv'
<1> USE MuxAssumption DEF IInv, TypeOK, Calls, tags, net, apart, MuxRead
<1>1. TypeOK'
  BY DEF PCs, Msg, TagInv
<1>2. MsgInv'
  BY DEF MsgInv, TagInv, DataInv, OneMuxer, InFlight
<1>3. TagInv'
  BY DEF TagInv, MsgInv, DataInv, OneMuxer
<1>4. DataInv'
  BY DEF DataInv, TagInv, MsgInv, OneMuxer, QueueInv, InFlight
<1>5. QueueInv'
  BY DEF QueueInv
<1>6. OneMuxer'
  BY DEF OneMuxer, TagInv, DataInv, QueueInv
<1>7. TagsKept'
  BY DEF TagsKept, TagInv, DataInv, OneMuxer
<1> QED BY <1>1, <1>2, <1>3, <1>4, <1>5, <1>6, <1>7

LEMMA RecvInv == ASSUME IInv, NEW c \in Calls, Recv(c) PROVE IInv'
<1> USE MuxAssumption DEF IInv, TypeOK, Calls, tags, net, apart, Recv
<1>1. TypeOK'
  BY DEF PCs, Msg, TagInv
<1>2. MsgInv'
  BY DEF MsgInv, Msg, TagInv, DataInv, OneMuxer, InFlight
<1>3. TagInv'
  BY DEF TagInv, Msg, MsgInv, DataInv, OneMuxer
<1>4. DataInv'
  BY DEF DataInv, Msg, TagInv, MsgInv, OneMuxer, QueueInv, InFlight
<1>5. QueueInv'
  BY QueueKept
<1>6. OneMuxer'
  BY DEF OneMuxer, Msg, TagInv, DataInv, QueueInv
<1>7. TagsKept'
  BY DEF TagsKept, Msg, TagInv, DataInv, OneMuxer
<1> QED BY <1>1, <1>2, <1>3, <1>4, <1>5, <1>6, <1>7

LEMMA RecvEofInv == ASSUME IInv, NEW c \in Calls, RecvEof(c) PROVE IInv'
<1> USE MuxAssumption DEF IInv, TypeOK, Calls, tags, net, apart, RecvEof
<1>1. TypeOK'
  BY DEF PCs, Msg, TagInv
<1>2. MsgInv'
  BY DEF MsgInv, TagInv, DataInv, OneMuxer, InFlight
<1>3. TagInv'
  BY DEF TagInv, MsgInv, DataInv, OneMuxer
<1>4. DataInv'
  BY DEF DataInv, TagInv, MsgInv, OneMuxer, QueueInv, InFlight
<1>5. QueueInv'
  BY DEF QueueInv
<1>6. OneMuxer'
  BY DEF OneMuxer, TagInv, DataInv, QueueInv
<1>7. TagsKept'
  BY DEF TagsKept, TagInv, DataInv, OneMuxer
<1> QED BY <1>1, <1>2, <1>3, <1>4, <1>5, <1>6, <1>7

LEMMA DispatchInv == ASSUME IInv, NEW c \in Calls, NEW m \in got[c], Dispatch(c, m) PROVE IInv'
<1> DEFINE q == wait[m.tag]
<1>a. /\ m \in InFlight /\ m \in Msg /\ pc[c] = "dispatch" /\ got[c] = {m}
      /\ c = muxer /\ data[c] = NoCall /\ waiting[c] /\ q \in {m.call, NoCall}
      /\ m \notin requests /\ m \notin responses /\ m.call \in served
  BY DEF IInv, TypeOK, MsgInv, DataInv, TagInv, OneMuxer, InFlight, Dispatch
<1>b. \A d \in Calls : d # c => got[d] = {}
  BY <1>a DEF IInv, MsgInv, OneMuxer
<1>c. /\ got' = [got EXCEPT ![c] = {}]
      /\ UNCHANGED <<tag, waiting, muxer, amux, muxing, calling, called, net, eof>>
  BY DEF Dispatch
<1>d. InFlight' = InFlight \ {m} /\ \A n \in InFlight' : n.tag # m.tag /\ n.call # m.call /\ n \in Msg
  <2>1. InFlight' = requests \cup responses
    BY <1>b, <1>c DEF InFlight, net, IInv, TypeOK
  <2>2. InFlight = requests \cup responses \cup {m}
    BY <1>a, <1>b DEF InFlight
  <2>3. \A n \in InFlight : n \in Msg /\ (n.tag = m.tag \/ n.call = m.call => n = m)
    BY <1>a, SameMessage DEF IInv, TypeOK, InFlight
  <2> QED BY <2>1, <2>2, <2>3, <1>a
<1>e. CASE q = NoCall
  <2>0. pc' = [pc EXCEPT ![c] = "read"] /\ UNCHANGED <<free, wait, data, adisp>>
    BY <1>e DEF Dispatch
  <2>1. TypeOK'
    BY <2>0, <1>c DEF IInv, TypeOK, PCs, net
  <2>2. MsgInv'
    BY <2>0, <1>a, <1>b, <1>c, <1>d DEF IInv, TypeOK, MsgInv, net
  <2>3. TagInv'
    BY <2>0, <1>a, <1>c DEF IInv, TypeOK, TagInv
  <2>4. DataInv'
    BY <2>0, <1>a, <1>c, <1>d DEF IInv, TypeOK, DataInv, net
  <2>5. QueueInv'
    BY <2>0, <1>a, <1>c, QueueKept DEF IInv, TypeOK
  <2>6. OneMuxer' /\ TagsKept'
    BY <2>0, <1>a, <1>c DEF IInv, TypeOK, OneMuxer, TagsKept
  <2> QED BY <2>1, <2>2, <2>3, <2>4, <2>5, <2>6 DEF IInv
<1>f. CASE q = m.call
  <2> DEFINE p0 == [pc EXCEPT ![c] = IF q = c THEN "elect" ELSE "read"]
             p  == Wake(p0, q)
  <2>0. /\ wait' = [wait EXCEPT ![m.tag] = NoCall] /\ free' = free \cup {m.tag}
        /\ data' = [data EXCEPT ![q] = q]
        /\ adisp' = IF q \in Async THEN Append(adisp, q) ELSE adisp
        /\ NotifyTag(p)
    BY <1>f, <1>a, MuxAssumption DEF Dispatch, PutTag, Msg, Calls
  <2>a. /\ q \in Calls /\ tag[q] = m.tag /\ m.tag \in Tags /\ data[q] = NoCall
        /\ pc[q] \notin {"idle", "tag", "tagwait", "send", "short", "failed"}
        /\ q # c => pc[q] \notin {"read", "dispatch", "elect", "eof"}
        /\ pc[q] \notin {"eof", "elect", "muxed"}
    BY <1>a, <1>f, MuxAssumption DEF IInv, TypeOK, TagInv, MsgInv, DataInv, OneMuxer, Msg, Calls
  <2>b. /\ p \in [Calls -> PCs]
        /\ p[c] = IF q = c THEN "elect" ELSE "read"
        /\ \A d \in Calls : d # c => p[d] = pc[d] \/ (d = q /\ pc[d] = "asleep" /\ p[d] = "mux")
    BY <2>a DEF Wake, IInv, TypeOK, PCs
  <2>c. pc' \in [Calls -> PCs] /\ \A d \in Calls : Notified(p, d)
    BY <2>0, <2>b, NotifyTagFacts
  <2>d. /\ pc'[c] = IF q = c THEN "elect" ELSE "read"
        /\ \A d \in Calls : d # c =>
             \/ pc'[d] = pc[d]
             \/ (d = q /\ pc[d] = "asleep" /\ pc'[d] = "mux")
             \/ (pc[d] = "tagwait" /\ pc'[d] = "tag")
    <3>1. \A d \in Calls : pc'[d] = p[d] \/ (p[d] = "tagwait" /\ pc'[d] = "tag")
      BY <2>c DEF Notified
    <3> HIDE DEF p, p0, q
    <3> QED BY <2>b, <3>1
  <2>1. TypeOK'
    <3>1. adisp' \in Seq(Async)
      BY <2>0 DEF IInv, TypeOK
    <3> QED BY <3>1, <2>0, <2>a, <2>c, <1>c DEF IInv, TypeOK, net
  <2>2. MsgInv'
    <3>1. \A n \in InFlight' : tag'[n.call] = n.tag /\ n.tag \notin free' /\ wait'[n.tag] \in {n.call, NoCall}
      BY <2>0, <1>c, <1>d DEF IInv, TypeOK, MsgInv, Msg
    <3>2. \A d \in Calls : got'[d] = {}
      BY <1>b, <1>c DEF IInv, TypeOK
    <3>3. \A d \in Calls : pc'[d] \in {"send", "short"} \/ (pc'[d] = "failed" /\ ~waiting[d])
                        => \A n \in InFlight' : n.call # d
      BY <2>d, <1>a, <1>d DEF IInv, MsgInv
    <3>4. \A n, l \in InFlight' : n.tag = l.tag => n.call = l.call
      BY <1>d, SameMessage
    <3> QED BY <3>1, <3>2, <3>3, <3>4, <1>c DEF IInv, MsgInv, net
  <2>3. TagInv'
    <3>1. \A t \in Tags : wait'[t] # NoCall => wait[t] = wait'[t] /\ wait[t] # q /\ t # m.tag
      BY <2>0, <2>a DEF IInv, TypeOK, TagInv
    <3>2. \A t \in free' : wait'[t] = NoCall
      BY <2>0, <2>a DEF IInv, TypeOK, TagInv
    <3>3. \A t \in Tags : wait'[t] # NoCall =>
            /\ tag[wait'[t]] = t
            /\ data'[wait'[t]] = NoCall
            /\ waiting[wait'[t]] => pc'[wait'[t]] \in {"mux", "asleep", "read", "dispatch", "eof"}
      BY <3>1, <2>0, <2>a, <2>d, <1>a DEF IInv, TypeOK, TagInv
    <3>4. \A d \in Calls :
         /\ pc'[d] \in {"idle", "tag", "tagwait"} <=> tag[d] = NoTag
         /\ pc'[d] \in {"idle", "tag", "tagwait", "send", "short", "push", "queued"} => ~waiting[d]
         /\ pc'[d] \in {"asleep", "read", "dispatch", "elect", "eof"} => waiting[d]
      BY <2>d, <1>a, MuxAssumption DEF IInv, TypeOK, TagInv
    <3>5. \A d \in Calls :
         pc'[d] \in {"send", "short", "push", "queued", "mux", "asleep", "read", "dispatch", "eof"}
            => data'[d] # NoCall \/ wait'[tag[d]] = d
      <4> SUFFICES ASSUME NEW d \in Calls, d # q,
                          pc'[d] \in {"send", "short", "push", "queued", "mux", "asleep", "read", "dispatch", "eof"},
                          data[d] = NoCall
                   PROVE  wait'[tag[d]] = d
        BY <2>0, <2>a, MuxAssumption DEF IInv, TypeOK, Calls
      <4>1. wait[tag[d]] = d /\ tag[d] \in Tags
        BY <2>d, <1>a, MuxAssumption DEF IInv, TypeOK, TagInv, Calls
      <4> QED BY <4>1, <2>0, <2>a DEF IInv, TypeOK
    <3> QED BY <3>2, <3>3, <3>4, <3>5, <1>c DEF TagInv
  <2>4. DataInv'
    <3>1. \A d \in Calls :
       /\ data'[d] \in {NoCall, d}
       /\ data'[d] = d => d \in served
       /\ pc'[d] \in {"idle", "tag", "tagwait", "send", "short"} => d \notin served
       /\ pc'[d] \in {"idle", "tag", "tagwait", "send", "short", "read", "dispatch", "eof", "failed"}
            => data'[d] = NoCall
       /\ pc'[d] \in {"elect", "muxed"} => data'[d] = d
       /\ pc'[d] \in {"failed", "eof", "short"} => eof
      <4> TAKE d \in Calls
      <4>1. /\ data'[d] = IF d = q THEN d ELSE data[d]
            /\ q \in served
        BY <2>0, <2>a, <1>a, <1>f DEF IInv, TypeOK
      <4>2. pc'[d] \in {"idle", "send", "short", "muxed", "failed", "eof"} => d # c /\ pc'[d] = pc[d]
        BY <2>d
      <4>3. pc'[d] \in {"tag", "tagwait", "read", "dispatch", "elect"} =>
              \/ pc'[d] = pc[d] /\ d # c
              \/ pc[d] = "tagwait" /\ pc'[d] = "tag" /\ d # c
              \/ d = c /\ pc'[d] = (IF q = c THEN "elect" ELSE "read")
        BY <2>d
      <4>4. d # q \/ pc'[d] \in {"elect", "mux", "asleep", "push", "queued"}
        BY <2>a, <2>d, <1>a DEF IInv, TypeOK, PCs
      <4> QED BY <4>1, <4>2, <4>3, <4>4, <2>a, <1>a, MuxAssumption DEF IInv, DataInv
    <3>2. \A n \in InFlight' : n.call \in served <=> n \notin requests
      BY <1>d DEF IInv, DataInv
    <3>3. \A d \in Async : d = calling \/ d \in called \/ (\E i \in 1..Len(adisp') : adisp'[i] = d)
                        => data'[d] = d
      BY <2>0, <2>a DEF IInv, TypeOK, DataInv, Calls
    <3> QED BY <3>1, <3>2, <3>3, <1>c DEF DataInv, net
  <2>5. QueueInv'
    BY <2>d, <1>a, <1>c, QueueKept
  <2>6. OneMuxer'
    BY <2>0, <2>a, <2>d, <1>a, <1>c DEF IInv, TypeOK, OneMuxer
  <2>7. TagsKept'
    BY <2>0, <2>a, <1>c DEF IInv, TypeOK, TagsKept
  <2> QED BY <2>1, <2>2, <2>3, <2>4, <2>5, <2>6, <2>7 DEF IInv
<1> QED BY <1>a, <1>e, <1>f

(* What an election does: the elected call is asleep, or has yet to look.  *)
LEMMA Elected ==
  ASSUME NEW c \in Calls, NEW p \in [Calls -> PCs], IInv, ElectMuxer(p), muxer = c,
         \A d \in Calls : d # c => p[d] = pc[d]
  PROVE  /\ pc' \in [Calls -> PCs]
         /\ muxer' \in Calls \cup {NoCall} /\ muxer' # c
         /\ pc'[c] = p[c]
         /\ \A d \in Calls : d # c => pc'[d] = pc[d] \/ (pc[d] = "asleep" /\ pc'[d] = "mux")
         /\ muxer' # NoCall => pc'[muxer'] = "mux" /\ data[muxer'] = NoCall
<1>1. CASE Candidates = {} /\ muxer' = NoCall /\ pc' = p
  BY <1>1, MuxAssumption DEF IInv, TypeOK
<1>2. CASE \E e \in Candidates : muxer' = e /\ pc' = Wake(p, e)
  <2>1. PICK e \in Candidates : muxer' = e /\ pc' = Wake(p, e)
    BY <1>2
  <2>2. e \in Calls /\ e # c /\ data[e] = NoCall /\ pc[e] \in {"mux", "asleep"}
    <3>1. e \in Calls /\ e # c /\ waiting[e] /\ \E t \in Tags : wait[t] = e
      BY DEF Candidates
    <3>2. PICK t \in Tags : wait[t] = e
      BY <3>1
    <3>3. data[e] = NoCall /\ pc[e] \in {"mux", "asleep", "read", "dispatch", "eof"}
      BY <3>1, <3>2, MuxAssumption DEF IInv, TagInv
    <3> QED BY <3>1, <3>3 DEF IInv, OneMuxer
  <2> QED BY <2>1, <2>2 DEF Wake, PCs
<1> QED BY <1>1, <1>2 DEF ElectMuxer

LEMMA ElectInv == ASSUME IInv, NEW c \in Calls, Elect(c) PROVE IInv'
<1> DEFINE p == [pc EXCEPT ![c] = "muxed"]
<1>a. /\ pc[c] = "elect" /\ muxer = c /\ data[c] = c /\ ElectMuxer(p) /\ LeaveMux(c)
      /\ UNCHANGED <<tags, data, waiting, got, amux, adisp, calling, called, net, eof>>
  BY DEF IInv, OneMuxer, DataInv, Elect
<1>b. p \in [Calls -> PCs] /\ p[c] = "muxed" /\ \A d \in Calls : d # c => p[d] = pc[d]
  BY DEF IInv, TypeOK, PCs
<1> HIDE DEF p
<1>c. /\ pc' \in [Calls -> PCs]
      /\ muxer' \in Calls \cup {NoCall} /\ muxer' # c
      /\ pc'[c] = "muxed"
      /\ \A d \in Calls : d # c => pc'[d] = pc[d] \/ (pc[d] = "asleep" /\ pc'[d] = "mux")
      /\ muxer' # NoCall => pc'[muxer'] = "mux" /\ data[muxer'] = NoCall
  BY <1>a, <1>b, Elected
<1>d. InFlight' = InFlight
  BY <1>a DEF InFlight, net
<1>1. TypeOK'
  BY <1>a, <1>c DEF IInv, TypeOK, LeaveMux, tags, net
<1>2. MsgInv'
  <2>1. \A d \in Calls : /\ got[d] # {} => pc'[d] = "dispatch"
                         /\ pc'[d] \in {"send", "short"} \/ (pc'[d] = "failed" /\ ~waiting[d])
                             => \A m \in InFlight : m.call # d
    BY <1>a, <1>c DEF IInv, MsgInv, TagInv
  <2>2. \A m \in InFlight : tag[m.call] = m.tag /\ m.tag \notin free /\ wait[m.tag] \in {m.call, NoCall}
    BY DEF IInv, MsgInv
  <2> QED BY <1>a, <1>d, <2>1, <2>2, MsgKept DEF tags, net
<1>3. TagInv'
  <2>1. \A t \in Tags : wait[t] # c
    BY <1>a, MuxAssumption DEF IInv, TagInv
  <2> QED BY <1>a, <1>c, <2>1 DEF IInv, TypeOK, TagInv, tags
<1>4. DataInv'
  BY <1>a, <1>c, <1>d DEF IInv, TypeOK, DataInv, net
<1>5. QueueInv'
  BY <1>a, <1>c, QueueKept
<1>6. OneMuxer'
  BY <1>a, <1>c DEF IInv, TypeOK, OneMuxer
<1>7. TagsKept'
  BY <1>a DEF IInv, TagsKept, tags
<1> QED BY <1>1, <1>2, <1>3, <1>4, <1>5, <1>6, <1>7 DEF IInv

LEMMA MuxRaisesInv == ASSUME IInv, NEW c \in Calls, MuxRaises(c) PROVE IInv'
<1> DEFINE p == [pc EXCEPT ![c] = "failed"]
<1>a. /\ pc[c] = "eof" /\ muxer = c /\ data[c] = NoCall /\ waiting[c] /\ eof
      /\ ElectMuxer(p) /\ LeaveMux(c)
      /\ wait' = [t \in Tags |-> IF wait[t] = c THEN NoCall ELSE wait[t]]
      /\ UNCHANGED <<free, tag, data, waiting, got, amux, adisp, calling, called, net, eof>>
  BY DEF IInv, OneMuxer, DataInv, TagInv, MuxRaises
<1>b. p \in [Calls -> PCs] /\ p[c] = "failed" /\ \A d \in Calls : d # c => p[d] = pc[d]
  BY DEF IInv, TypeOK, PCs
<1> HIDE DEF p
<1>c. /\ pc' \in [Calls -> PCs]
      /\ muxer' \in Calls \cup {NoCall} /\ muxer' # c
      /\ pc'[c] = "failed"
      /\ \A d \in Calls : d # c => pc'[d] = pc[d] \/ (pc[d] = "asleep" /\ pc'[d] = "mux")
      /\ muxer' # NoCall => pc'[muxer'] = "mux" /\ data[muxer'] = NoCall
  BY <1>a, <1>b, Elected
<1>d. InFlight' = InFlight /\ InFlight \subseteq Msg
  BY <1>a DEF InFlight, net, IInv, TypeOK
<1>e. \A t \in Tags : /\ wait'[t] \in {wait[t], NoCall} /\ wait'[t] # c
                      /\ wait[t] # c => wait'[t] = wait[t]
  BY <1>a, MuxAssumption DEF Calls
<1>1. TypeOK'
  BY <1>a, <1>c DEF IInv, TypeOK, LeaveMux, net
<1>2. MsgInv'
  <2>1. \A d \in Calls : /\ got[d] # {} => pc'[d] = "dispatch"
                         /\ pc'[d] \in {"send", "short"} \/ (pc'[d] = "failed" /\ ~waiting[d])
                             => \A m \in InFlight : m.call # d
    BY <1>a, <1>c DEF IInv, MsgInv, TagInv
  <2>2. \A m \in InFlight : tag[m.call] = m.tag /\ m.tag \notin free /\ wait'[m.tag] \in {m.call, NoCall}
    BY <1>d, <1>e DEF IInv, MsgInv, Msg
  <2> QED BY <1>a, <1>d, <2>1, <2>2, MsgKept DEF net
<1>3. TagInv'
  <2>1. \A t \in free' : wait'[t] = NoCall
    BY <1>a, <1>e DEF IInv, TypeOK, TagInv
  <2>2. \A t \in Tags : wait'[t] # NoCall =>
          /\ tag[wait'[t]] = t
          /\ data[wait'[t]] = NoCall
          /\ waiting[wait'[t]] => pc'[wait'[t]] \in {"mux", "asleep", "read", "dispatch", "eof"}
    BY <1>c, <1>e DEF IInv, TypeOK, TagInv
  <2>3. \A d \in Calls :
       /\ pc'[d] \in {"idle", "tag", "tagwait"} <=> tag[d] = NoTag
       /\ pc'[d] \in {"idle", "tag", "tagwait", "send", "short", "push", "queued"} => ~waiting[d]
       /\ pc'[d] \in {"asleep", "read", "dispatch", "elect", "eof"} => waiting[d]
    BY <1>a, <1>c DEF IInv, TypeOK, TagInv
  <2>4. \A d \in Calls :
         pc'[d] \in {"send", "short", "push", "queued", "mux", "asleep", "read", "dispatch", "eof"}
            => data[d] # NoCall \/ wait'[tag[d]] = d
    <3> SUFFICES ASSUME NEW d \in Calls, d # c, data[d] = NoCall,
               pc'[d] \in {"send", "short", "push", "queued", "mux", "asleep", "read", "dispatch", "eof"}
                 PROVE  wait'[tag[d]] = d
      BY <1>c
    <3>1. wait[tag[d]] = d /\ tag[d] \in Tags
      BY <1>c, MuxAssumption DEF IInv, TypeOK, TagInv, Calls
    <3> QED BY <3>1, <1>e
  <2> QED BY <1>a, <2>1, <2>2, <2>3, <2>4 DEF TagInv
<1>4. DataInv'
  BY <1>a, <1>c, <1>d DEF IInv, TypeOK, DataInv, net
<1>5. QueueInv'
  BY <1>a, <1>c, QueueKept
<1>6. OneMuxer'
  BY <1>a, <1>c DEF IInv, TypeOK, OneMuxer
<1>7. TagsKept'
  BY <1>a, <1>e DEF IInv, TypeOK, TagsKept
<1> QED BY <1>1, <1>2, <1>3, <1>4, <1>5, <1>6, <1>7 DEF IInv

LEMMA CallbackInv == ASSUME IInv, Callback PROVE IInv'
<1> USE MuxAssumption DEF IInv, TypeOK, Calls, tags, net, apart, Callback
<1>1. TypeOK'
  BY DEF PCs, Msg, TagInv
<1>2. MsgInv'
  BY DEF MsgInv, TagInv, DataInv, OneMuxer, InFlight
<1>3. TagInv'
  BY DEF TagInv, MsgInv, DataInv, OneMuxer
<1>4. DataInv'
  <2>1. \A d \in Async : d = calling' \/ (\E i \in 1..Len(adisp') : adisp'[i] = d)
                        => \E i \in 1..Len(adisp) : adisp[i] = d
    OBVIOUS
  <2>2. InFlight' = InFlight
    BY DEF InFlight
  <2> QED BY <2>1, <2>2 DEF DataInv
<1>5. QueueInv'
  BY DEF QueueInv
<1>6. OneMuxer'
  BY DEF OneMuxer, TagInv, DataInv, QueueInv
<1>7. TagsKept'
  BY DEF TagsKept, TagInv, DataInv, OneMuxer
<1> QED BY <1>1, <1>2, <1>3, <1>4, <1>5, <1>6, <1>7

LEMMA CallbackCallsInv == ASSUME IInv, CallbackCalls PROVE IInv'
<1> USE MuxAssumption DEF IInv, TypeOK, Calls, tags, net, apart, CallbackCalls, Nested
<1>1. TypeOK'
  BY DEF PCs, Msg, TagInv
<1>2. MsgInv'
  BY DEF MsgInv, TagInv, DataInv, OneMuxer, InFlight
<1>3. TagInv'
  BY DEF TagInv, MsgInv, DataInv, OneMuxer
<1>4. DataInv'
  BY DEF DataInv, TagInv, MsgInv, OneMuxer, QueueInv, InFlight
<1>5. QueueInv'
  BY DEF QueueInv
<1>6. OneMuxer'
  BY DEF OneMuxer, TagInv, DataInv, QueueInv
<1>7. TagsKept'
  BY DEF TagsKept, TagInv, DataInv, OneMuxer
<1> QED BY <1>1, <1>2, <1>3, <1>4, <1>5, <1>6, <1>7

LEMMA CallbackReturnsInv == ASSUME IInv, CallbackReturns PROVE IInv'
<1> USE MuxAssumption DEF IInv, TypeOK, Calls, tags, net, apart, CallbackReturns
<1>1. TypeOK'
  BY DEF PCs, Msg, TagInv
<1>2. MsgInv'
  BY DEF MsgInv, TagInv, DataInv, OneMuxer, InFlight
<1>3. TagInv'
  BY DEF TagInv, MsgInv, DataInv, OneMuxer
<1>4. DataInv'
  BY DEF DataInv, TagInv, MsgInv, OneMuxer, QueueInv, InFlight
<1>5. QueueInv'
  BY DEF QueueInv
<1>6. OneMuxer'
  BY DEF OneMuxer, TagInv, DataInv, QueueInv
<1>7. TagsKept'
  BY DEF TagsKept, TagInv, DataInv, OneMuxer
<1> QED BY <1>1, <1>2, <1>3, <1>4, <1>5, <1>6, <1>7

LEMMA ServeInv == ASSUME IInv, NEW m \in requests, Serve(m) PROVE IInv'
<1> USE MuxAssumption DEF IInv, TypeOK, Calls, tags, net, apart, Serve
<1>1. TypeOK'
  BY DEF PCs, Msg, TagInv
<1>2. MsgInv'
  BY DEF MsgInv, Msg, TagInv, DataInv, OneMuxer, InFlight
<1>3. TagInv'
  BY DEF TagInv, Msg, MsgInv, DataInv, OneMuxer
<1>4. DataInv'
  <2>1. InFlight' = InFlight /\ m \in InFlight /\ m \in Msg
    BY DEF InFlight
  <2>2. pc[m.call] \notin {"idle", "tag", "tagwait", "send", "short"}
    BY <2>1 DEF MsgInv, TagInv, Msg
  <2>3. \A n \in InFlight : n.call \in served' <=> n \notin requests'
    <3> TAKE n \in InFlight
    <3>1. n.call = m.call => n = m
      BY <2>1, SameMessage
    <3> QED BY <3>1, <2>1 DEF DataInv
  <2> QED BY <2>1, <2>2, <2>3 DEF DataInv
<1>5. QueueInv'
  BY DEF QueueInv, Msg
<1>6. OneMuxer'
  BY DEF OneMuxer, Msg, TagInv, DataInv, QueueInv
<1>7. TagsKept'
  BY DEF TagsKept, Msg, TagInv, DataInv, OneMuxer
<1> QED BY <1>1, <1>2, <1>3, <1>4, <1>5, <1>6, <1>7

LEMMA CloseInv == ASSUME IInv, Close PROVE IInv'
<1> USE MuxAssumption DEF IInv, TypeOK, Calls, tags, net, apart, Close
<1>1. TypeOK'
  BY DEF PCs, Msg, TagInv
<1>2. MsgInv'
  BY DEF MsgInv, TagInv, DataInv, OneMuxer, InFlight
<1>3. TagInv'
  BY DEF TagInv, MsgInv, DataInv, OneMuxer
<1>4. DataInv'
  BY DEF DataInv, TagInv, MsgInv, OneMuxer, QueueInv, InFlight
<1>5. QueueInv'
  BY DEF QueueInv
<1>6. OneMuxer'
  BY DEF OneMuxer, TagInv, DataInv, QueueInv
<1>7. TagsKept'
  BY DEF TagsKept, TagInv, DataInv, OneMuxer
<1> QED BY <1>1, <1>2, <1>3, <1>4, <1>5, <1>6, <1>7

LEMMA InitInv == Init => IInv
<1> SUFFICES ASSUME Init PROVE IInv
  OBVIOUS
<1>1. InFlight = {}
  BY DEF Init, InFlight
<1>2. TypeOK
  <2>1. <<>> \in Seq(Async)
    OBVIOUS
  <2> QED BY <2>1 DEF Init, TypeOK, PCs
<1>3. MsgInv
  BY <1>1 DEF Init, MsgInv
<1>4. TagInv
  BY MuxAssumption DEF Init, TagInv
<1>5. DataInv
  BY <1>1, MuxAssumption DEF Init, DataInv, Calls
<1>6. QueueInv
  BY DEF Init, QueueInv
<1>7. OneMuxer /\ TagsKept
  BY DEF Init, OneMuxer, TagsKept
<1> QED BY <1>2, <1>3, <1>4, <1>5, <1>6, <1>7 DEF IInv

LEMMA StoppedInv == ASSUME IInv, UNCHANGED vars PROVE IInv'
<1>1. InFlight' = InFlight
  BY DEF InFlight, vars, net
<1> QED BY <1>1 DEF IInv, TypeOK, MsgInv, TagInv, DataInv, QueueInv, OneMuxer, TagsKept,
         vars, tags, net, apart

LEMMA NextInv == ASSUME IInv, [Next]_vars PROVE IInv'
<1>1. CASE \E c \in Calls : Begin(c) \/ Thread(c)
  <2> PICK c \in Calls : Begin(c) \/ Thread(c)
    BY <1>1
  <2> QED BY BeginInv, GetTagInv, TagWaitInv, SendInv, SendRaisesInv, SendShortInv, PutBackInv,
             PushInv, MuxHasInv, MuxWaitInv, MuxReadInv, RecvInv, RecvEofInv, DispatchInv,
             ElectInv, MuxRaisesInv DEF Thread
<1>2. CASE Pop \/ Dispatcher \/ Close
  BY <1>2, PopInv, CallbackInv, CallbackCallsInv, CallbackReturnsInv, CloseInv DEF Dispatcher
<1>3. CASE \E m \in requests : Serve(m)
  BY <1>3, ServeInv
<1>4. CASE Stopped \/ UNCHANGED vars
  BY <1>4, StoppedInv DEF Stopped
<1> QED BY <1>1, <1>2, <1>3, <1>4 DEF Next

(* The invariant holds of every run of Mux (mux.py).                       *)
THEOREM Invariance == Safety => []IInv
<1>1. IInv /\ [Next]_vars => IInv'
  BY NextInv
<1> QED BY <1>1, InitInv, PTL DEF Safety

(* One caller reads the connection at a time, and whoever is elected reads *)
(* (mux.py:52-80, 92-98).                                                  *)
THEOREM OneMuxerAlways == Safety => []OneMuxer
<1>1. IInv => OneMuxer
  BY DEF IInv
<1> QED BY <1>1, Invariance, PTL

(* No tag is lost while the connection lasts, and gettag never finds a     *)
(* free tag held (mux.py:109-130).                                         *)
THEOREM TagsKeptAlways == Safety => []TagsKept
<1>1. IInv => TagsKept
  BY DEF IInv
<1> QED BY <1>1, Invariance, PTL
-----------------------------------------------------------------------------
(* Mux implements the safety part of Rpc.                                  *)

LEMMA StatusOf ==
  ASSUME NEW c \in Calls
  PROVE  /\ Status(c) = "idle" <=> pc[c] = "idle"
         /\ Status(c) = "failed" <=> pc[c] = "failed"
         /\ c \in Async => (Status(c) = "done" <=> pc[c] \notin {"idle", "failed"} /\ c \in called)
         /\ c \notin Async => (Status(c) = "done" <=> pc[c] = "muxed")
         /\ Status(c) \in {"idle", "pending", "done", "failed"}
BY DEF Status, Ended

LEMMA StatusOfNext ==
  ASSUME NEW c \in Calls
  PROVE  /\ Status(c)' = "idle" <=> pc'[c] = "idle"
         /\ Status(c)' = "failed" <=> pc'[c] = "failed"
         /\ c \in Async => (Status(c)' = "done" <=> pc'[c] \notin {"idle", "failed"} /\ c \in called')
         /\ c \notin Async => (Status(c)' = "done" <=> pc'[c] = "muxed")
         /\ Status(c)' \in {"idle", "pending", "done", "failed"}
BY DEF Status, Ended

(* A step that leaves the status of each call alone is a stutter of Rpc.   *)
LEMMA Stutter ==
  ASSUME IInv, \A c \in Calls : Status(c)' = Status(c),
         \A c \in Calls : data'[c] = data[c] \/ data[c] = NoCall,
         UNCHANGED <<served, eof>>
  PROVE  UNCHANGED Promise!rvars
<1>1. \A c \in Calls : Status(c) = "done" => data[c] = c
  BY StatusOf DEF IInv, DataInv
<1> QED BY <1>1, MuxAssumption DEF Promise!rvars, Calls

(* How a step that moves one call maps to Rpc.                             *)
LEMMA Moves ==
  ASSUME IInv, NEW c \in Calls,
         \A d \in Calls : d # c => Status(d)' = Status(d) /\ data'[d] = data[d],
         Status(c) \in {"idle", "pending"}, UNCHANGED <<served, eof>>
  PROVE  /\ Status(c) = "idle" /\ Status(c)' = "pending" => Promise!Issue(c)
         /\ Status(c) = "pending" /\ Status(c)' = "done" /\ data'[c] = c /\ c \in served
              => Promise!Return(c)
         /\ Status(c) = "pending" /\ Status(c)' = "failed" /\ eof => Promise!Fail(c)
<1> DEFINE s == [d \in Calls |-> Status(d)]
           a == [d \in Calls |-> IF Status(d) = "done" THEN data[d] ELSE NoCall]
<1>1. Status(c)' # "done" => s' = [s EXCEPT ![c] = Status(c)'] /\ a' = a
  OBVIOUS
<1>2. Status(c)' = "done" /\ data'[c] = c
        => s' = [s EXCEPT ![c] = "done"] /\ a' = [a EXCEPT ![c] = c]
  OBVIOUS
<1> QED BY <1>1, <1>2 DEF Promise!Issue, Promise!Return, Promise!Fail

(* Threads woken by a notify are pending before and after.                 *)
LEMMA Woken ==
  ASSUME NEW d \in Calls, called' = called,
         \/ pc'[d] = pc[d]
         \/ pc[d] \in {"asleep", "tagwait"} /\ pc'[d] \in {"mux", "tag"}
  PROVE  Status(d)' = Status(d)
BY DEF Status, Ended

(* While its thread is in newrpc or mux() a call is pending.               *)
LEMMA PendingIn ==
  ASSUME IInv, NEW c \in Calls, pc[c] \notin {"idle", "failed", "muxed"}, c \in Sync \/ c \notin called
  PROVE  Status(c) = "pending"
BY MuxAssumption DEF Status, Ended, Calls

LEMMA RefineQuiet ==
  ASSUME IInv, NEW c \in Calls,
         \/ GetTag(c) \/ TagWait(c) \/ Send(c) \/ Push(c) \/ MuxWait(c) \/ MuxRead(c)
         \/ Recv(c) \/ RecvEof(c)
  PROVE  UNCHANGED Promise!rvars
<1>1. /\ pc[c] \in PCs \ {"idle", "failed", "muxed"}
      /\ \E x \in PCs \ {"idle", "failed", "muxed"} : pc' = [pc EXCEPT ![c] = x]
      /\ UNCHANGED <<called, data, served, eof>>
  BY DEF GetTag, TagWait, Send, Push, MuxWait, MuxRead, Recv, RecvEof, tags, net, apart, PCs
<1>2. \A d \in Calls : Status(d)' = Status(d)
  BY <1>1 DEF Status, Ended, IInv, TypeOK
<1> QED BY <1>1, <1>2, Stutter

LEMMA RefineDispatch ==
  ASSUME IInv, NEW c \in Calls, NEW m \in got[c], Dispatch(c, m)
  PROVE  UNCHANGED Promise!rvars
<1>1. m \in Msg /\ wait[m.tag] \in Calls \cup {NoCall} /\ UNCHANGED <<called, served, eof>>
  BY DEF Dispatch, net, IInv, TypeOK, Msg
<1>2. \A d \in Calls : data'[d] = data[d] \/ data[d] = NoCall
  <2>1. CASE wait[m.tag] = NoCall
    BY <2>1 DEF Dispatch
  <2>2. CASE wait[m.tag] # NoCall
    <3>1. data' = [data EXCEPT ![wait[m.tag]] = m.call] /\ data[wait[m.tag]] = NoCall
      BY <2>2, <1>1 DEF Dispatch, IInv, TagInv, Msg
    <3> QED BY <3>1, <1>1, <2>2 DEF IInv, TypeOK
  <2> QED BY <2>1, <2>2
<1>3. \A d \in Calls : \/ pc'[d] = pc[d]
                       \/ /\ pc[d] \in {"asleep", "tagwait", "dispatch"}
                          /\ pc'[d] \in {"mux", "tag", "read", "elect"}
  <2>1. CASE wait[m.tag] = NoCall
    BY <2>1 DEF Dispatch, IInv, TypeOK
  <2>2. CASE wait[m.tag] # NoCall
    <3> DEFINE q == wait[m.tag]
               p == Wake([pc EXCEPT ![c] = IF q = c THEN "elect" ELSE "read"], q)
    <3>1. pc[c] = "dispatch" /\ NotifyTag(p)
      BY <2>2 DEF Dispatch
    <3>2. /\ p \in [Calls -> PCs]
          /\ \A d \in Calls : \/ p[d] = pc[d]
                              \/ pc[d] \in {"asleep", "dispatch"} /\ p[d] \in {"mux", "read", "elect"}
      BY <1>1, <3>1 DEF Wake, IInv, TypeOK, PCs
    <3> HIDE DEF p
    <3>3. \A d \in Calls : pc'[d] = p[d] \/ (p[d] = "tagwait" /\ pc'[d] = "tag")
      BY <3>1, <3>2, NotifyTagFacts DEF Notified
    <3> QED BY <3>2, <3>3
  <2> QED BY <2>1, <2>2
<1>4. \A d \in Calls : Status(d)' = Status(d)
  BY <1>1, <1>3 DEF Status, Ended
<1> QED BY <1>1, <1>2, <1>4, Stutter

(* The three ways a call fails, and the two ways one without a callback    *)
(* returns.                                                                *)
LEMMA RefineFails ==
  ASSUME IInv, NEW c \in Calls, SendRaises(c) \/ PutBack(c) \/ MuxRaises(c)
  PROVE  Promise!Fail(c)
<1>1. /\ pc[c] \in {"send", "short", "eof"} /\ eof /\ data[c] = NoCall
      /\ UNCHANGED <<called, data, served, eof>>
  BY DEF SendRaises, PutBack, MuxRaises, IInv, DataInv, net, apart
<1>2. pc'[c] = "failed" /\ \A d \in Calls : d # c =>
             pc'[d] = pc[d] \/ (pc[d] \in {"asleep", "tagwait"} /\ pc'[d] \in {"mux", "tag"})
  <2> DEFINE p == [pc EXCEPT ![c] = "failed"]
  <2>1. p \in [Calls -> PCs] /\ p[c] = "failed" /\ \A d \in Calls : d # c => p[d] = pc[d]
    BY DEF IInv, TypeOK, PCs
  <2> HIDE DEF p
  <2>2. CASE SendRaises(c)
    BY <2>2, <2>1 DEF SendRaises, p
  <2>3. CASE PutBack(c)
    <3>1. NotifyTag(p)
      BY <2>3 DEF PutBack, p
    <3> QED BY <3>1, <2>1, NotifyTagFacts DEF Notified
  <2>4. CASE MuxRaises(c)
    <3>1. ElectMuxer(p) /\ muxer = c
      BY <2>4 DEF MuxRaises, p, IInv, OneMuxer
    <3> QED BY <3>1, <2>1, Elected
  <2> QED BY <2>2, <2>3, <2>4
<1>3. c \notin called
  BY <1>1, MuxAssumption DEF IInv, TypeOK, DataInv, Calls
<1>4. \A d \in Calls : d # c => Status(d)' = Status(d)
  BY <1>1, <1>2, Woken
<1>5. Status(c) = "pending" /\ Status(c)' = "failed"
  BY <1>1, <1>2, <1>3, PendingIn DEF Status
<1> QED BY <1>1, <1>4, <1>5, Moves

LEMMA RefineReturns ==
  ASSUME IInv, NEW c \in Calls, MuxHas(c) \/ Elect(c)
  PROVE  Promise!Return(c) \/ UNCHANGED Promise!rvars
<1>1. /\ pc[c] \in {"mux", "elect"} /\ data[c] = c /\ c \in served
      /\ UNCHANGED <<called, data, served, eof>>
  BY DEF MuxHas, Elect, IInv, DataInv, net, apart
<1>2. pc'[c] = "muxed" /\ \A d \in Calls : d # c =>
             pc'[d] = pc[d] \/ (pc[d] \in {"asleep", "tagwait"} /\ pc'[d] \in {"mux", "tag"})
  <2> DEFINE p == [pc EXCEPT ![c] = "muxed"]
  <2>1. p \in [Calls -> PCs] /\ p[c] = "muxed" /\ \A d \in Calls : d # c => p[d] = pc[d]
    BY DEF IInv, TypeOK, PCs
  <2> HIDE DEF p
  <2>2. CASE MuxHas(c)
    BY <2>2, <2>1 DEF MuxHas, p
  <2>3. CASE Elect(c)
    <3>1. ElectMuxer(p) /\ muxer = c
      BY <2>3 DEF Elect, p, IInv, OneMuxer
    <3> QED BY <3>1, <2>1, Elected
  <2> QED BY <2>2, <2>3
<1>3. \A d \in Calls : d # c => Status(d)' = Status(d)
  BY <1>1, <1>2, Woken
<1>4. CASE c \in Async
  <2>1. Status(c)' = Status(c)
    BY <1>1, <1>2, <1>4 DEF Status, Ended
  <2> QED BY <2>1, <1>1, <1>3, Stutter
<1>5. CASE c \notin Async
  <2>1. Status(c) = "pending" /\ Status(c)' = "done"
    BY <1>1, <1>2, <1>5 DEF Status, Ended
  <2> QED BY <2>1, <1>1, <1>3, Moves
<1> QED BY <1>4, <1>5

LEMMA RefineBegins ==
  ASSUME IInv, NEW c \in Calls, pc[c] = "idle", pc' = [pc EXCEPT ![c] = "tag"],
         UNCHANGED <<called, data, served, eof>>
  PROVE  Promise!Issue(c)
<1>1. c \notin called
  BY MuxAssumption DEF IInv, TypeOK, DataInv, Calls
<1>2. Status(c) = "idle" /\ Status(c)' = "pending"
  BY <1>1, MuxAssumption DEF Status, Ended, IInv, TypeOK
<1>3. \A d \in Calls : d # c => Status(d)' = Status(d)
  BY DEF Status, Ended, IInv, TypeOK
<1> QED BY <1>2, <1>3, Moves

LEMMA RefineCallback ==
  ASSUME IInv, CallbackReturns
  PROVE  (\E c \in Calls : Promise!Return(c)) \/ UNCHANGED Promise!rvars
<1> PICK c \in Async : c = calling
  BY DEF CallbackReturns, IInv, TypeOK
<1>1. /\ c \in Async /\ c \in Calls /\ data[c] = c /\ c \in served
      /\ pc[c] \notin {"idle", "failed"}
      /\ called' = called \cup {c} /\ UNCHANGED <<pc, data, served, eof>>
  BY MuxAssumption DEF CallbackReturns, net, IInv, TypeOK, DataInv, Calls
<1>2. \A d \in Calls : d # c => Status(d)' = Status(d)
  BY <1>1 DEF Status, Ended
<1>3. Status(c)' = "done" /\ Status(c) \in {"pending", "done"}
  BY <1>1 DEF Status, Ended
<1>4. CASE Status(c) = "done"
  BY <1>1, <1>2, <1>3, <1>4, Stutter
<1>5. CASE Status(c) = "pending"
  BY <1>1, <1>2, <1>3, <1>5, Moves
<1> QED BY <1>3, <1>4, <1>5

LEMMA RefineServe ==
  ASSUME IInv, NEW m \in requests, Serve(m)
  PROVE  \E c \in Calls : Promise!Serve(c)
<1> DEFINE c == m.call
<1>1. /\ m \in InFlight /\ c \in Calls /\ c \notin served /\ ~eof
      /\ served' = served \cup {c} /\ UNCHANGED <<pc, data, called, eof>>
  BY DEF Serve, apart, IInv, TypeOK, DataInv, InFlight, Msg
<1>2. data[c] = NoCall /\ pc[c] \notin {"idle", "muxed", "failed"}
  BY <1>1, MuxAssumption DEF IInv, TypeOK, DataInv, MsgInv, TagInv, Msg, Calls
<1>3. Status(c) = "pending"
  <2>1. c \notin called
    BY <1>1, <1>2, MuxAssumption DEF IInv, TypeOK, DataInv, Calls
  <2> QED BY <2>1, <1>1, <1>2, PendingIn
<1>4. \A d \in Calls : Status(d)' = Status(d)
  BY <1>1 DEF Status, Ended
<1> QED BY <1>1, <1>3, <1>4 DEF Promise!Serve

LEMMA RefineBreaks ==
  ASSUME IInv, Close \/ \E c \in Calls : SendShort(c)
  PROVE  Promise!Break
<1>1. ~eof /\ eof' = TRUE /\ UNCHANGED <<data, called, served>>
  BY DEF Close, SendShort, net, apart
<1>2. \A d \in Calls : pc'[d] = pc[d] \/ (pc[d] = "send" /\ pc'[d] = "short")
  BY DEF Close, SendShort, IInv, TypeOK
<1>3. \A d \in Calls : Status(d)' = Status(d)
  BY <1>1, <1>2 DEF Status, Ended
<1> QED BY <1>1, <1>3 DEF Promise!Break

LEMMA RefineNext ==
  ASSUME IInv, [Next]_vars
  PROVE  Promise!Next \/ UNCHANGED Promise!rvars
<1>1. CASE \E c \in Calls : Begin(c) \/ Thread(c)
  <2> PICK c \in Calls : Begin(c) \/ Thread(c)
    BY <1>1
  <2>1. CASE Begin(c)
    BY <2>1, RefineBegins DEF Begin, net, apart, Promise!Next
  <2>2. CASE Thread(c)
    BY <2>2, RefineQuiet, RefineDispatch, RefineFails, RefineReturns, RefineBreaks
       DEF Thread, Promise!Next
  <2> QED BY <2>1, <2>2
<1>2. CASE \E m \in requests : Serve(m)
  BY <1>2, RefineServe DEF Promise!Next
<1>3. CASE Close
  BY <1>3, RefineBreaks DEF Promise!Next
<1>4. CASE Pop
  <2>1. /\ Head(amux) \in Calls /\ pc[Head(amux)] = "queued" /\ pc' = [pc EXCEPT ![Head(amux)] = "mux"]
        /\ UNCHANGED <<data, called, served, eof>>
    BY <1>4 DEF Pop, net, IInv, TypeOK, QueueInv, Calls
  <2>2. \A d \in Calls : Status(d)' = Status(d)
    BY <2>1 DEF Status, Ended, IInv, TypeOK
  <2> QED BY <2>1, <2>2, Stutter
<1>5. CASE Dispatcher
  <2>1. CASE Callback
    BY <2>1, Stutter DEF Callback, Status, Ended, net
  <2>2. CASE CallbackCalls
    <3>1. Inner[calling] \in Calls
      BY <2>2, MuxAssumption DEF CallbackCalls, IInv, TypeOK, Calls
    <3> QED BY <3>1, <2>2, RefineBegins DEF CallbackCalls, net, apart, Promise!Next
  <2>3. CASE CallbackReturns
    BY <2>3, RefineCallback DEF Promise!Next
  <2> QED BY <1>5, <2>1, <2>2, <2>3 DEF Dispatcher
<1>6. CASE Stopped \/ UNCHANGED vars
  BY <1>6, Stutter DEF Stopped, vars, net, apart, Status, Ended
<1> QED BY <1>1, <1>2, <1>3, <1>4, <1>5, <1>6 DEF Next

LEMMA RefineInit == Init => Promise!Init
<1> SUFFICES ASSUME Init PROVE Promise!Init
  OBVIOUS
<1>1. \A c \in Calls : Status(c) = "idle"
  BY DEF Init, Status
<1> QED BY <1>1 DEF Init, Promise!Init

(* Every run of Mux is one that Rpc allows: a caller returns with the      *)
(* answer to its own request, after the server has executed it, and fails  *)
(* only when the connection is gone (mux.py:52-130, 163-174).              *)
THEOREM Refinement == Safety => Promise!Safety
<1>1. IInv /\ [Next]_vars => [Promise!Next]_(Promise!rvars)
  BY RefineNext
<1> QED BY <1>1, RefineInit, Invariance, PTL DEF Safety, Promise!Safety
=============================================================================
