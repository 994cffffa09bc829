-------------------------------- MODULE Mux --------------------------------
(***************************************************************************)
(* pyxp's multiplexer of 9P requests (pyxp/mux.py).  Many threads call     *)
(* rpc() over one connection.  There is no reader thread: one of the       *)
(* callers that wait for an answer is the muxer, reads whatever comes,     *)
(* hands it to the caller it is for, and when its own answer has come it   *)
(* elects the next muxer.  Calls with a callback are muxed one at a time   *)
(* by one queue thread and their callbacks are run, one at a time, by      *)
(* another.                                                                *)
(*                                                                         *)
(* A step is a region of code run under Mux.lock, or one socket call made  *)
(* without it.  The variable pc says where the thread that muxes a call    *)
(* stands in mux() or newrpc().                                            *)
(***************************************************************************)
EXTENDS Naturals, Sequences

CONSTANTS Sync,     \* calls whose thread waits for the answer
          Async,    \* calls with a callback
          Inner,    \* Inner[c]: the call the callback of c makes and waits for
          Tags,     \* mintag .. maxtag-1
          NoCall, NoTag

Calls == Sync \cup Async

ASSUME MuxAssumption ==
  /\ Sync \cap Async = {}
  /\ Tags # {}
  /\ NoCall \notin Calls
  /\ NoTag \notin Tags
  /\ Inner \in [Async -> Sync \cup {NoCall}]
  /\ \A c, d \in Async : Inner[c] = Inner[d] => c = d \/ Inner[c] = NoCall

VARIABLES
  pc,         \* where the thread of each call is
  free,       \* Mux.free: tags no call has
  wait,       \* Mux.wait: the call each tag is held by
  tag,        \* Rpc.tag
  data,       \* Rpc.data: the call whose answer was handed to this one
  waiting,    \* Rpc.waiting: mux() has been entered
  muxer,      \* Mux.muxer
  got,        \* the message a reader has received and not yet dispatched
  amux,       \* the queue of async_mux
  muxing,     \* the call the async_mux thread is in mux() with
  adisp,      \* the queue of async_dispatch
  calling,    \* the call whose callback the async_dispatch thread runs
  called,     \* calls whose callback has returned
  requests,   \* sent, and not yet read by the server
  responses,  \* answered, and not yet received
  served,     \* calls the server has executed
  eof         \* the connection is gone

net  == <<requests, responses, served>>
tags == <<free, wait, tag>>
apart == <<amux, muxing, adisp, calling, called>>
vars == <<pc, tags, data, waiting, muxer, got, apart, net, eof>>

Msg == [tag : Tags, call : Calls]

Nested == {Inner[c] : c \in Async} \ {NoCall}

Init ==
  /\ pc = [c \in Calls |-> "idle"]
  /\ free = Tags
  /\ wait = [t \in Tags |-> NoCall]
  /\ tag = [c \in Calls |-> NoTag]
  /\ data = [c \in Calls |-> NoCall]
  /\ waiting = [c \in Calls |-> FALSE]
  /\ muxer = NoCall
  /\ got = [c \in Calls |-> {}]
  /\ amux = <<>> /\ muxing = NoCall
  /\ adisp = <<>> /\ calling = NoCall /\ called = {}
  /\ requests = {} /\ responses = {} /\ served = {}
  /\ eof = FALSE
-----------------------------------------------------------------------------
(* Waking threads.  A thread asleep on its Rpc's condition, or on tagcond, *)
(* goes back to the test of its loop.                                      *)

Wake(p, c) == IF p[c] = "asleep" THEN [p EXCEPT ![c] = "mux"] ELSE p

(* tagcond.notify() on top of the other changes p of the counters.         *)
NotifyTag(p) ==
  \/ \E c \in Calls : p[c] = "tagwait" /\ pc' = [p EXCEPT ![c] = "tag"]
  \/ (\A c \in Calls : p[c] # "tagwait") /\ pc' = p

(* electmuxer: any waiting call that is not the muxer, or nobody.          *)
CandidatesNotWaiting ==   \* a mutant: one whose thread is not in mux() may be elected
  {c \in Calls : c # muxer /\ \E t \in Tags : wait[t] = c}

Candidates == {c \in Calls : c # muxer /\ waiting[c] /\ \E t \in Tags : wait[t] = c}

ElectsNobody(p) == muxer' = NoCall /\ pc' = p   \* a mutant

ElectMuxer(p) ==
  \/ \E c \in Candidates : muxer' = c /\ pc' = Wake(p, c)
  \/ Candidates = {} /\ muxer' = NoCall /\ pc' = p

(* The async_mux thread leaves mux() with c.                               *)
LeaveMux(c) == muxing' = IF c = muxing THEN NoCall ELSE muxing
-----------------------------------------------------------------------------
(* newrpc                                                                  *)

Begin(c) ==
  /\ pc[c] = "idle"
  /\ c \notin Nested
  /\ pc' = [pc EXCEPT ![c] = "tag"]
  /\ UNCHANGED <<tags, data, waiting, muxer, got, apart, net, eof>>

GetTagLeavesFree(c) ==   \* a mutant: the tag is not taken out of free
  /\ pc[c] = "tag"
  /\ \E t \in free : wait' = [wait EXCEPT ![t] = c] /\ tag' = [tag EXCEPT ![c] = t]
  /\ pc' = [pc EXCEPT ![c] = "send"]
  /\ UNCHANGED <<free, data, waiting, muxer, got, apart, net, eof>>

GetTag(c) ==
  /\ pc[c] = "tag"
  /\ \E t \in free :
       /\ free' = free \ {t}
       /\ wait' = [wait EXCEPT ![t] = c]
       /\ tag' = [tag EXCEPT ![c] = t]
  /\ pc' = [pc EXCEPT ![c] = "send"]
  /\ UNCHANGED <<data, waiting, muxer, got, apart, net, eof>>

TagWait(c) ==
  /\ pc[c] = "tag"
  /\ free = {}
  /\ pc' = [pc EXCEPT ![c] = "tagwait"]
  /\ UNCHANGED <<tags, data, waiting, muxer, got, apart, net, eof>>

Send(c) ==
  /\ pc[c] = "send"
  /\ ~eof
  /\ requests' = requests \cup {[tag |-> tag[c], call |-> c]}
  /\ pc' = [pc EXCEPT ![c] = IF c \in Async THEN "push" ELSE "mux"]
  /\ UNCHANGED <<tags, data, waiting, muxer, got, apart, responses, served, eof>>

(* The socket raises: nothing in newrpc undoes gettag.                     *)
SendRaises(c) ==
  /\ pc[c] = "send"
  /\ eof
  /\ pc' = [pc EXCEPT ![c] = "failed"]
  /\ UNCHANGED <<tags, data, waiting, muxer, got, apart, net, eof>>

(* The socket takes a part only.  The server cannot read on from there and *)
(* ends the connection.                                                    *)
SendShort(c) ==
  /\ pc[c] = "send"
  /\ ~eof
  /\ eof' = TRUE
  /\ pc' = [pc EXCEPT ![c] = "short"]
  /\ UNCHANGED <<tags, data, waiting, muxer, got, apart, net>>

PutTagKeepsWait(t) == free' = free \cup {t} /\ UNCHANGED wait   \* a mutant

PutTag(t) == /\ wait' = [wait EXCEPT ![t] = NoCall]
             /\ free' = free \cup {t}

(* newrpc then returns None, which mux() cannot take: the caller gets an   *)
(* AttributeError, or the async_mux thread does.                           *)
PutBack(c) ==
  /\ pc[c] = "short"
  /\ PutTag(tag[c])
  /\ NotifyTag([pc EXCEPT ![c] = "failed"])
  /\ UNCHANGED <<tag, data, waiting, muxer, got, apart, net, eof>>

(* rpc() with a callback: the queue thread of async_mux is to call mux().  *)
Push(c) ==
  /\ pc[c] = "push"
  /\ amux' = Append(amux, c)
  /\ pc' = [pc EXCEPT ![c] = "queued"]
  /\ UNCHANGED <<tags, data, waiting, muxer, got, muxing, adisp, calling, called, net, eof>>

Pop ==
  /\ muxing = NoCall
  /\ amux # <<>>
  /\ muxing' = Head(amux)
  /\ amux' = Tail(amux)
  /\ pc' = [pc EXCEPT ![Head(amux)] = "mux"]
  /\ UNCHANGED <<tags, data, waiting, muxer, got, adisp, calling, called, net, eof>>
-----------------------------------------------------------------------------
(* mux                                                                     *)

(* The answer was there before mux() looked, or came while it slept.       *)
MuxHas(c) ==
  /\ pc[c] = "mux"
  /\ data[c] # NoCall
  /\ waiting' = [waiting EXCEPT ![c] = TRUE]
  /\ pc' = [pc EXCEPT ![c] = "muxed"]
  /\ LeaveMux(c)
  /\ UNCHANGED <<tags, data, muxer, got, amux, adisp, calling, called, net, eof>>

MuxWait(c) ==
  /\ pc[c] = "mux"
  /\ data[c] = NoCall
  /\ muxer \notin {NoCall, c}
  /\ waiting' = [waiting EXCEPT ![c] = TRUE]
  /\ pc' = [pc EXCEPT ![c] = "asleep"]
  /\ UNCHANGED <<tags, data, muxer, got, apart, net, eof>>

MuxRead(c) ==
  /\ pc[c] = "mux"
  /\ data[c] = NoCall
  /\ muxer \in {NoCall, c}
  /\ waiting' = [waiting EXCEPT ![c] = TRUE]
  /\ muxer' = c
  /\ pc' = [pc EXCEPT ![c] = "read"]
  /\ UNCHANGED <<tags, data, got, apart, net, eof>>

Recv(c) ==
  /\ pc[c] = "read"
  /\ \E m \in responses : /\ responses' = responses \ {m}
                          /\ got' = [got EXCEPT ![c] = {m}]
  /\ pc' = [pc EXCEPT ![c] = "dispatch"]
  /\ UNCHANGED <<tags, data, waiting, muxer, apart, requests, served, eof>>

RecvEof(c) ==
  /\ pc[c] = "read"
  /\ responses = {}
  /\ eof
  /\ pc' = [pc EXCEPT ![c] = "eof"]
  /\ UNCHANGED <<tags, data, waiting, muxer, got, apart, net, eof>>

(* Dispatch by the thread of c, then the test of its loop.                 *)
Dispatch(c, m) ==
  /\ pc[c] = "dispatch"
  /\ got' = [got EXCEPT ![c] = {}]
  /\ LET q == wait[m.tag]
     IN IF q = NoCall
        THEN /\ pc' = [pc EXCEPT ![c] = "read"]
             /\ UNCHANGED <<free, wait, data, adisp>>
        ELSE /\ PutTag(m.tag)
             /\ data' = [data EXCEPT ![q] = m.call]
             /\ adisp' = IF q \in Async THEN Append(adisp, q) ELSE adisp
             /\ NotifyTag(Wake([pc EXCEPT ![c] = IF q = c THEN "elect" ELSE "read"], q))
  /\ UNCHANGED <<tag, waiting, muxer, amux, muxing, calling, called, net, eof>>

Elect(c) ==
  /\ pc[c] = "elect"
  /\ ElectMuxer([pc EXCEPT ![c] = "muxed"])
  /\ LeaveMux(c)
  /\ UNCHANGED <<tags, data, waiting, got, amux, adisp, calling, called, net, eof>>

(* recv found the end of the stream: the exception passes electmuxer, and  *)
(* takes the call out of wait; its tag is not put back.                    *)
MuxRaises(c) ==
  /\ pc[c] = "eof"
  /\ ElectMuxer([pc EXCEPT ![c] = "failed"])
  /\ wait' = [t \in Tags |-> IF wait[t] = c THEN NoCall ELSE wait[t]]
  /\ LeaveMux(c)
  /\ UNCHANGED <<free, tag, data, waiting, got, amux, adisp, calling, called, net, eof>>
-----------------------------------------------------------------------------
(* The async_dispatch thread.                                              *)

Callback ==
  /\ calling = NoCall
  /\ adisp # <<>>
  /\ calling' = Head(adisp)
  /\ adisp' = Tail(adisp)
  /\ UNCHANGED <<pc, tags, data, waiting, muxer, got, amux, muxing, called, net, eof>>

(* A callback may itself make a call and wait for it.                      *)
CallbackCalls ==
  /\ calling # NoCall
  /\ Inner[calling] # NoCall
  /\ pc[Inner[calling]] = "idle"
  /\ pc' = [pc EXCEPT ![Inner[calling]] = "tag"]
  /\ UNCHANGED <<tags, data, waiting, muxer, got, apart, net, eof>>

CallbackReturns ==
  /\ calling # NoCall
  /\ Inner[calling] # NoCall => pc[Inner[calling]] \in {"muxed", "failed"}
  /\ called' = called \cup {calling}
  /\ calling' = NoCall
  /\ UNCHANGED <<pc, tags, data, waiting, muxer, got, amux, muxing, adisp, net, eof>>
-----------------------------------------------------------------------------
(* The server answers the requests it has read in any order.               *)
Serve(m) ==
  /\ ~eof
  /\ requests' = requests \ {m}
  /\ responses' = responses \cup {m}
  /\ served' = served \cup {m.call}
  /\ UNCHANGED <<pc, tags, data, waiting, muxer, got, apart, eof>>

Close ==
  /\ ~eof
  /\ eof' = TRUE
  /\ UNCHANGED <<pc, tags, data, waiting, muxer, got, apart, net>>

(* All that was begun has ended; but who waits for a tag when the          *)
(* connection goes waits for ever, for the failed calls keep theirs.       *)
Stopped ==
  /\ \A c \in Calls : \/ pc[c] \in {"muxed", "failed"}
                      \/ pc[c] = "idle" /\ c \in Nested
                      \/ pc[c] = "tagwait" /\ eof
  /\ adisp = <<>> \/ eof
  /\ UNCHANGED vars

Thread(c) ==
  \/ GetTag(c) \/ TagWait(c) \/ Send(c) \/ SendRaises(c) \/ SendShort(c)
  \/ PutBack(c) \/ Push(c) \/ MuxHas(c) \/ MuxWait(c) \/ MuxRead(c)
  \/ Recv(c) \/ RecvEof(c) \/ (\E m \in got[c] : Dispatch(c, m)) \/ Elect(c) \/ MuxRaises(c)

Dispatcher == Callback \/ CallbackCalls \/ CallbackReturns

Next ==
  \/ \E c \in Calls : Begin(c) \/ Thread(c)
  \/ Pop
  \/ Dispatcher
  \/ \E m \in requests : Serve(m)
  \/ Close
  \/ Stopped

Safety == Init /\ [][Next]_vars

(* A thread that can run does, and the server answers what it was asked.   *)
(* Nothing makes the connection close, and nothing is said about which of  *)
(* several threads gets the lock or the tag.                               *)
Fairness ==
  /\ \A c \in Calls : WF_vars(Thread(c))
  /\ WF_vars(Pop) /\ WF_vars(Dispatcher)
  /\ \A c \in Calls : WF_vars(\E m \in requests : m.call = c /\ Serve(m))

Spec == Safety /\ Fairness
-----------------------------------------------------------------------------
PCs == {"idle", "tag", "tagwait", "send", "short", "push", "queued", "mux",
        "asleep", "read", "dispatch", "elect", "eof", "muxed", "failed"}

TypeOK ==
  /\ pc \in [Calls -> PCs]
  /\ free \in SUBSET Tags
  /\ wait \in [Tags -> Calls \cup {NoCall}]
  /\ tag \in [Calls -> Tags \cup {NoTag}]
  /\ data \in [Calls -> Calls \cup {NoCall}]
  /\ waiting \in [Calls -> BOOLEAN]
  /\ muxer \in Calls \cup {NoCall}
  /\ got \in [Calls -> SUBSET Msg]
  /\ amux \in Seq(Async) /\ adisp \in Seq(Async)
  /\ muxing \in Async \cup {NoCall} /\ calling \in Async \cup {NoCall}
  /\ called \in SUBSET Async
  /\ requests \in SUBSET Msg /\ responses \in SUBSET Msg
  /\ served \in SUBSET Calls
  /\ eof \in BOOLEAN

(* What is on its way between a caller and the server, or in a reader.     *)
InFlight == requests \cup responses \cup UNION {got[c] : c \in Calls}

(* Messages go where they belong: a tag in flight is not free, and is held *)
(* by the call that was sent with it or, when that call failed, by none.   *)
MsgInv ==
  /\ \A m \in InFlight : /\ tag[m.call] = m.tag
                         /\ m.tag \notin free
                         /\ wait[m.tag] \in {m.call, NoCall}
                         /\ \A n \in InFlight : m.tag = n.tag => m.call = n.call
  /\ requests \cap responses = {}
  /\ \A c \in Calls : /\ got[c] \cap (requests \cup responses) = {}
                      /\ got[c] # {} => pc[c] = "dispatch"
                      /\ \A m, n \in got[c] : m = n
  /\ \A c \in Calls : pc[c] \in {"send", "short"} \/ (pc[c] = "failed" /\ ~waiting[c])
                        => \A m \in InFlight : m.call # c

(* A tag is free, or is held by one call which has had no answer.          *)
TagInv ==
  /\ \A t \in free : wait[t] = NoCall
  /\ \A t \in Tags : wait[t] # NoCall =>
       /\ tag[wait[t]] = t
       /\ data[wait[t]] = NoCall
       /\ waiting[wait[t]] => pc[wait[t]] \in {"mux", "asleep", "read", "dispatch", "eof"}
  /\ \A c \in Calls :
       /\ pc[c] \in {"idle", "tag", "tagwait"} <=> tag[c] = NoTag
       /\ pc[c] \in {"idle", "tag", "tagwait", "send", "short", "push", "queued"} => ~waiting[c]
       /\ pc[c] \in {"asleep", "read", "dispatch", "elect", "eof"} => waiting[c]
       /\ pc[c] \in {"send", "short", "push", "queued", "mux", "asleep", "read", "dispatch", "eof"}
            => data[c] # NoCall \/ wait[tag[c]] = c

(* What has come of a call.                                                *)
DataInv ==
  /\ \A c \in Calls :
       /\ data[c] \in {NoCall, c}
       /\ data[c] = c => c \in served
       /\ pc[c] \in {"idle", "tag", "tagwait", "send", "short"} => c \notin served
       /\ pc[c] \in {"idle", "tag", "tagwait", "send", "short", "read", "dispatch", "eof", "failed"}
            => data[c] = NoCall
       /\ pc[c] \in {"elect", "muxed"} => data[c] = c
       /\ pc[c] \in {"failed", "eof", "short"} => eof
  /\ \A m \in InFlight : m.call \in served <=> m \notin requests
  /\ \A c \in Async : c = calling \/ c \in called \/ (\E i \in 1..Len(adisp) : adisp[i] = c)
                        => data[c] = c

(* The async_mux thread has yet to enter mux() with each queued call.      *)
QueueInv ==
  /\ \A i \in 1..Len(amux) : pc[amux[i]] = "queued"
  /\ \A i, j \in 1..Len(amux) : amux[i] = amux[j] => i = j
  /\ \A c \in Calls : pc[c] \in {"push", "queued"} => c \in Async

(* One caller reads the connection at a time, and it is the muxer; and the *)
(* muxer is a call whose thread is awake and still has to read: nobody     *)
(* waits on a muxer that does not read (mux.py:56).                        *)
OneMuxer ==
  /\ \A c \in Calls : pc[c] \in {"read", "dispatch", "elect", "eof"} => c = muxer
  /\ muxer # NoCall => pc[muxer] \in {"mux", "read", "dispatch", "elect", "eof"}
  /\ muxer # NoCall /\ pc[muxer] = "mux" => data[muxer] = NoCall

(* As long as the connection lasts no tag is lost: each is free or held by *)
(* a call that waits for its answer (gettag, puttag, and the "nwait botch" *)
(* that gettag raises when a free tag is held).                            *)
TagsKept ==
  \A t \in Tags : /\ eof \/ t \in free \/ wait[t] # NoCall
                  /\ ~(t \in free /\ wait[t] # NoCall)

IInv == TypeOK /\ MsgInv /\ TagInv /\ DataInv /\ QueueInv /\ OneMuxer /\ TagsKept
-----------------------------------------------------------------------------
(* The promise to callers.  A call with a callback is over when the        *)
(* callback has returned.                                                  *)
Ended(c) == IF c \in Async THEN c \in called ELSE pc[c] = "muxed"

Status(c) == IF pc[c] \in {"idle", "failed"} THEN pc[c]
             ELSE IF Ended(c) THEN "done" ELSE "pending"

Promise == INSTANCE Rpc WITH
  status <- [c \in Calls |-> Status(c)],
  answer <- [c \in Calls |-> IF Status(c) = "done" THEN data[c] ELSE NoCall],
  broken <- eof

(* Mux implements Rpc: each caller gets the answer to its own request, and *)
(* gets it as long as the connection lasts.                                *)
KeepsPromise == Promise!Spec

(* When the connection goes, nobody is left asleep in mux(): each reader   *)
(* that fails elects another, which fails in turn.                         *)
NoneLeftAsleep == \A c \in Calls : pc[c] = "asleep" ~> pc[c] \in {"muxed", "failed"}
=============================================================================
