------------------------ MODULE ResponseChannel_proofs ------------------------
(***************************************************************************)
(* Proofs about ResponseChannel: ResponseInv is inductive, and with it     *)
(* what a handler is told, what the client gets and what may panic, for    *)
(* handlers that write as often as they like.                              *)
(*                                                                         *)
(* The three properties are not inductive by themselves.  That a panic     *)
(* needs a timeout rests on who closes the channels and when               *)
(* (ClosedInOrder, RefusedInOrder); that the answer is complete rests on   *)
(* the writes not getting lost while the request is waited for             *)
(* (NoWriteLost).                                                          *)
(***************************************************************************)
EXTENDS ResponseChannel, TLAPS

USE DEF CallerPC, WorkerPC

\* A fresh request satisfies the invariant.
LEMMA InitInv == Init => ResponseInv
<1> SUFFICES ASSUME Init PROVE ResponseInv
  OBVIOUS
<1>1. /\ known \in BOOLEAN /\ deadline \in BOOLEAN /\ expired \in BOOLEAN
      /\ closed \in BOOLEAN /\ dead \in BOOLEAN
  BY Zenon DEF Init
<1>2. TypeOK
  BY <1>1, WritesAssumption DEF Init, TypeOK
<1>3. ~closed /\ ~dead /\ ~expired
  BY Zenon DEF Init
<1>4. /\ ToldIsWritten /\ AnswerComplete /\ ChannelPanicsNeedTimeout
      /\ ClosedInOrder /\ RefusedInOrder /\ NoWriteLost /\ DeadlineInOrder
  BY <1>2, <1>3 DEF Init, ToldIsWritten, AnswerComplete, ChannelPanicsNeedTimeout,
                    ClosedInOrder, RefusedInOrder, NoWriteLost, DeadlineInOrder, TimedOut, TypeOK
<1> QED BY <1>2, <1>4 DEF ResponseInv

\* The steps of the request goroutine keep the invariant.
LEMMA CallInv == ResponseInv /\ Call => ResponseInv'
<1> SUFFICES ASSUME ResponseInv, Call PROVE ResponseInv'
  OBVIOUS
<1> USE DEF ResponseInv, TypeOK, ToldIsWritten, AnswerComplete, ChannelPanicsNeedTimeout,
            ClosedInOrder, RefusedInOrder, NoWriteLost, DeadlineInOrder, TimedOut, counts, CallerAt
<1>1. CASE Run BY <1>1 DEF Run
<1>2. CASE Receive BY <1>2 DEF Receive
<1>3. CASE Timeout BY <1>3 DEF Timeout
<1>4. CASE Transfer BY <1>4 DEF Transfer
<1>5. CASE Serve BY <1>5 DEF Serve
<1>6. CASE Respond BY <1>6 DEF Respond
<1>7. CASE Stop BY <1>7 DEF Stop
<1>8. CASE TimeoutError BY <1>8 DEF TimeoutError
<1>9. CASE CallerTests BY <1>9 DEF CallerTests, MustClose, Cancel
<1>10. CASE CallerCloses BY <1>10 DEF CallerCloses, Cancel
<1>11. CASE schedule BY <1>11 DEF schedule, Cancel
<1> QED BY <1>1, <1>2, <1>3, <1>4, <1>5, <1>6, <1>7, <1>8, <1>9, <1>10, <1>11 DEF Call

\* The steps of the worker keep the invariant.
LEMMA WorkInv == ResponseInv /\ Work => ResponseInv'
<1> SUFFICES ASSUME ResponseInv, Work PROVE ResponseInv'
  OBVIOUS
<1> USE DEF ResponseInv, TypeOK, ToldIsWritten, AnswerComplete, ChannelPanicsNeedTimeout,
            ClosedInOrder, RefusedInOrder, NoWriteLost, DeadlineInOrder, TimedOut, counts, WorkerAt
<1>1. CASE Take BY <1>1 DEF Take
<1>2. CASE Start BY <1>2 DEF Start
<1>3. CASE Write BY <1>3 DEF Write
<1>4. CASE SendPanics
  <2>1. CASE mode = "run"
    BY <1>4, <2>1 DEF SendPanics, Panic, ErrorWrites
  <2>2. CASE mode # "run"
    BY <1>4, <2>2 DEF SendPanics, Panic
  <2> QED BY <2>1, <2>2
<1>5. CASE HeaderRace BY <1>5 DEF HeaderRace
<1>6. CASE HandlerPanics BY <1>6 DEF HandlerPanics, Panic, ErrorWrites
<1>7. CASE Return BY <1>7 DEF Return
<1>8. CASE WorkerTests BY <1>8 DEF WorkerTests, MustClose
<1>9. CASE WorkerCloses
  <2>1. CASE closed /\ mode = "run"
    BY <1>9, <2>1 DEF WorkerCloses, Panic, ErrorWrites
  <2>2. CASE closed /\ mode # "run"
    BY <1>9, <2>2 DEF WorkerCloses, Panic
  <2>3. CASE ~closed
    BY <1>9, <2>3 DEF WorkerCloses
  <2> QED BY <2>1, <2>2, <2>3
<1> QED BY <1>1, <1>2, <1>3, <1>4, <1>5, <1>6, <1>7, <1>8, <1>9 DEF Work

\* The deadline disturbs nothing.
LEMMA ExpireInv == ResponseInv /\ Expire => ResponseInv'
  BY DEF Expire, ResponseInv, TypeOK, ToldIsWritten, AnswerComplete, ChannelPanicsNeedTimeout,
         ClosedInOrder, RefusedInOrder, NoWriteLost, DeadlineInOrder, TimedOut, counts

\* The invariant holds in every behaviour of the channels.
THEOREM ResponseInvariant == Spec => []ResponseInv
<1>1. ResponseInv /\ [Next]_vars => ResponseInv'
  <2> SUFFICES ASSUME ResponseInv, [Next]_vars PROVE ResponseInv'
    OBVIOUS
  <2>1. CASE UNCHANGED vars
    BY <2>1 DEF vars, counts, ResponseInv, TypeOK, ToldIsWritten, AnswerComplete,
                ChannelPanicsNeedTimeout, ClosedInOrder, RefusedInOrder, NoWriteLost, DeadlineInOrder, TimedOut
  <2> QED BY <2>1, CallInv, WorkInv, ExpireInv DEF Next
<1> QED BY <1>1, InitInv, PTL DEF Spec

\* What Write, WriteHeader and Flush report is what the connection has got.
THEOREM ToldIsAlwaysWritten == Spec => []ToldIsWritten
  BY ResponseInvariant, PTL DEF ResponseInv

\* defaultHandle does not return before the whole answer has been written, unless
\* the request has timed out or was refused.
THEOREM AnswerIsComplete == Spec => []AnswerComplete
  BY ResponseInvariant, PTL DEF ResponseInv

\* Unless the request has left wait by its deadline, no second close, no send on a
\* closed channel and no race on the headers happens where nobody recovers it;
\* also when Run has panicked after queueing the task, which is the one panic of
\* the request goroutine that needs no timeout.
THEOREM NoChannelPanicWithoutTimeout == Spec => []ChannelPanicsNeedTimeout
  BY ResponseInvariant, PTL DEF ResponseInv
=============================================================================
