----------------------- MODULE PlatformConnectionProofs -----------------------
(***************************************************************************)
(* For every retry count and both builds: the type invariant of the        *)
(* connection, that a break of the shared queue stays with the nested      *)
(* dispatch, that a call under way is listening, and that the connection   *)
(* implements the safety part of ConnectCall.                              *)
(***************************************************************************)
EXTENDS PlatformConnection, TLAPS

\* The invariant needs no strengthening: the three parts of BreakOwned carry
\* each other, and Listening rests on close_connection() being called outside
\* init_connection(int8_t) only.
ConnInv == ConnTypeOK /\ BreakOwned /\ Listening

\* The loop counter of init_connection(int8_t) stays in its range.
LEMMA FirstAttempt == 1 \in 1 .. RetryCount
BY RetryCountAssumption, SMT

LEMMA LaterAttempt ==
  ASSUME NEW i \in 1 .. RetryCount, i # RetryCount
  PROVE  i + 1 \in 1 .. RetryCount
BY RetryCountAssumption, SMT

\* The program starts with nothing armed and no call under way.
LEMMA ConnInitInv == ConnInit => ConnInv
BY FirstAttempt DEF ConnInit, ConnInv, ConnTypeOK, BreakOwned, Listening

\* A call begins in main()'s own dispatch, where nothing is armed.
LEMMA CallInv == ConnInv /\ Call => ConnInv'
BY DEF ConnInv, ConnTypeOK, BreakOwned, Listening, Call, At, driverVars, callVars, flagVars

\* The statements of init_connection(int8_t).
LEMMA InitConnectionStepInv == ConnInv /\ InitConnectionStep => ConnInv'
<1> SUFFICES ASSUME ConnInv, InitConnectionStep PROVE ConnInv'
  OBVIOUS
<1> USE InterfaceAssumption
    DEF ConnInv, ConnTypeOK, BreakOwned, Listening, At, driverVars, callVars, flagVars
<1>1. CASE EnterNoInterface
  BY <1>1 DEF EnterNoInterface
<1>2. CASE Enter
  BY <1>2, FirstAttempt DEF Enter
<1>3. CASE ConnectStarts
  BY <1>3 DEF ConnectStarts
<1>4. CASE ConnectIsConnected
  BY <1>4 DEF ConnectIsConnected
<1>5. CASE ConnectFails
  BY <1>5 DEF ConnectFails
<1>6. CASE BlockingConnects
  BY <1>6 DEF BlockingConnects
<1>7. CASE BlockingFails
  BY <1>7 DEF BlockingFails
<1>8. CASE Arm
  BY <1>8 DEF Arm
<1>9. CASE DispatchReturns
  BY <1>9 DEF DispatchReturns
<1>10. CASE Check
  BY <1>10 DEF Check
<1>11. CASE NextAttempt
  BY <1>11, LaterAttempt DEF NextAttempt, DriverDisconnects
<1>12. QED
  BY <1>1, <1>2, <1>3, <1>4, <1>5, <1>6, <1>7, <1>8, <1>9, <1>10, <1>11
  DEF InitConnectionStep

\* The answer is taken.
LEMMA ReturnInv == ConnInv /\ Return => ConnInv'
BY DEF ConnInv, ConnTypeOK, BreakOwned, Listening, Return, At, driverVars,
       callVars, flagVars

\* close_connection() is safe where no call is under way, and only there.
LEMMA CloseInv == ConnInv /\ pc = "idle" /\ close_connection => ConnInv'
<1> SUFFICES ASSUME ConnInv, pc = "idle", close_connection PROVE ConnInv'
  OBVIOUS
<1> USE DEF ConnInv, ConnTypeOK, BreakOwned, Listening
<1>1. CASE CloseDisconnects
  BY <1>1 DEF CloseDisconnects, DriverDisconnects
<1>2. CASE CloseFails
  BY <1>2 DEF CloseFails, connVars, mainVars, driverVars, callVars, flagVars
<1>3. QED
  BY <1>1, <1>2 DEF close_connection

\* The driver changes nothing the invariant speaks of but where its own thread
\* is, and that only to the callback's first statement.
LEMMA DriverStepInv == ConnInv /\ DriverStep => ConnInv'
<1> SUFFICES ASSUME ConnInv, DriverStep PROVE ConnInv'
  OBVIOUS
<1> USE DEF ConnInv, ConnTypeOK, BreakOwned, Listening, CanReport, Report,
            mainVars, callVars, flagVars
<1>1. CASE LinkComesUp
  BY <1>1 DEF LinkComesUp
<1>2. CASE LinkGoesDown
  BY <1>2 DEF LinkGoesDown
<1>3. CASE LateDown
  BY <1>3 DEF LateDown
<1>4. QED
  BY <1>1, <1>2, <1>3 DEF DriverStep

\* The callback takes the flag away before it breaks the dispatch.
LEMMA CallbackStepInv == ConnInv /\ CallbackStep => ConnInv'
<1> SUFFICES ASSUME ConnInv, CallbackStep PROVE ConnInv'
  OBVIOUS
<1> USE DEF ConnInv, ConnTypeOK, BreakOwned, Listening, mainVars, callVars, flagVars
<1>1. CASE CallbackSets
  BY <1>1 DEF CallbackSets
<1>2. CASE CallbackTests
  BY <1>2 DEF CallbackTests
<1>3. CASE CallbackBreaks
  BY <1>3 DEF CallbackBreaks
<1>4. QED
  BY <1>1, <1>2, <1>3 DEF CallbackStep

LEMMA ConnStutterInv == ConnInv /\ UNCHANGED connVars => ConnInv'
BY
DEF ConnInv, ConnTypeOK, BreakOwned, Listening, connVars, mainVars, driverVars, callVars, flagVars

\* Every variable of the connection keeps to its values, no break request is
\* ever left for main()'s dispatch, and a call under way has its listener.
THEOREM ConnectionInvariant == ConnSafeSpec => []ConnInv
<1>1. ConnInit => ConnInv
  BY ConnInitInv
<1>2. ConnInv /\ [ConnNext]_connVars => ConnInv'
  <2> SUFFICES ASSUME ConnInv, [ConnNext]_connVars PROVE ConnInv'
    OBVIOUS
  <2>1. CASE Close
    BY <2>1, CloseInv DEF Close, At
  <2>2. QED
    BY <2>1, CallInv, InitConnectionStepInv, ReturnInv, DriverStepInv,
       CallbackStepInv, ConnStutterInv
    DEF ConnNext
<1>3. QED
  BY <1>1, <1>2, PTL DEF ConnSafeSpec

\* Type correctness of the connection.
THEOREM ConnTypeCorrect == ConnSafeSpec => []ConnTypeOK
BY ConnectionInvariant, PTL DEF ConnInv

\* main()'s dispatch_forever() is never broken by the status callback.
THEOREM BreakStaysNested == ConnSafeSpec => []BreakOwned
BY ConnectionInvariant, PTL DEF ConnInv

\* No step takes the listener or the interface away from a call under way.
THEOREM CallIsListening == ConnSafeSpec => []Listening
BY ConnectionInvariant, PTL DEF ConnInv

-----------------------------------------------------------------------------
\* The connection implements the promise of init_connection(int8_t).
LEMMA PromiseStep ==
  ConnTypeOK /\ ConnTypeOK' /\ [ConnNext]_connVars =>
    [Promise!Next]_(Promise!vars)
<1> SUFFICES ASSUME ConnTypeOK, ConnTypeOK', [ConnNext]_connVars
             PROVE [Promise!Next]_(Promise!vars)
  OBVIOUS
<1> USE DEF ConnTypeOK, At, mainVars, driverVars, callVars, flagVars, Promise!Next, Promise!vars,
            Promise!Begin, Promise!StatusChange, Promise!Succeed,
            Promise!Fail, Promise!Finish
<1>1. CASE Call
  BY <1>1 DEF Call
<1>2. CASE EnterNoInterface
  BY <1>2 DEF EnterNoInterface
<1>3. CASE Enter
  BY <1>3 DEF Enter
<1>4. CASE ConnectStarts
  BY <1>4 DEF ConnectStarts
<1>5. CASE ConnectIsConnected
  BY <1>5 DEF ConnectIsConnected
<1>6. CASE ConnectFails
  BY <1>6 DEF ConnectFails
<1>7. CASE BlockingConnects
  BY <1>7 DEF BlockingConnects
<1>8. CASE BlockingFails
  BY <1>8 DEF BlockingFails
<1>9. CASE Arm
  BY <1>9 DEF Arm
<1>10. CASE DispatchReturns
  BY <1>10 DEF DispatchReturns
<1>11. CASE Check
  BY <1>11 DEF Check
<1>12. CASE NextAttempt
  BY <1>12 DEF NextAttempt
<1>13. CASE Return
  BY <1>13 DEF Return
<1>14. CASE Close
  BY <1>14 DEF Close, close_connection, CloseDisconnects, CloseFails,
                    connVars
<1>15. CASE DriverStep
  BY <1>15 DEF DriverStep, LinkComesUp, LinkGoesDown, LateDown
<1>16. CASE CallbackStep
  BY <1>16 DEF CallbackStep, CallbackSets, CallbackTests, CallbackBreaks
<1>17. CASE UNCHANGED connVars
  BY <1>17 DEF connVars
<1>18. QED
  BY <1>1, <1>2, <1>3, <1>4, <1>5, <1>6, <1>7, <1>8, <1>9, <1>10, <1>11,
     <1>12, <1>13, <1>14, <1>15, <1>16, <1>17
  DEF ConnNext, InitConnectionStep

\* init_connection(int8_t) answers once per call, and true only when connected.
THEOREM PromiseImplemented == ConnSafeSpec => AnswersTruthfully
<1>1. ConnInit => Promise!Init
  BY DEF ConnInit, Promise!Init
<1>2. QED
  BY <1>1, PromiseStep, ConnTypeCorrect, PTL
  DEF AnswersTruthfully, ConnSafeSpec, Promise!SafeSpec

-----------------------------------------------------------------------------
(* With one thread nothing comes between an answer and its use.            *)

\* In the single-threaded build a callback runs inside a dispatch only, so the
\* status an answer of true was given for is still the status.
SingleInv ==
  SingleThread =>
    /\ callback # "none" => pc \in {"idle", "dispatch"}
    /\ pc = "true" => interface_connected

LEMMA SingleInitInv == ConnInit => SingleInv
BY DEF ConnInit, SingleInv

LEMMA SingleStepInv ==
  SingleInv /\ (Call \/ InitConnectionStep \/ Return) => SingleInv'
<1> SUFFICES ASSUME SingleInv, SingleThread,
                    Call \/ InitConnectionStep \/ Return
             PROVE  SingleInv'
  BY DEF SingleInv
<1>1. callback = "none"
  BY DEF Call, InitConnectionStep, Return, EnterNoInterface, Enter,
         ConnectStarts, ConnectIsConnected, ConnectFails, BlockingConnects,
         BlockingFails, Arm, DispatchReturns, Check, NextAttempt, At, MainRuns
<1>2. UNCHANGED callback
  BY DEF Call, InitConnectionStep, Return, EnterNoInterface, Enter,
         ConnectStarts, ConnectIsConnected, ConnectFails, BlockingConnects,
         BlockingFails, Arm, DispatchReturns, Check, NextAttempt,
         DriverDisconnects, driverVars, callVars, flagVars
<1>3. pc' = "true" => interface_connected'
  BY DEF Call, InitConnectionStep, Return, EnterNoInterface, Enter,
         ConnectStarts, ConnectIsConnected, ConnectFails, BlockingConnects,
         BlockingFails, Arm, DispatchReturns, Check, NextAttempt, At, flagVars
<1>4. QED
  BY <1>1, <1>2, <1>3 DEF SingleInv

LEMMA SingleStatusInv ==
  SingleInv /\ (DriverStep \/ CallbackStep) => SingleInv'
BY DEF SingleInv, DriverStep, CallbackStep, LinkComesUp, LinkGoesDown,
       LateDown, CanReport, Report, CallbackSets, CallbackTests,
       CallbackBreaks, mainVars, callVars, flagVars

LEMMA SingleCloseInv ==
  SingleInv /\ pc = "idle" /\ close_connection => SingleInv'
BY DEF SingleInv, close_connection, CloseDisconnects, CloseFails,
       DriverDisconnects, connVars, mainVars, driverVars, callVars, flagVars

LEMMA SingleStutterInv == SingleInv /\ UNCHANGED connVars => SingleInv'
BY DEF SingleInv, connVars, mainVars, driverVars, callVars, flagVars

-----------------------------------------------------------------------------
(* With one thread the status tells the truth about the driver.            *)

\* StatusTruthful with what it needs: only a registered callback leaves the
\* status set, the report of a connection precedes its loss, and no call
\* disconnects, or connects anew, with the status set.
TruthInv ==
  SingleThread =>
    /\ interface_connected \/ callback # "none" => listeners = 1
    /\ callback = "up" => link = "up"
    /\ pc \in {"connect", "arm", "disconnect"} => ~interface_connected
    /\ interface_connected /\ callback # "down" => link = "up"

LEMMA TruthInitInv == ConnInit => TruthInv
BY DEF ConnInit, TruthInv

\* The main thread goes on only when no callback is running.
LEMMA TruthStepInv ==
  ConnInv /\ TruthInv /\ (Call \/ InitConnectionStep \/ Return) => TruthInv'
<1> SUFFICES ASSUME ConnInv, TruthInv, SingleThread,
                    Call \/ InitConnectionStep \/ Return
             PROVE  TruthInv'
  BY DEF TruthInv
<1> USE DEF TruthInv, ConnInv, ConnTypeOK, Listening, At, MainRuns, callVars,
            flagVars, driverVars
<1>1. CASE Call
  BY <1>1 DEF Call
<1>2. CASE EnterNoInterface
  BY <1>2 DEF EnterNoInterface
<1>3. CASE Enter
  BY <1>3 DEF Enter
<1>4. CASE ConnectStarts
  BY <1>4 DEF ConnectStarts
<1>5. CASE ConnectIsConnected
  BY <1>5 DEF ConnectIsConnected
<1>6. CASE ConnectFails
  BY <1>6 DEF ConnectFails
<1>7. CASE BlockingConnects
  BY <1>7 DEF BlockingConnects
<1>8. CASE BlockingFails
  BY <1>8 DEF BlockingFails
<1>9. CASE Arm
  BY <1>9 DEF Arm
<1>10. CASE DispatchReturns
  BY <1>10 DEF DispatchReturns
<1>11. CASE Check
  BY <1>11 DEF Check
<1>12. CASE NextAttempt
  BY <1>12 DEF NextAttempt, DriverDisconnects
<1>13. CASE Return
  BY <1>13 DEF Return
<1>14. QED
  BY <1>1, <1>2, <1>3, <1>4, <1>5, <1>6, <1>7, <1>8, <1>9, <1>10, <1>11,
     <1>12, <1>13
  DEF InitConnectionStep

\* The driver reports, and the callback sets the status, inside a dispatch.
LEMMA TruthStatusInv ==
  ConnInv /\ SingleInv /\ TruthInv /\ (DriverStep \/ CallbackStep) => TruthInv'
<1> SUFFICES ASSUME ConnInv, SingleInv, TruthInv, SingleThread,
                    DriverStep \/ CallbackStep
             PROVE  TruthInv'
  BY DEF TruthInv
<1> USE DEF TruthInv, SingleInv, ConnInv, ConnTypeOK, CanReport, Report,
            mainVars, callVars, flagVars
<1>1. CASE LinkComesUp
  BY <1>1 DEF LinkComesUp
<1>2. CASE LinkGoesDown
  BY <1>2 DEF LinkGoesDown
<1>3. CASE LateDown
  BY <1>3 DEF LateDown
<1>4. CASE CallbackSets
  BY <1>4 DEF CallbackSets
<1>5. CASE CallbackTests
  BY <1>5 DEF CallbackTests
<1>6. CASE CallbackBreaks
  BY <1>6 DEF CallbackBreaks
<1>7. QED
  BY <1>1, <1>2, <1>3, <1>4, <1>5, <1>6 DEF DriverStep, CallbackStep

LEMMA TruthCloseInv ==
  TruthInv /\ MainRuns /\ pc = "idle" /\ close_connection => TruthInv'
BY DEF TruthInv, MainRuns, close_connection, CloseDisconnects, CloseFails,
       DriverDisconnects, connVars, mainVars, callVars, flagVars, driverVars

LEMMA TruthStutterInv == TruthInv /\ UNCHANGED connVars => TruthInv'
BY DEF TruthInv, connVars, mainVars, callVars, flagVars, driverVars

-----------------------------------------------------------------------------
(* A dispatch that waits has its break to come.                            *)

LEMMA DueInitInv == ConnInit => BreakDue
BY DEF ConnInit, BreakDue

\* The flag is set when the dispatch begins, and with one thread the status is
\* not connected then; the dispatch ends with the break it takes.
LEMMA DueStepInv ==
  TruthInv /\ BreakDue /\ (Call \/ InitConnectionStep \/ Return) => BreakDue'
<1> SUFFICES ASSUME TruthInv, BreakDue, Call \/ InitConnectionStep \/ Return,
                    pc' = "dispatch"
             PROVE  BreakDue'
  BY DEF BreakDue
<1>1. Arm
  BY DEF Call, InitConnectionStep, Return, EnterNoInterface, Enter,
         ConnectStarts, ConnectIsConnected, ConnectFails, BlockingConnects,
         BlockingFails, DispatchReturns, Check, NextAttempt
<1>2. dispatch_called' /\ UNCHANGED interface_connected
  BY <1>1 DEF Arm
<1>3. SingleThread => ~interface_connected
  BY <1>1 DEF Arm, At, TruthInv
<1>4. QED
  BY <1>2, <1>3 DEF BreakDue

\* The callback hands the flag on to the break, and the break to the queue.
LEMMA DueStatusInv == BreakDue /\ (DriverStep \/ CallbackStep) => BreakDue'
<1> SUFFICES ASSUME BreakDue, DriverStep \/ CallbackStep PROVE BreakDue'
  OBVIOUS
<1> USE DEF BreakDue, CanReport, Report, mainVars, flagVars
<1>1. CASE LinkComesUp
  BY <1>1 DEF LinkComesUp
<1>2. CASE LinkGoesDown
  BY <1>2 DEF LinkGoesDown
<1>3. CASE LateDown
  BY <1>3 DEF LateDown
<1>4. CASE CallbackSets
  BY <1>4 DEF CallbackSets
<1>5. CASE CallbackTests
  BY <1>5 DEF CallbackTests
<1>6. CASE CallbackBreaks
  BY <1>6 DEF CallbackBreaks
<1>7. QED
  BY <1>1, <1>2, <1>3, <1>4, <1>5, <1>6 DEF DriverStep, CallbackStep

\* The connection is closed outside a call only.
LEMMA DueCloseInv == pc = "idle" /\ close_connection => BreakDue'
BY DEF BreakDue, close_connection, CloseDisconnects, CloseFails, connVars,
       mainVars

LEMMA DueStutterInv == BreakDue /\ UNCHANGED connVars => BreakDue'
BY DEF BreakDue, connVars, mainVars, flagVars, driverVars

\* What the connection keeps besides ConnInv.
StatusInv == SingleInv /\ TruthInv /\ BreakDue

LEMMA StatusInitInv == ConnInit => StatusInv
BY SingleInitInv, TruthInitInv, DueInitInv DEF StatusInv

LEMMA StatusInvStep ==
  ConnInv /\ StatusInv /\ [ConnNext]_connVars => StatusInv'
<1> SUFFICES ASSUME ConnInv, SingleInv, TruthInv, BreakDue,
                    [ConnNext]_connVars
             PROVE  SingleInv' /\ TruthInv' /\ BreakDue'
  BY DEF StatusInv
<1>1. CASE Call \/ InitConnectionStep \/ Return
  BY <1>1, SingleStepInv, TruthStepInv, DueStepInv
<1>2. CASE DriverStep \/ CallbackStep
  BY <1>2, SingleStatusInv, TruthStatusInv, DueStatusInv
<1>3. CASE Close
  BY <1>3, SingleCloseInv, TruthCloseInv, DueCloseInv DEF Close, At
<1>4. CASE UNCHANGED connVars
  BY <1>4, SingleStutterInv, TruthStutterInv, DueStutterInv
<1>5. QED
  BY <1>1, <1>2, <1>3, <1>4 DEF ConnNext

LEMMA StatusInvariance == ConnSafeSpec => []StatusInv
BY StatusInitInv, StatusInvStep, ConnectionInvariant, PTL DEF ConnSafeSpec

\* No dispatch of init_connection(int8_t) is left without a break to come, and
\* with one thread a connection ends its wait.
THEOREM DispatchIsBroken == ConnSafeSpec => []BreakDue
BY StatusInvariance, PTL DEF StatusInv

\* With one thread the status never claims a connection the driver has not got.
THEOREM ConnStatusIsTruthful == ConnSafeSpec => []StatusTruthful
<1>1. StatusInv => StatusTruthful
  BY DEF StatusInv, TruthInv, StatusTruthful
<1>2. QED
  BY <1>1, StatusInvariance, PTL

=============================================================================
