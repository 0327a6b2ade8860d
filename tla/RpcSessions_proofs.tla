------------------------- MODULE RpcSessions_proofs -------------------------
(***************************************************************************)
(* Theorems about a facade with sessions, for any number of calls and      *)
(* sessions: to its calls it is the facade of RpcFacade (so what is proved *)
(* there holds here), and it keeps no state for a session that is gone.    *)
(***************************************************************************)
EXTENDS RpcSessions, RpcFacade_proofs

(* The sessions only restrict the facade's steps.                          *)
THEOREM SessionsUseFacade == SessionSpec => Spec
<1>1. SessionInit => FacadeInit
    BY DEF SessionInit
<1>2. [SessionNext]_<<facadeVars, sessionVars>> => [Next]_facadeVars
    <2> SUFFICES ASSUME [SessionNext]_<<facadeVars, sessionVars>>
                 PROVE  [Next]_facadeVars
        OBVIOUS
    <2>1. CASE \E c \in Calls : SessionStep(c)
        BY <2>1 DEF SessionStep, Register, Close, Touch, Handle, Finish, Next, CallStep
    <2>2. CASE OtherStep
        BY <2>2 DEF OtherStep, Next, CallStep
    <2>3. CASE \E x \in Sessions : GoesIdle(x) \/ Expire(x)
        BY <2>3 DEF GoesIdle, Expire
    <2>4. CASE Sweep \/ Drop
        BY <2>4 DEF Sweep, Drop
    <2>5. CASE UNCHANGED <<facadeVars, sessionVars>>
        BY <2>5
    <2> QED BY <2>1, <2>2, <2>3, <2>4, <2>5 DEF SessionNext
<1> QED BY <1>1, <1>2, PTL DEF SessionSpec, Spec

(* The one call at a time of RpcFacade, with sessions.                     *)
THEOREM SessionsOneCallAtATime == SessionSpec => []OneCallAtATime
BY SessionsUseFacade, OneCallAtATimeHolds, PTL

---------------------------------------------------------------------------
(* NoOrphanState is inductive together with what a running call found: its *)
(* session may be taken out meanwhile, but then the hook is still due, for *)
(* it needs the lock the call has.                                         *)

FoundSession ==
    \A c \in served :
        /\ c \in Calls \ SessionCalls
        /\ pc[c] \in InHandler \cup Ended
        /\ pc[c] \in InHandler =>
              table[SessionOf[c]] # "none" \/ dropping = SessionOf[c]

SessionInv ==
    /\ pc \in [Calls -> PC]
    /\ table \in [Sessions -> {"none", "fresh", "idle"}]
    /\ state \subseteq Sessions
    /\ FoundSession
    /\ NoOrphanState

(* Every step keeps SessionInv.                                            *)
LEMMA SessionStepInv ==
    ASSUME SessionInv, OneCallAtATime, SessionNext
    PROVE  SessionInv'
<1> USE SessionAssumption, FacadeAssumption
    DEF SessionInv, FoundSession, NoOrphanState, OneCallAtATime, sessionVars, sweepVars,
        facadeVars, Put, Goto, PC, InHandler, Ended
<1>1. ASSUME NEW c \in Calls, Register(c) PROVE SessionInv'
    BY <1>1, SMTT(30) DEF Register, Start
<1>2. ASSUME NEW c \in Calls, Close(c) PROVE SessionInv'
    BY <1>2, SMTT(30) DEF Close, Start
<1>3. ASSUME NEW c \in Calls, Touch(c) PROVE SessionInv'
    BY <1>3, SMTT(30) DEF Touch, Start
<1>4. ASSUME NEW c \in Calls, Handle(c) PROVE SessionInv'
    BY <1>4, SMTT(30) DEF Handle, Poll, Move
<1>5. ASSUME NEW c \in Calls, Finish(c) PROVE SessionInv'
    BY <1>5, SMTT(30) DEF Finish, Return
<1>6. ASSUME NEW c \in Calls, Admit(c, FALSE) \/ Arrive(c) \/ Enter(c),
             UNCHANGED sessionVars
      PROVE  SessionInv'
    BY <1>6, SMTT(30) DEF Admit, Arrive, Enter
<1>7. CASE (Stop \/ ProcessStep) /\ UNCHANGED sessionVars
    BY <1>7, SMTT(30) DEF Stop, ProcessStep, AskShutdown, Shutdown, ParentDeath, Exit
<1>8. ASSUME NEW x \in Sessions, GoesIdle(x) PROVE SessionInv'
    BY <1>8, SMTT(30) DEF GoesIdle
<1>9. ASSUME NEW x \in Sessions, Expire(x) PROVE SessionInv'
    BY <1>9, SMTT(30) DEF Expire
<1>10. CASE Sweep
    BY <1>10, SMTT(30) DEF Sweep
<1>11. CASE Drop
    BY <1>11, SMTT(30) DEF Drop
<1> QED BY <1>1, <1>2, <1>3, <1>4, <1>5, <1>6, <1>7, <1>8, <1>9, <1>10, <1>11
        DEF SessionNext, SessionStep, OtherStep

(* No session that was closed or expired leaves state behind it.           *)
THEOREM NoOrphanStateHolds == SessionSpec => []NoOrphanState
<1>1. SessionInit => SessionInv
    BY SMT DEF SessionInit, FacadeInit, SessionInv, FoundSession, NoOrphanState, PC
<1>2. SessionInv /\ OneCallAtATime /\ [SessionNext]_<<facadeVars, sessionVars>>
          => SessionInv'
    <2>1. SessionInv /\ UNCHANGED <<facadeVars, sessionVars>> => SessionInv'
        BY DEF SessionInv, FoundSession, NoOrphanState, facadeVars, sessionVars, sweepVars
    <2> QED BY <2>1, SessionStepInv
<1>3. SessionInv => NoOrphanState
    BY DEF SessionInv
<1> QED BY <1>1, <1>2, <1>3, SessionsOneCallAtATime, PTL DEF SessionSpec

(* The types of the table, and that the sweep lists nothing it took out.   *)
LEMMA TableCorrect == SessionSpec => []TableOK
<1>1. SessionInit => TableOK
    BY SessionAssumption DEF SessionInit, TableOK
<1>2. TableOK /\ [SessionNext]_<<facadeVars, sessionVars>> => TableOK'
    <2> SUFFICES ASSUME TableOK, [SessionNext]_<<facadeVars, sessionVars>>
                 PROVE  TableOK'
        OBVIOUS
    <2> USE SessionAssumption DEF TableOK, sessionVars, sweepVars, Put
    <2>1. ASSUME NEW c \in Calls, SessionStep(c) PROVE TableOK'
        <3>1. CASE Register(c)
            BY <3>1, SMTT(30) DEF Register
        <3>2. CASE Close(c)
            BY <3>2, SMTT(30) DEF Close
        <3>3. CASE Touch(c)
            BY <3>3, SMTT(30) DEF Touch
        <3>4. CASE Handle(c) \/ Finish(c)
            BY <3>4, SMTT(30) DEF Handle, Finish
        <3> QED BY <2>1, <3>1, <3>2, <3>3, <3>4 DEF SessionStep
    <2>2. CASE OtherStep \/ Sweep \/ Drop
        <3>1. CASE OtherStep
            BY <3>1 DEF OtherStep
        <3>2. CASE Sweep
            BY <3>2, SMTT(30) DEF Sweep
        <3>3. CASE Drop
            BY <3>3, SMTT(30) DEF Drop
        <3> QED BY <2>2, <3>1, <3>2, <3>3
    <2>3. ASSUME NEW x \in Sessions, GoesIdle(x) \/ Expire(x) PROVE TableOK'
        BY <2>3, SMTT(30) DEF GoesIdle, Expire
    <2>4. CASE UNCHANGED <<facadeVars, sessionVars>>
        BY <2>4
    <2> QED BY <2>1, <2>2, <2>3, <2>4 DEF SessionNext
<1> QED BY <1>1, <1>2, PTL DEF SessionSpec

(* Every variable keeps its type, the facade's and the sessions'.          *)
THEOREM SessionTypeCorrect == SessionSpec => []SessionTypeOK
<1>1. FacadeTypeOK /\ TableOK => SessionTypeOK
    BY DEF SessionTypeOK
<1> QED BY <1>1, SessionsUseFacade, FacadeTypeCorrect, TableCorrect, PTL

(* A session that was renewed is not expired, whatever the sweep listed.   *)
THEOREM OnlyIdleExpiresHolds == SessionSpec => OnlyIdleExpires
<1>1. TableOK /\ OneCallAtATime /\ [SessionNext]_<<facadeVars, sessionVars>> =>
          [ \A x \in Sessions :
              table[x] = "fresh" /\ table'[x] = "none" =>
                  \E c \in SessionCalls : SessionOf[c] = x /\ lock = c ]_sessionVars
    <2> SUFFICES ASSUME TableOK, OneCallAtATime,
                        [SessionNext]_<<facadeVars, sessionVars>>,
                        NEW x \in Sessions, table[x] = "fresh", table'[x] = "none"
                 PROVE  \E c \in SessionCalls : SessionOf[c] = x /\ lock = c
        OBVIOUS
    <2> USE SessionAssumption, FacadeAssumption DEF TableOK, sessionVars, sweepVars, Put
    <2>1. ASSUME NEW c \in Calls, Close(c)
          PROVE  SessionOf[c] = x /\ lock = c /\ c \in SessionCalls
        BY <2>1, SMTT(30) DEF Close, Start, OneCallAtATime
    <2>2. ASSUME NEW c \in Calls, Register(c) \/ Touch(c) \/ Handle(c) \/ Finish(c)
          PROVE  FALSE
        <3>1. CASE Register(c)
            BY <3>1, SMTT(30) DEF Register
        <3>2. CASE Touch(c)
            BY <3>2, SMTT(30) DEF Touch
        <3>3. CASE Handle(c) \/ Finish(c)
            BY <3>3, SMTT(30) DEF Handle, Finish
        <3> QED BY <2>2, <3>1, <3>2, <3>3
    <2>3. CASE OtherStep \/ Sweep \/ Drop
        <3>1. CASE OtherStep
            BY <3>1 DEF OtherStep
        <3>2. CASE Sweep
            BY <3>2, SMTT(30) DEF Sweep
        <3>3. CASE Drop
            BY <3>3, SMTT(30) DEF Drop
        <3> QED BY <2>3, <3>1, <3>2, <3>3
    <2>4. ASSUME NEW y \in Sessions, GoesIdle(y) \/ Expire(y) PROVE FALSE
        BY <2>4, SMTT(30) DEF GoesIdle, Expire
    <2>5. CASE UNCHANGED <<facadeVars, sessionVars>>
        BY <2>5
    <2> QED BY <2>1, <2>2, <2>3, <2>4, <2>5 DEF SessionNext, SessionStep
<1> QED BY <1>1, TableCorrect, SessionsOneCallAtATime, PTL
        DEF SessionSpec, OnlyIdleExpires
=============================================================================
