---------------------------- MODULE RpcSessions ----------------------------
(***************************************************************************)
(* A facade with sessions (services/pi_embodied_services/utils/rpc/        *)
(* rpc_facade.py): a policy server keeps state for each client, under the  *)
(* session the client registers and names on every call.                   *)
(*                                                                         *)
(* The calls are those of RpcFacade.  A thread of its own sweeps the table *)
(* of sessions: it lists the idle ones, takes each of them out of the      *)
(* table, and runs the drop hook, for which it waits for the call lock as  *)
(* calls do.  The table has a lock of its own, so it changes between any   *)
(* two steps of a call; the hook, under the call lock, is one step.        *)
(***************************************************************************)
EXTENDS RpcFacade

CONSTANTS
    Sessions,    \* the clients' session ids
    SessionOf,   \* SessionOf[c]: the session call c names
    NoSession

ASSUME SessionAssumption ==
    /\ SessionOf \in [Calls -> Sessions]
    /\ NoSession \notin Sessions

VARIABLES
    table,      \* _sessions: not there ("none"), "fresh" or idle for too long
    served,     \* the calls whose session was found
    state,      \* the sessions the policy keeps state for
    sweeping,   \* the sessions the sweep listed and has not come to
    dropping    \* the session taken out whose drop hook is due

sweepVars == <<sweeping, dropping>>
sessionVars == <<table, served, state, sweepVars>>

TableOK ==
    /\ table \in [Sessions -> {"none", "fresh", "idle"}]
    /\ served \subseteq Calls
    /\ state \subseteq Sessions
    /\ sweeping \subseteq Sessions
    /\ dropping \in Sessions \cup {NoSession}
    /\ dropping # NoSession => dropping \notin sweeping

SessionTypeOK == FacadeTypeOK /\ TableOK

(* A session that is there was registered by a call before those modelled. *)
SessionInit ==
    /\ FacadeInit
    /\ table \in [Sessions -> {"none", "fresh"}]
    /\ served = {} /\ state = {} /\ sweeping = {} /\ dropping = NoSession

Put(x, entry) == table' = [table EXCEPT ![x] = entry]

---------------------------------------------------------------------------
(* The calls: what _dispatch does once the call runs.                      *)

(* session.register: a new session, or one more lease.                     *)
Register(c) ==
    /\ c \in SessionCalls
    /\ Start(c)
    /\ Put(SessionOf[c], "fresh")
    /\ UNCHANGED <<served, state, sweepVars>>

(* session.close, with its hook under the call's own lock.                 *)
Close(c) ==
    /\ c \in SessionCalls
    /\ Start(c)
    /\ Put(SessionOf[c], "none")
    /\ state' = IF table[SessionOf[c]] = "none" THEN state ELSE state \ {SessionOf[c]}
    /\ UNCHANGED <<served, sweepVars>>

(* A business call renews its session, or fails: the session is unknown.   *)
Touch(c) ==
    /\ c \notin SessionCalls
    /\ Start(c)
    /\ IF table[SessionOf[c]] = "none"
         THEN UNCHANGED <<table, served>>
         ELSE Put(SessionOf[c], "fresh") /\ served' = served \cup {c}
    /\ UNCHANGED <<state, sweepVars>>

Handle(c) == c \in served /\ (Poll(c) \/ Move(c)) /\ UNCHANGED sessionVars

(* A handler leaves state for its session (predict), or resets it, or not. *)
Finish(c) ==
    /\ Return(c)
    /\ IF c \in served
         THEN state' \in {state, state \cup {SessionOf[c]}, state \ {SessionOf[c]}}
         ELSE UNCHANGED state
    /\ UNCHANGED <<table, served, sweepVars>>

---------------------------------------------------------------------------
(* The clock and the sweep.                                                *)

GoesIdle(x) ==
    /\ table[x] = "fresh"
    /\ Put(x, "idle")
    /\ UNCHANGED <<facadeVars, served, state, sweepVars>>

Sweep ==
    /\ down \in {"up", "asked"}
    /\ sweeping = {} /\ dropping = NoSession
    /\ sweeping' = {x \in Sessions : table[x] = "idle"}
    /\ sweeping' # {}
    /\ UNCHANGED <<facadeVars, table, served, state, dropping>>

(* Mutant: what was listed is dropped.                                     *)
ExpireListed(x) ==
    /\ down # "exited"
    /\ x \in sweeping /\ dropping = NoSession
    /\ sweeping' = sweeping \ {x}
    /\ Put(x, "none")
    /\ dropping' = x
    /\ UNCHANGED <<facadeVars, served, state>>

(* _expire_session looks again: a call may have renewed the session.       *)
Expire(x) ==
    /\ down # "exited"
    /\ x \in sweeping /\ dropping = NoSession
    /\ sweeping' = sweeping \ {x}
    /\ IF table[x] = "idle"
         THEN Put(x, "none") /\ dropping' = x
         ELSE UNCHANGED <<table, dropping>>
    /\ UNCHANGED <<facadeVars, served, state>>

(* Mutant: the hook does not wait for the running call.                    *)
DropUnlocked ==
    /\ down # "exited"
    /\ dropping # NoSession
    /\ state' = state \ {dropping}
    /\ dropping' = NoSession
    /\ UNCHANGED <<facadeVars, table, served, sweeping>>

Drop ==
    /\ down # "exited"
    /\ dropping # NoSession /\ lock = NoCall
    /\ state' = state \ {dropping}
    /\ dropping' = NoSession
    /\ UNCHANGED <<facadeVars, table, served, sweeping>>

---------------------------------------------------------------------------
SessionStep(c) == Register(c) \/ Close(c) \/ Touch(c) \/ Handle(c) \/ Finish(c)

(* What sessions do not change of a facade's steps.                        *)
OtherStep ==
    /\ (\E c \in Calls : Admit(c, FALSE) \/ Arrive(c) \/ Enter(c)) \/ Stop \/ ProcessStep
    /\ UNCHANGED sessionVars

SessionNext ==
    \/ \E c \in Calls : SessionStep(c)
    \/ OtherStep
    \/ \E x \in Sessions : GoesIdle(x) \/ Expire(x)
    \/ Sweep
    \/ Drop

SessionSpec == SessionInit /\ [][SessionNext]_<<facadeVars, sessionVars>>

(* Threads as in RpcFacade; nothing is asked of the sweep.  A call without *)
(* a handler to run (a session call, an unknown session) has no step to    *)
(* poll for: what Threads asks of its Poll is that it returns.             *)
FairSessionSpec == SessionSpec /\ Threads

---------------------------------------------------------------------------
(* Properties.                                                             *)

(* The policy keeps no state for a session that is gone, unless the hook   *)
(* that removes it is due: the hook waits for the call that runs, which    *)
(* may be one of the session it drops, found before it expired.            *)
NoOrphanState == \A x \in state : table[x] # "none" \/ dropping = x

(* Only a session that is idle as it is taken out expires, however long    *)
(* ago the sweep listed it; any other leaves by a close that runs.         *)
OnlyIdleExpires ==
    [][ \A x \in Sessions :
          table[x] = "fresh" /\ table'[x] = "none" =>
              \E c \in SessionCalls : SessionOf[c] = x /\ lock = c ]_sessionVars
=============================================================================
