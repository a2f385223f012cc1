--------------------------- MODULE LeaderElection ---------------------------
(***************************************************************************)
(* MultiMainSetup and LeaderElectionClient: mains that elect a leader with *)
(* a key in Redis that expires, SET NX to get it, a script that renews it  *)
(* for its holder only, and an unconditional DEL at a shutdown, some time  *)
(* before the process ends.  Every main checks in an interval, one check   *)
(* at a time.                                                              *)
(*                                                                         *)
(* A command and what the main does with its answer are one step: what     *)
(* others do in between is as if they did it afterwards.  A check is two   *)
(* commands when the first found no key.                                   *)
(***************************************************************************)
EXTENDS Integers, FiniteSets

CONSTANTS
  Mains,      \* main processes; each keeps its host id over a restart, as in Docker
  MaxFaults,  \* bound: lapses, failed commands, stops and crashes
  None        \* no holder

ASSUME SomeMains == IsFiniteSet(Mains) /\ Mains # {}
ASSUME NoneIsNoMain == None \notin Mains
ASSUME MaxFaultsIsNat == MaxFaults \in Nat

VARIABLES
  key,     \* the holder of the leader key
  leads,   \* mains whose instance settings say leader
  trying,  \* mains whose check found no key and sends SET NX
  phase,   \* of a main's process
  lapsed,  \* history: leaders whose key expired, or was deleted by another
  faults   \* so far

electionVars == <<key, leads, trying, phase, lapsed, faults>>

(***************************************************************************)
(* down     not running                                                    *)
(* started  MultiMainSetup and WaitTracker are set up: checks run          *)
(* up       handlers of take-over and step-down are registered, the queue  *)
(*          is set up and requests are served                              *)
(* stopping got a signal: checks still run                                 *)
(* resigned MultiMainSetup is shut down: checks are over, a leader deleted *)
(*          the key, but goes on to lead until the process ends            *)
(***************************************************************************)
Phases == {"down", "started", "up", "stopping", "resigned"}

\* Mains are alike: this one starts first.
First == CHOOSE m \in Mains : TRUE

\* Its interval runs, which renews the key.
Checks(m) == phase[m] \notin {"down", "resigned"}

ElectionInit ==
  /\ key = First /\ leads = {First} /\ trying = {} /\ lapsed = {}
  /\ phase = [m \in Mains |-> IF m = First THEN "started" ELSE "down"]
  /\ faults = 0

Fault == faults < MaxFaults /\ faults' = faults + 1
Advance(m, from, to) == phase[m] = from /\ phase' = [phase EXCEPT ![m] = to]

\* takeOverAsLeader and stepDownToFollower.
Lead(m) == leads' = leads \cup {m} /\ lapsed' = lapsed \ {m}
Follow(m) == leads' = leads \ {m} /\ lapsed' = lapsed \ {m}

\* SET NX: the key goes to m if nobody has it.
SetIfNotExists(m) == key' = IF key = None THEN m ELSE key

\* init: whoever sets the key leads.
Boot(m) ==
  /\ Advance(m, "down", "started")
  /\ SetIfNotExists(m)
  /\ IF key = None THEN Lead(m) ELSE Follow(m)
  /\ UNCHANGED <<trying, faults>>

\* The command fails, executed or not, and the main follows.
BootFails(m) ==
  /\ Advance(m, "down", "started") /\ Fault
  /\ SetIfNotExists(m) \/ UNCHANGED key
  /\ Follow(m)
  /\ UNCHANGED trying

\* Seeded fault: a leader that finds another host's key goes on.
CheckKeepingLead(m) ==
  /\ Checks(m) /\ m \notin trying
  /\ \/ key = m /\ m \notin leads /\ Lead(m) /\ UNCHANGED trying
     \/ key = None /\ trying' = trying \cup {m} /\ UNCHANGED <<leads, lapsed>>
  /\ UNCHANGED <<key, phase, faults>>

\* checkLeader.  A leader renews, and steps down if another holds the key; a
\* follower that finds its own id leads.  A command that fails changes nothing.
Check(m) ==
  /\ Checks(m) /\ m \notin trying
  /\ \/ key = m /\ m \notin leads /\ Lead(m) /\ UNCHANGED trying
     \/ key \notin {None, m} /\ m \in leads /\ Follow(m) /\ UNCHANGED trying
     \/ key = None /\ trying' = trying \cup {m} /\ UNCHANGED <<leads, lapsed>>
  /\ UNCHANGED <<key, phase, faults>>

\* Seeded fault: the key is set whoever has it.
TryOverwriting(m) ==
  /\ m \in trying /\ trying' = trying \ {m}
  /\ key' = m /\ Lead(m)
  /\ UNCHANGED <<phase, faults>>

\* The check's SET NX: it leads, or a leader steps down and a follower stays one.
Try(m) ==
  /\ m \in trying /\ trying' = trying \ {m}
  /\ SetIfNotExists(m)
  /\ IF key = None THEN Lead(m) ELSE Follow(m)
  /\ UNCHANGED <<phase, faults>>

\* The command fails, executed or not.
TryFails(m) ==
  /\ m \in trying /\ trying' = trying \ {m}
  /\ Fault
  /\ SetIfNotExists(m) \/ UNCHANGED key
  /\ Follow(m)
  /\ UNCHANGED phase

\* The key expires: its holder renews it no more.
Expire ==
  /\ key # None /\ ~Checks(key)
  /\ key' = None
  /\ UNCHANGED <<leads, trying, phase, lapsed, faults>>

\* It expires under a holder that would renew it.
MissRenewals ==
  /\ key # None /\ Checks(key) /\ Fault
  /\ key' = None
  /\ lapsed' = lapsed \cup ({key} \cap leads)
  /\ UNCHANGED <<leads, trying, phase>>

\* onTerminationSignal.
GetSignal(m) ==
  /\ Advance(m, "up", "stopping") /\ Fault
  /\ UNCHANGED <<key, leads, trying, lapsed>>

\* The leader's DEL takes the key from whoever holds it.
ClearLeader(m) == key' = None /\ lapsed' = (lapsed \cup ({key} \cap leads)) \ {m}

\* shutdown: the interval is cleared; a leader deletes the key, which may fail, and
\* does not step down.  The SET NX of a check under way comes before the DEL: its
\* answer makes a leader step down if another has the key.  A follower's client is
\* destroyed with its SET NX executed or not.
Shutdown(m) ==
  /\ Advance(m, "stopping", "resigned")
  /\ trying' = trying \ {m}
  /\ \/ m \in leads /\ ClearLeader(m)
        /\ leads' = IF m \in trying /\ key # None THEN leads \ {m} ELSE leads
     \/ m \in leads \ trying /\ lapsed' = lapsed \ {m} /\ UNCHANGED <<key, leads>>
     \/ m \notin leads /\ (IF m \in trying THEN SetIfNotExists(m) ELSE key' = key)
        /\ UNCHANGED <<leads, lapsed>>
     \/ m \in trying \ leads /\ UNCHANGED <<key, leads, lapsed>>
  /\ UNCHANGED faults

Gone(m) ==
  /\ phase' = [phase EXCEPT ![m] = "down"]
  /\ leads' = leads \ {m} /\ trying' = trying \ {m} /\ lapsed' = lapsed \ {m}
  /\ UNCHANGED key

\* exitSuccessFully, or the timer that ends a shutdown which takes too long.
Exit(m) ==
  /\ phase[m] \in {"stopping", "resigned"}
  /\ Gone(m)
  /\ UNCHANGED faults

Crash(m) ==
  /\ phase[m] # "down" /\ Fault
  /\ Gone(m)

-----------------------------------------------------------------------------
ElectionTypeOK ==
  /\ key \in Mains \cup {None} /\ leads \subseteq Mains /\ trying \subseteq Mains
  /\ phase \in [Mains -> Phases] /\ lapsed \subseteq leads /\ faults \in 0..MaxFaults

\* Whoever acts as leader holds the key, unless the key expired while it did not
\* renew, or a leader of that kind deleted it, or it is shutting down: then it deletes
\* the key but leads on, beside the next leader, until its executions are over
\* (start.ts:109-119).  No order of checks, set-ups and restarts gives two leaders
\* otherwise.
LeadersHoldTheKey == \A m \in leads : key = m \/ m \in lapsed \/ phase[m] = "resigned"

\* A main that is down neither leads nor is in the middle of a check, nor is one that
\* shut down: the key of a holder that is gone expires without a leader losing it.
DownIsSilent ==
  \A m \in Mains : /\ phase[m] = "down" => m \notin leads
                   /\ m \in trying => Checks(m)

ElectionInv == ElectionTypeOK /\ LeadersHoldTheKey /\ DownIsSilent

\* When commands reach Redis again and no main stops, every main agrees for good on
\* one leader, which holds the key.
EventuallyOneLeader == <>[](key \in Mains /\ leads = {key})
=============================================================================
