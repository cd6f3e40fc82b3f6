---------------------------- MODULE AttemptLife ----------------------------
(***************************************************************************)
(* What loopcoder promises of anything it tries more than once, a progress *)
(* delivery or a child run: tries are numbered and bounded, one is under   *)
(* way at a time, and a job that ended stays as it ended.  Leases, claims, *)
(* owners and stores are not part of the promise; the modules that have    *)
(* them are shown to implement it.                                         *)
(***************************************************************************)
EXTENDS Naturals

CONSTANTS
    Jobs,      \* what is tried
    MaxTries   \* tries a job may have

VARIABLES
    life,      \* where each job is
    tries      \* tries begun so far

lifeVars == <<life, tries>>

Lives == {"absent", "open", "trying", "done", "failed"}

LifeInit ==
    /\ life = [j \in Jobs |-> "absent"]
    /\ tries = [j \in Jobs |-> 0]

\* A job moves between two places without a new try.
Moves(j, from, to) ==
    /\ life[j] \in from /\ life'[j] = to
    /\ tries'[j] = tries[j]

Create(j) == Moves(j, {"absent"}, "open")

Try(j) ==
    /\ life[j] = "open" /\ life'[j] = "trying"
    /\ tries[j] < MaxTries
    /\ tries'[j] = tries[j] + 1

Succeed(j) == Moves(j, {"trying"}, "done")

\* A failed try may be repeated while tries are left.
Retry(j) == tries[j] < MaxTries /\ Moves(j, {"trying"}, "open")

GiveUp(j) == Moves(j, {"open", "trying"}, "failed")

Stay(j) == life'[j] = life[j] /\ tries'[j] = tries[j]

\* One step may move several jobs, each in one of these ways.
LifeNext ==
    /\ life' \in [Jobs -> Lives]
    /\ tries' \in [Jobs -> 0 .. MaxTries]
    /\ \A j \in Jobs :
          Create(j) \/ Try(j) \/ Succeed(j) \/ Retry(j) \/ GiveUp(j) \/ Stay(j)

LifeSpec == LifeInit /\ [][LifeNext]_lifeVars
=============================================================================
