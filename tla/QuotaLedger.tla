---------------------------- MODULE QuotaLedger -----------------------------
(***************************************************************************)
(* Stage 5 of the policy ladder: the daily call budget of each agent       *)
(* (broker/src/quota.rs).                                                  *)
(*                                                                         *)
(* try_admit reads the day before it takes the lock, so between the two    *)
(* other callers may be admitted and the clock may move, either way.  What *)
(* happens under the lock is one step, TryAdmit, whose argument `today` is *)
(* the day that was read.                                                  *)
(***************************************************************************)
EXTENDS Integers, FiniteSets

CONSTANTS
    Agents,
    Days,       \* days since the epoch the clock may read
    NoCeiling   \* the limit of a manifest that declares none

ASSUME DaysAssumption    == Days \subseteq Nat /\ 0 \in Days
ASSUME CeilingAssumption == NoCeiling \notin Nat

VARIABLES
    windows,    \* the ledger: an agent's current day and what it used in it
    spent       \* history: calls admitted, by agent and day they were charged to

quota == <<windows, spent>>

\* An agent without an entry has the window its first call would insert:
\* a first call on day d rolls it to [day |-> d, used |-> 0].
FreshWindow == [day |-> 0, used |-> 0]

QuotaInit ==
    /\ windows = [a \in Agents |-> FreshWindow]
    /\ spent = [a \in Agents |-> [d \in Days |-> 0]]

\* Mutant: a new window on any change of the day.
RolledEitherWay(window, today) ==
    IF today # window.day THEN [day |-> today, used |-> 0] ELSE window

\* The window after the roll, which is forward only: a clock that stepped
\* back keeps counting in the old window.
Rolled(window, today) ==
    IF today > window.day THEN [day |-> today, used |-> 0] ELSE window

Exhausted(window, limit) == limit # NoCeiling /\ window.used >= limit

\* Mutant: the call is counted before the limit is looked at.
TryAdmitCountsFirst(agent, limit, today, admitted) ==
    LET window == Rolled(windows[agent], today)
    IN  /\ admitted = ~Exhausted(window, limit)
        /\ windows' = [windows EXCEPT ![agent] = [window EXCEPT !.used = @ + 1]]
        /\ spent' = [spent EXCEPT ![agent][window.day] = @ + 1]

\* The critical section of try_admit: roll, check, count.
TryAdmit(agent, limit, today, admitted) ==
    LET window == Rolled(windows[agent], today)
    IN  /\ admitted = ~Exhausted(window, limit)
        /\ windows' = [windows EXCEPT ![agent] =
                          IF admitted THEN [window EXCEPT !.used = @ + 1] ELSE window]
        /\ spent' = IF admitted
                    THEN [spent EXCEPT ![agent][window.day] = @ + 1]
                    ELSE spent

=============================================================================
