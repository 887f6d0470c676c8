------------------------------- MODULE Commands -------------------------------
(***************************************************************************)
(* What the command line offers (smeggdrop/cli.py): the bot as a process   *)
(* (BotProcess), and the commands that work on a whole library and end     *)
(* (StateTools).  The latter touch no state of the former: what they       *)
(* promise is stated here at the start, when no bot was started yet.       *)
(***************************************************************************)
EXTENDS BotProcess, StateTools

CONSTANTS
    Orders,         \* the orders in which an audit may come to the procs
    Libraries       \* variables that go with the procs, and what is merged

ASSUME LibrariesAssumption ==
    /\ \A order \in Orders :
          order \in Seq(Name) /\ \A n \in Name : \E i \in DOMAIN order : order[i] = n
    /\ Libraries \subseteq Dict

Category == {"procs", "vars"}

AtFirst == starts = 0 /\ disk = 0

\* What audit and verify say loads is what a bot started there has
\* (audit_state, SafeTclInterp's loading, restore-state.sh).
AuditAgreesWithBoot ==
    AtFirst => \A library \in Dict, variables \in Libraries :
                  AuditFindsWhatBoots(library, variables)

\* The audit's verdicts do not depend on the order of the procs.
AuditIsFair ==
    AtFirst => \A library \in Dict, order \in Orders, with_args \in BOOLEAN :
                  AuditJudgesEachAlone(library, order, with_args)

\* Migrating keeps what is there, and can be repeated (cmd_migrate).
MigrationIsRepeatable ==
    AtFirst => \A source, destination \in [Category -> Libraries] :
                  MigrationMerges(source, destination)

=============================================================================
