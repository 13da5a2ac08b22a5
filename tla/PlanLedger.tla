----------------------------- MODULE PlanLedger -----------------------------
(* What the plans of status transitions promise, whatever runs, retries, drains
   and restarts they take: a plan ends once and stays as it ended; its verdict
   is written at most once and says what became of the row, but for the answer of
   an agent that is gone, which may be rescued before the row has ended. *)

CONSTANT Plans

VARIABLES
  row,      \* the state of each plan
  verdict   \* what the log says of it

Rows == {"none", "open", "completed", "cancelled", "failed", "discarded"}
Verdicts == {"none", "failed", "discarded", "rescued"}

LedgerTypeOK == row \in [Plans -> Rows] /\ verdict \in [Plans -> Verdicts]

LedgerInit == row = [p \in Plans |-> "none"] /\ verdict = [p \in Plans |-> "none"]

\* A newer plan may supersede open ones.
Opens(p, superseded) ==
  /\ row[p] = "none" /\ \A q \in superseded : row[q] = "open"
  /\ row' = [q \in Plans |-> IF q = p THEN "open"
                             ELSE IF q \in superseded THEN "cancelled" ELSE row[q]]
  /\ UNCHANGED verdict

Ends(p, st) ==
  /\ row[p] = "open"
  /\ verdict[p] = "rescued" => st \in {"completed", "cancelled"}
  /\ row' = [row EXCEPT ![p] = st]
  /\ UNCHANGED verdict

\* The run of a plan that was superseded meanwhile rescues the answer all the same.
Rescues(p) ==
  /\ row[p] \in {"open", "cancelled"} /\ verdict[p] = "none"
  /\ verdict' = [verdict EXCEPT ![p] = "rescued"] /\ UNCHANGED row

Tells(p) ==
  /\ row[p] \in {"failed", "discarded"} /\ verdict[p] = "none"
  /\ verdict' = [verdict EXCEPT ![p] = row[p]] /\ UNCHANGED row

LedgerNext ==
  \E p \in Plans : \/ \E superseded \in SUBSET Plans : Opens(p, superseded)
                   \/ \E st \in {"completed", "cancelled", "failed", "discarded"} : Ends(p, st)
                   \/ Rescues(p) \/ Tells(p)

LedgerSpec == LedgerInit /\ [][LedgerNext]_<<row, verdict>>
=============================================================================
