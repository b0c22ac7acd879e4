------------------------- MODULE MetricCalculations -------------------------
(***************************************************************************)
(* Metrics computed from operands (reason/calculations.py, dscr.py,        *)
(* debt_service.py, accounting_formulas.py, company_age.py, and extract    *)
(* and assess of reason/evidence_gate.py).  What the gate finds for each   *)
(* operand is the ledger: a figure, or the reason there is none.  Each     *)
(* metric is a function of the ledger.                                     *)
(*                                                                         *)
(* It starts with a report that states no operand, and moves as documents  *)
(* and links are added to the borrower's file, one operand at a time (see  *)
(* Succeeds of EvidenceGate): an operand is disclosed; a figure conflicts  *)
(* with another one, which no further document undoes, or is made unclear; *)
(* what is unclear is settled.  Every operand is read from the audited     *)
(* financials of the newest reporting year alone: a newer report moves all *)
(* of them to its year at once.  Deletions are left out.                   *)
(*                                                                         *)
(* A figure is its amount and its context (entity, basis); the year is the *)
(* same for all.  A ratio stays a quotient, compared exactly: the 28       *)
(* digits of the code and the constant factor 100 of a percentage are left *)
(* out.                                                                    *)
(***************************************************************************)
EXTENDS Integers, FiniteSets, Sequences

CONSTANTS
  Readings,       \* operand or metric -> figures a document may state for it
  Years,          \* reporting years
  Policy,         \* calculated metric -> its formulas, the primary one first
  MaxDisclosed,   \* bound: operands disclosed
  MaxRefused,     \* bound: operands refused at a time
  MaxRenewed      \* bound: operands disclosed when a newer report arrives

ASSUME CalculationAssumption ==
  {MaxDisclosed, MaxRefused, MaxRenewed} \subseteq Nat /\ Years \subseteq Nat /\ Years # {}
ASSUME ReadingsAssumption ==
  \A o \in DOMAIN Readings : \A f \in Readings[o] : DOMAIN f = {"amount", "context"}

VARIABLES
  ledger,       \* operand -> [amount, context] or [error], which may say what it was
  reportYear,   \* the newest reporting year of the audited financials
  cover         \* history: the first debt service cover supported in that year

ledgerVars == <<ledger, reportYear, cover>>

\* Apart from the status that is reported, the code only asks whether an error is
\* the missing one: a conflict, which stays, and an unclear basis, which a document
\* or a link may settle, stand for every other.
Missing == "evidence_metric_missing"
Conflicting == "evidence_conflicting_values"
Unclear == "evidence_basis_ambiguous"
Fault(code) == [error |-> code]
Lacks(r) == "error" \in DOMAIN r

-----------------------------------------------------------------------------
(* accounting_formulas.FORMULAS: operands of the numerator, then those only  *)
(* of the denominator; every coefficient is 1 but the subtracted ones.       *)

Formula(metric, top, minus, bottom) ==
  [metric |-> metric, minus |-> minus, top |-> top, bottom |-> bottom]

Schedule == <<"all_loan_principal_due", "all_loan_interest_due", "additional_lease_service">>
Operating == <<"operating_revenue", "operating_expenses">>
Pnl == <<"operating_revenue", "pnl_total_expenses", "finance_cost">>
Total == <<"debt_service">>
Term == <<"term_interest_due", "principal_due">>
Borrowings == <<"long_term_borrowings", "short_term_borrowings">>
PbtEbitda == <<"pbt", "finance_cost", "da">>
Set(s) == {s[i] : i \in DOMAIN s}

Formulas ==
  [dscr_noi_operating_total     |-> Formula("dscr", Operating, {"operating_expenses"}, Total),
   dscr_noi_operating_schedule  |-> Formula("dscr", Operating, {"operating_expenses"}, Schedule),
   dscr_noi_pnl_total           |-> Formula("dscr", Pnl, {"pnl_total_expenses"}, Total),
   dscr_noi_pnl_schedule        |-> Formula("dscr", Pnl, {"pnl_total_expenses"}, Schedule),
   dscr_noi_reported_total      |-> Formula("dscr", <<"noi">>, {}, Total),
   dscr_noi_reported_schedule   |-> Formula("dscr", <<"noi">>, {}, Schedule),
   dscr_cfads                   |-> Formula("dscr", <<"cfads">>, {}, Total),
   dscr_cfads_schedule          |-> Formula("dscr", <<"cfads">>, {}, Term),
   dscr_cfads_all_obligations   |-> Formula("dscr", <<"cfads">>, {}, Schedule),
   dscr_cash_accrual            |-> Formula("dscr", <<"pat", "da", "term_interest_due">>, {}, Term),
   dscr_cash_accrual_pbt        |->
     Formula("dscr", <<"pbt", "net_tax", "da", "term_interest_due">>, {"net_tax"}, Term),
   debt_ebitda                  |-> Formula("debt_to_ebitda", <<"total_debt">>, {}, <<"ebitda">>),
   debt_ebitda_borrowings       |-> Formula("debt_to_ebitda", Borrowings, {}, <<"ebitda">>),
   debt_ebitda_pbt_finance_da   |-> Formula("debt_to_ebitda", <<"total_debt">>, {}, PbtEbitda),
   debt_ebitda_borrowings_pbt   |-> Formula("debt_to_ebitda", Borrowings, {}, PbtEbitda),
   debt_equity                  |-> Formula("debt_to_equity", <<"total_debt">>, {}, <<"total_equity">>),
   debt_equity_borrowings       |-> Formula("debt_to_equity", Borrowings, {}, <<"total_equity">>),
   debt_equity_llp_borrowings   |-> Formula("debt_to_equity", Borrowings, {},
                                      <<"partners_contribution", "partners_current_account">>),
   ebitda_margin                |-> Formula("ebitda_margin_pct", <<"ebitda">>, {}, <<"annual_revenue">>),
   ebitda_margin_pbt_finance_da |-> Formula("ebitda_margin_pct", PbtEbitda, {}, <<"annual_revenue">>),
   ebitda_pbt_finance_da        |-> Formula("ebitda", PbtEbitda, {}, <<>>),
   pat_pbt_net_tax              |-> Formula("pat", <<"pbt", "net_tax">>, {"net_tax"}, <<>>)]

\* The operands in the order they are extracted; a repeated one changes nothing.
Operands(f) == f.top \o f.bottom

\* The policy names formulas whose operands may be stated, and the cover is
\* reconciled with two ways of stating the debt service.
ASSUME PolicyAssumption ==
  \A m \in DOMAIN Policy :
    /\ m \in DOMAIN Readings
    /\ \A i \in DOMAIN Policy[m] :
         /\ Policy[m][i] \in DOMAIN Formulas
         /\ Set(Operands(Formulas[Policy[m][i]])) \subseteq DOMAIN Readings
ASSUME DscrAssumption ==
  "dscr" \in DOMAIN Policy =>
    Set(Schedule) \cup {"debt_service", "principal_due", "term_interest_due"} \subseteq DOMAIN Readings

NeverNegative ==
  {"long_term_borrowings", "short_term_borrowings", "all_loan_principal_due",
   "all_loan_interest_due", "additional_lease_service", "operating_expenses",
   "pnl_total_expenses", "finance_cost", "da", "term_interest_due", "principal_due"}

Added(amounts) ==
  LET sum[i \in 0..Len(amounts)] == IF i = 0 THEN 0 ELSE sum[i - 1] + amounts[i]
  IN sum[Len(amounts)]
SumOf(extract, names, minus) ==
  Added([i \in 1..Len(names) |->
           (IF names[i] \in minus THEN -1 ELSE 1) * extract[names[i]].amount])

\* Formula.evaluate: a quotient, or a refusal.
Evaluate(f, extract) ==
  LET bottom == IF f.bottom = <<>> THEN 1 ELSE SumOf(extract, f.bottom, {})
  IN IF \/ \E o \in Set(Operands(f)) \cap NeverNegative : extract[o].amount < 0
        \/ bottom <= 0
     THEN Fault("evidence_value_ambiguous")
     ELSE [top |-> SumOf(extract, f.top, f.minus), bottom |-> bottom]

\* calculate: the first operand without a figure decides, then the contexts must agree.
Calculate(name, extract) ==
  LET f == Formulas[name]
      operands == Operands(f)
      lacking == {i \in DOMAIN operands : Lacks(extract[operands[i]])}
  IN CASE lacking # {} -> extract[operands[CHOOSE i \in lacking : \A j \in lacking : i <= j]]
       [] Cardinality({extract[o].context : o \in Set(operands)}) # 1 ->
            Fault("evidence_context_conflict")
       [] OTHER -> Evaluate(f, extract)

Same(p, q) == p.top * q.bottom = q.top * p.bottom

-----------------------------------------------------------------------------
(* reconcile_annual_service: None when nothing contradicts, else the error   *)

Clear == "none"
Known(names) == {o \in Set(names) : ~Lacks(ledger[o])}
Refused(names) == {o \in Set(names) : Lacks(ledger[o]) /\ ledger[o].error # Missing}
\* The first of them that has an error other than missing.
FirstRefusal(names) ==
  LET i == CHOOSE n \in DOMAIN names : /\ names[n] \in Refused(names)
                                       /\ \A j \in 1..(n - 1) : names[j] \notin Refused(names)
  IN ledger[names[i]].error
OneContext(names) == Cardinality({ledger[o].context : o \in names}) = 1

\* A broader schedule is used whole or not at all; absence is not zero.
ReconcileSchedule ==
  IF Known(Schedule) # Set(Schedule) THEN Missing ELSE
  CASE ~OneContext(Set(Schedule)) -> "evidence_context_conflict"
    [] (\E o \in Set(Schedule) : ledger[o].amount < 0) \/ SumOf(ledger, Schedule, {}) <= 0 ->
         "evidence_value_ambiguous"
    [] Lacks(ledger["debt_service"]) ->
         IF ledger["debt_service"].error = Missing THEN Clear ELSE ledger["debt_service"].error
    [] ~OneContext(Set(Schedule) \cup {"debt_service"}) -> "evidence_context_conflict"
    [] ledger["debt_service"].amount # SumOf(ledger, Schedule, {}) -> Conflicting
    [] OTHER -> Clear

ReconcileTerm ==
  LET names == <<"debt_service", "principal_due", "term_interest_due">>
  IN CASE Refused(names) # {} -> FirstRefusal(names)
       [] Known(names) # Set(names) -> Clear
       [] ~OneContext(Set(names)) -> "evidence_context_conflict"
       [] \/ ledger["debt_service"].amount <= 0
          \/ \E o \in {"principal_due", "term_interest_due"} : ledger[o].amount < 0
          \/ ledger["debt_service"].amount # SumOf(ledger, <<"principal_due", "term_interest_due">>, {}) ->
            Conflicting
       [] OTHER -> Clear

Reconcile ==
  IF Refused(Schedule) # {} THEN FirstRefusal(Schedule)
  ELSE IF Known(Schedule) # {} THEN ReconcileSchedule ELSE ReconcileTerm

-----------------------------------------------------------------------------
(* calculate_dscr *)

DscrFormulas == Policy["dscr"]
DscrOperands ==
  UNION {Set(Operands(Formulas[DscrFormulas[i]])) : i \in DOMAIN DscrFormulas}
Denominator(name) == Formulas[name].bottom

\* A negative part, or a known denominator that is not positive.
BadDenominator(name) ==
  \/ \E o \in Known(Denominator(name)) : ledger[o].amount < 0
  \/ Known(Denominator(name)) = Set(Denominator(name)) /\ SumOf(ledger, Denominator(name), {}) <= 0

\* Mutant: only the operands a formula stops at are looked at.
CalculateDscr_NoOperandCheck ==
  LET answers == {Calculate(n, ledger) : n \in Set(DscrFormulas)}
      results == {r \in answers : ~Lacks(r)}
  IN CASE Reconcile # Clear -> Fault(Reconcile)
       [] results = {} -> Fault(Missing)
       [] \E p, q \in results : ~Same(p, q) -> Fault("evidence_context_conflict")
       [] OTHER -> CHOOSE r \in results : TRUE
\* Mutant: the first formula with a result answers.
CalculateDscr_FirstResult ==
  LET refused == {o \in DscrOperands : Lacks(ledger[o]) /\ ledger[o].error # Missing}
      answering == {i \in DOMAIN DscrFormulas : ~Lacks(Calculate(DscrFormulas[i], ledger))}
  IN CASE refused # {} -> ledger[CHOOSE o \in refused : TRUE]
       [] Reconcile # Clear -> Fault(Reconcile)
       [] answering = {} -> Fault(Missing)
       [] OTHER -> Calculate(DscrFormulas[CHOOSE i \in answering : \A j \in answering : i <= j], ledger)
\* Every operand of every formula is assessed before any formula is used.
CalculateDscr ==
  LET refused == {o \in DscrOperands : Lacks(ledger[o]) /\ ledger[o].error # Missing}
      answers == {Calculate(n, ledger) : n \in Set(DscrFormulas)}
      bad == {r \in answers : Lacks(r) /\ r.error # Missing}
      results == {r \in answers : ~Lacks(r)}
  IN CASE refused # {} -> ledger[CHOOSE o \in refused : TRUE]
       [] Reconcile # Clear -> Fault(Reconcile)
       [] \E n \in Set(DscrFormulas) : BadDenominator(n) -> Fault("evidence_value_ambiguous")
       [] Lacks(ledger["dscr"]) /\ ledger["dscr"].error # Missing -> ledger["dscr"]
       [] bad # {} -> CHOOSE r \in bad : TRUE
       [] results = {} -> Fault(Missing)
       [] \E p, q \in results : ~Same(p, q) -> Fault("evidence_context_conflict")
       [] OTHER -> CHOOSE r \in results : TRUE

-----------------------------------------------------------------------------
(* extract: a stated figure first, then the formulas in order *)

\* The first formula that does not miss an operand answers or refuses.
FirstFormula(names) ==
  LET decided == {i \in DOMAIN names : LET r == Calculate(names[i], ledger)
                                       IN ~Lacks(r) \/ r.error # Missing}
  IN IF decided = {} THEN Fault(Missing)
     ELSE Calculate(names[CHOOSE i \in decided : \A j \in decided : i <= j], ledger)

Stated(metric) == [top |-> ledger[metric].amount, bottom |-> 1]

Extract(metric) ==
  IF metric = "dscr" THEN CalculateDscr ELSE
  CASE ~Lacks(ledger[metric]) -> Stated(metric)
    [] Lacks(ledger[metric]) /\ ledger[metric].error # Missing -> ledger[metric]
    [] OTHER -> FirstFormula(Policy[metric])

\* assess: what a reviewer is told about a metric, and about the operands of all
\* its formulas when there is no figure.
Status(metric) ==
  LET r == Extract(metric)
  IN CASE ~Lacks(r) -> "supported"
       [] r.error = Conflicting -> "conflicting"
       [] r.error = Missing -> "missing"
       [] OTHER -> "ambiguous"
Diagnostics(metric) ==
  IF Status(metric) = "supported" THEN {}
  ELSE {d \in Set(Policy[metric]) \X DOMAIN ledger : d[2] \in Set(Operands(Formulas[d[1]]))}

-----------------------------------------------------------------------------
LedgerInit ==
  /\ ledger = [o \in DOMAIN Readings |-> Fault(Missing)]
  /\ reportYear \in Years
  /\ cover = Fault(Missing)

Disclosed == {o \in DOMAIN Readings : ledger[o] # Fault(Missing)}
RefusedOperands == {o \in DOMAIN Readings : Lacks(ledger[o]) /\ ledger[o].error # Missing}

Findings(o) == Readings[o] \cup {Fault(Conflicting), Fault(Unclear)}

\* A figure that another document made unclear.
Doubtful(f) == [error |-> Unclear, was |-> f]
IsDoubtful(r) == "was" \in DOMAIN r

\* The first cover of the year, as it stands before the step.
FirstCover == IF Lacks(cover) THEN Extract("dscr") ELSE cover

\* The operand is found anew in the same year.
Record(o, r, first) ==
  /\ Lacks(r) => Cardinality(RefusedOperands \ {o}) < MaxRefused
  /\ ledger' = [ledger EXCEPT ![o] = r]
  /\ cover' = first
  /\ UNCHANGED reportYear

\* A document states the operand, or states it in a way the gate cannot resolve.
Disclose(o, first) ==
  /\ ledger[o] = Fault(Missing) /\ Cardinality(Disclosed) < MaxDisclosed
  /\ \E r \in Findings(o) : Record(o, r, first)

\* A further document contradicts it, or cannot be resolved itself.
Contradict(o, first) ==
  /\ ~Lacks(ledger[o])
  /\ \E r \in {Fault(Conflicting), Doubtful(ledger[o])} : Record(o, r, first)

\* A document, or a reviewer's link, settles what was unclear: a figure found before
\* is still in the file, so that another one conflicts with it.
Settle(o, first) ==
  /\ Lacks(ledger[o]) /\ ledger[o].error = Unclear
  /\ \E r \in IF IsDoubtful(ledger[o]) THEN {ledger[o].was, Fault(Conflicting)} ELSE Findings(o) :
       Record(o, r, first)

\* A report of a later year: what was disclosed is found in it, or is refused, for
\* its older rows do not count.
Renew ==
  /\ Cardinality(Disclosed) <= MaxRenewed
  /\ \E found \in [Disclosed -> UNION {Findings(o) : o \in Disclosed}] :
       /\ \A o \in Disclosed : found[o] \in Findings(o)
       /\ ledger' = [o \in DOMAIN Readings |-> IF o \in Disclosed THEN found[o] ELSE ledger[o]]
  /\ Cardinality(RefusedOperands') <= MaxRefused
  /\ \E y \in Years : y > reportYear /\ reportYear' = y
  /\ cover' = Fault(Missing)

LedgerNext ==
  \/ Renew
  \/ \E first \in {FirstCover}, o \in DOMAIN Readings :
       Disclose(o, first) \/ Settle(o, first) \/ Contradict(o, first)
LedgerSpec == LedgerInit /\ [][LedgerNext]_ledgerVars

-----------------------------------------------------------------------------
Computed == DOMAIN Policy
Supported(r) == ~Lacks(r)

\* Type invariant: every operand has one figure or one reason.
LedgerTypeOK ==
  /\ DOMAIN ledger = DOMAIN Readings
  /\ \A o \in DOMAIN Readings :
       ledger[o] \in Findings(o) \cup {Fault(Missing)} \cup {Doubtful(f) : f \in Readings[o]}

\* A debt service cover is never computed around evidence that contradicts it: with
\* a conflicting or unclear operand of any of its formulas, a conflicting stated
\* ratio, or a schedule of obligations that is only partly disclosed, there is none.
DscrNeverBypasses ==
  Supported(Extract("dscr")) =>
    /\ \A o \in DscrOperands \cup {"dscr"} : Lacks(ledger[o]) => ledger[o].error = Missing
    /\ Known(Schedule) \in {{}, Set(Schedule)}

\* Of one reporting year there is one debt service cover: whenever it is supported,
\* however much was disclosed, settled or refused in between and whichever formula
\* answers, it is the one first supported for that year.  Only a newer report, which
\* moves every operand to its year, moves it.
DscrNeverMoves ==
  Supported(cover) /\ Supported(Extract("dscr")) => Same(cover, Extract("dscr"))

\* A formula is skipped only for an operand nobody disclosed: no metric is computed
\* by an alternative while an operand of an earlier formula conflicts or is unclear.
AlternativesDoNotBypass ==
  \A m \in Computed \ {"dscr"} :
    (Supported(Extract(m)) /\ Lacks(ledger[m])) =>
      \E i \in DOMAIN Policy[m] :
        /\ Supported(Calculate(Policy[m][i], ledger))
        /\ \A j \in 1..i : Refused(Operands(Formulas[Policy[m][j]])) = {}

\* When a metric is called missing, the diagnostics name an operand that is missing.
MissingIsDiagnosed ==
  \A m \in Computed : Status(m) = "missing" =>
    \E d \in Diagnostics(m) : ledger[d[2]] = Fault(Missing)
=============================================================================
