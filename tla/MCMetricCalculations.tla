------------------------ MODULE MCMetricCalculations ------------------------
(* The shipped policy (configs/evidence/borrower.yaml) over the operands of  *)
(* one metric at a time, with figures that agree and figures that do not, in *)
(* amount or in context: a report states some of them for both bases.        *)
EXTENDS MetricCalculations

DscrPolicy ==
  [dscr |-> <<"dscr_noi_operating_total", "dscr_noi_operating_schedule", "dscr_noi_pnl_total",
              "dscr_noi_pnl_schedule", "dscr_noi_reported_total", "dscr_noi_reported_schedule">>]

For(contexts, amounts) == [amount : amounts, context : contexts]
Alone(amounts) == For({"standalone"}, amounts)
Both(amounts) == For({"standalone", "consolidated"}, amounts)

DscrReadings ==
  [dscr |-> Alone({2}), operating_revenue |-> Alone({5}), operating_expenses |-> Alone({1}),
   pnl_total_expenses |-> Alone({3}), finance_cost |-> Alone({2}), noi |-> Both({3, 4}),
   debt_service |-> Both({2}), all_loan_principal_due |-> Alone({1}),
   all_loan_interest_due |-> Both({1}), additional_lease_service |-> Alone({0}),
   principal_due |-> Alone({1}), term_interest_due |-> Alone({1})]

EbitdaPolicy ==
  [debt_to_ebitda |-> <<"debt_ebitda", "debt_ebitda_borrowings", "debt_ebitda_pbt_finance_da",
                        "debt_ebitda_borrowings_pbt">>]

EbitdaReadings ==
  [debt_to_ebitda |-> Alone({2}), total_debt |-> Alone({4}), ebitda |-> Alone({2}),
   long_term_borrowings |-> Alone({3}), short_term_borrowings |-> Alone({1}), pbt |-> Alone({1}),
   finance_cost |-> Alone({1}), da |-> Alone({0})]
=============================================================================
