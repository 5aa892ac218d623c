----------------------------- MODULE RiskMetrics -----------------------------
(***************************************************************************)
(* The arithmetic of the GCP risk peer: the price series that ingest_event *)
(* builds and the metrics that compute_risk derives from them.             *)
(*                                                                         *)
(* Numbers are exact.  A price divides Scale, so that a return is an       *)
(* integer number of 1/Scale and a portfolio return one of 1/One; a        *)
(* quotient of two such numbers is a pair.  Volatility, which needs a      *)
(* square root, and the rounding to six digits are left out.               *)
(***************************************************************************)
EXTENDS Integers, SequencesExt

CONSTANTS
  Symbols,     \* symbols of market events
  Portfolios,  \* portfolios: for each position, its weight in units of 1/Total
  Prices,      \* prices an event may have
  Scale,       \* a common multiple of the prices
  TailParts,   \* 1 / (1 - confidence): 20 in compute_risk
  Window,      \* window of the rolling return: 24 in compute_risk
  MaxEvents    \* bound: events per symbol

VARIABLES
  prices,     \* events_by_symbol, the price of each event
  portfolio   \* the portfolio in effect

vars == <<prices, portfolio>>

Total == FoldFunction(+, 0, portfolio)
One   == Scale * Total

ASSUME PriceAssumption ==
  /\ Prices \subseteq Nat /\ Scale \in Nat \ {0}
  /\ \A p \in Prices \ {0} : Scale % p = 0
ASSUME PortfolioAssumption ==
  \A w \in Portfolios : /\ DOMAIN w \subseteq Symbols /\ w \in [DOMAIN w -> Nat]
                        /\ FoldFunction(+, 0, w) > 0
ASSUME ParameterAssumption ==
  TailParts \in Nat \ {0} /\ Window \in Nat \ {0} /\ MaxEvents \in Nat

-----------------------------------------------------------------------------
\* _returns_for_symbol: a step from a price of zero is left out.
ReturnsForSymbol(s) ==
  LET p       == prices[s]
      indices == SelectSeq([i \in 1..Len(p) |-> i], LAMBDA i : i > 1 /\ p[i - 1] # 0)
  IN  [k \in DOMAIN indices |->
         (Scale * (p[indices[k]] - p[indices[k] - 1])) \div p[indices[k] - 1]]

\* compute_risk: the series are aligned at their ends and cut to the shortest of
\* those that are not empty; an empty one counts as no change.
PortfolioReturns ==
  LET series  == [s \in DOMAIN portfolio |-> ReturnsForSymbol(s)]
      lengths == {Len(series[s]) : s \in {s \in DOMAIN series : series[s] # << >>}}
      common  == IF lengths = {} THEN 0 ELSE Min(lengths)
  IN  [t \in 1..common |->
         FoldFunction(+, 0,
           [s \in DOMAIN portfolio |->
              portfolio[s] * (IF series[s] = << >> THEN 0
                           ELSE series[s][Len(series[s]) - common + t])])]

\* Mutant: the returns are not sorted.
HistoricalVar_Unsorted(returns) ==
  IF returns = << >> THEN 0
  ELSE returns[1 + Max({0, Min({Len(returns) - 1, Len(returns) \div TailParts})})]

\* _historical_var, of a confidence of 1 - 1/TailParts
HistoricalVar(returns) ==
  IF returns = << >> THEN 0
  ELSE SortSeq(returns, <)[1 + Max({0, Min({Len(returns) - 1, Len(returns) \div TailParts})})]

\* The compounded value after each return, in units of 1/One^Len(returns).
EquityCurve(returns) ==
  [k \in 1..Len(returns) |->
     FoldLeft(LAMBDA running, item : running * (One + item), 1, SubSeq(returns, 1, k))
       * One^(Len(returns) - k)]

\* (value - peak) / peak, and the order of such quotients.
Fall(value, peak) == <<value - peak, peak>>
LessEq(a, b) == a[1] * b[2] <= b[1] * a[2]

\* Mutant: the peak stays the first value.
MaxDrawdown_FirstPeak(curve) ==
  FoldLeft(LAMBDA worst, value :
             IF LessEq(Fall(value, curve[1]), worst) THEN Fall(value, curve[1]) ELSE worst,
           <<0, 1>>, curve)

\* _max_drawdown, from the curve on
MaxDrawdown(curve) ==
  FoldLeft(LAMBDA acc, value :
             LET peak     == Max({acc.peak, value})
                 drawdown == Fall(value, peak)
             IN  [peak  |-> peak,
                  worst |-> IF LessEq(drawdown, acc.worst) THEN drawdown ELSE acc.worst],
           [peak |-> IF curve = << >> THEN 1 ELSE Head(curve), worst |-> <<0, 1>>],
           curve).worst

\* returns[-window:]
Selected(returns) == SubSeq(returns, Max({1, Len(returns) - Window + 1}), Len(returns))

\* _rolling_return, plus one: a quotient over One^Len(Selected(returns))
RollingGrowth(returns) ==
  FoldLeft(LAMBDA result, item : result * (One + item), 1, Selected(returns))

\* _max_drawdown divides by the peak, and the first peak is the first value.
DividesByZero(returns) == returns # << >> /\ EquityCurve(returns)[1] = 0

-----------------------------------------------------------------------------
Init ==
  /\ prices = [s \in Symbols |-> << >>]
  /\ portfolio \in Portfolios

\* POST /risk/events
IngestEvent(s, p) ==
  /\ Len(prices[s]) < MaxEvents
  /\ prices' = [prices EXCEPT ![s] = Append(@, p)]
  /\ UNCHANGED portfolio

\* POST /risk/portfolio, or a portfolio that comes with POST /risk/compute
SetPortfolio ==
  /\ portfolio' \in Portfolios
  /\ UNCHANGED prices

Next == SetPortfolio \/ \E s \in Symbols, p \in Prices : IngestEvent(s, p)

Spec == Init /\ [][Next]_vars

-----------------------------------------------------------------------------
(* Properties: each metric against its definition.                         *)

Positive == \A s \in Symbols : 0 \notin ToSet(prices[s])

\* value_at_risk_95 is the quantile it is named for: it is one of the returns,
\* at most one part in TailParts of them are worse, and more are not better.
VarIsQuantile ==
  LET r == PortfolioReturns
      v == HistoricalVar(r)
  IN  r # << >> =>
        /\ v \in ToSet(r)
        /\ Cardinality({i \in DOMAIN r : r[i] < v}) * TailParts <= Len(r)
        /\ TailParts > 1 =>
             Cardinality({i \in DOMAIN r : r[i] <= v}) * TailParts > Len(r)

\* max_drawdown is the worst fall of the compounded value from any earlier value
\* to any later one, and 0 when it never falls.
DrawdownIsWorstFall ==
  LET r     == PortfolioReturns
      curve == EquityCurve(r)
      worst == MaxDrawdown(curve)
      falls == {Fall(curve[j], curve[i]) : <<i, j>> \in
                  {ij \in (DOMAIN curve) \X (DOMAIN curve) : ij[1] <= ij[2] /\ curve[ij[1]] > 0}}
  IN  ~DividesByZero(r) =>
        /\ \A f \in falls : LessEq(worst, f)
        /\ worst = <<0, 1>> \/ worst \in falls

\* For a portfolio of one position the compounded rolling return is the change of
\* the price over the window, however the returns in between went.
RollingTelescopes ==
  \A s \in DOMAIN portfolio :
    LET r == PortfolioReturns
        w == Len(Selected(r))
        p == prices[s]
    IN  (Positive /\ portfolio[s] = Total /\ r # << >> /\ Len(r) = Len(p) - 1) =>
          RollingGrowth(r) * p[Len(p) - w] = p[Len(p)] * One^w

\* The metrics that compound the returns: drawdown and rolling return.
CompoundedMetrics == DrawdownIsWorstFall /\ RollingTelescopes
=============================================================================
