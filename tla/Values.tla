-------------------------------- MODULE Values --------------------------------
(***************************************************************************)
(* Two computations on amounts: the conversion between a decimal amount    *)
(* and minor units (Money), and the merging of an account's balance rows   *)
(* into one record per currency.                                           *)
(*                                                                         *)
(* A decimal amount is its sign, its whole part and the digits after the   *)
(* point.  Minor units are a JavaScript number, a double: integers from    *)
(* MaxExact on, which is 2^53, are rounded to the next double.  Overflow   *)
(* to infinity, which is refused, is left out.                             *)
(***************************************************************************)
EXTENDS Integers, Sequences

CONSTANTS
    Wholes,      \* whole parts
    FracDigits,  \* digits after the point
    MaxFraction, \* most digits after the point
    MaxExact,    \* all integers below are doubles
    Amounts,     \* amounts of balance rows
    Currencies   \* those of the balance rows

CURRENCY_MINOR_UNITS == [USD |-> 2, EUR |-> 2, GBP |-> 2, CAD |-> 2, AUD |-> 2, JPY |-> 0]

ASSUME ValuesAssumption ==
    /\ Wholes \subseteq Nat /\ 0 \in Wholes
    /\ FracDigits \subseteq 0..9 /\ MaxFraction \in Nat
    /\ MaxExact \in Nat \ {0}
    /\ Currencies \subseteq DOMAIN CURRENCY_MINOR_UNITS

VARIABLES
    decimal,  \* the amount being converted
    balances  \* an account's rows of account_balances, as the query returns them

valueVars == <<decimal, balances>>

-----------------------------------------------------------------------------
\* Money

Refused == [refused |-> TRUE]

Number(digits) ==
    LET value[n \in 0..Len(digits)] == IF n = 0 THEN 0 ELSE 10 * value[n - 1] + digits[n]
    IN  value[Len(digits)]

Zeros(n) == [i \in 1..n |-> 0]

\* Zeros on the wrong side.
padEnd_AtStart(digits, decimals) == Zeros(decimals - Len(digits)) \o digits

\* The fraction filled up to `decimals` digits; longer ones are refused.
padEnd(digits, decimals) == digits \o Zeros(decimals - Len(digits))

\* The double next to n: their gap doubles with n, and of two the even one is taken.
Double(n) ==
    IF n < MaxExact THEN n
    ELSE LET gap  == 2^(CHOOSE k \in 1..n : MaxExact * 2^(k - 1) <= n /\ n < MaxExact * 2^k)
             down == n \div gap
             over == 2 * (n % gap)
             up   == over > gap \/ (over = gap /\ down % 2 = 1)
         IN  gap * (IF up THEN down + 1 ELSE down)

fromMajor(amount, currency) ==
    LET decimals == CURRENCY_MINOR_UNITS[currency]
        sign     == IF amount.negative THEN -1 ELSE 1
        minor    == sign * Double(Double(Double(amount.whole) * 10^decimals)
                                    + Number(padEnd(amount.fraction, decimals)))
    IN  IF Len(amount.fraction) > decimals \/ minor < 0 THEN Refused
        ELSE [refused |-> FALSE, minor |-> minor]

\* The digits of n < 10^decimals.
DigitsOf(n, decimals) == [i \in 1..decimals |-> (n \div 10^(decimals - i)) % 10]

toMajorString(minor, currency) ==
    LET decimals == CURRENCY_MINOR_UNITS[currency] IN
    [negative |-> FALSE, whole |-> minor \div 10^decimals,
     fraction |-> DigitsOf(minor % 10^decimals, decimals)]

-----------------------------------------------------------------------------
\* mergeBalanceRecords

BalanceTypes == {"available", "current", "other"}

BalanceField == [available |-> "availableMinor", current |-> "currentMinor"]

NewRecord(row) == [availableMinor |-> 0, currentMinor |-> 0, asOf |-> row.asOf]

With(record, row) ==
    LET dated == [record EXCEPT !.asOf = IF row.asOf > @ THEN row.asOf ELSE @] IN
    IF row.balanceType \notin DOMAIN BalanceField THEN dated
    ELSE [dated EXCEPT ![BalanceField[row.balanceType]] = row.amountMinor]

\* Every row starts a new record.
MergeRow_Fresh(byCurrency, row) == [byCurrency EXCEPT ![row.currency] = With(NewRecord(row), row)]

\* Currencies without a record yet map to no record at all: [none |-> TRUE].
MergeRow(byCurrency, row) ==
    [byCurrency EXCEPT ![row.currency] =
        With(IF "none" \in DOMAIN @ THEN NewRecord(row) ELSE @, row)]

mergeBalanceRecords(rows) ==
    LET merged[n \in 0..Len(rows)] == IF n = 0 THEN [c \in Currencies |-> [none |-> TRUE]]
                                      ELSE MergeRow(merged[n - 1], rows[n])
    IN  merged[Len(rows)]

-----------------------------------------------------------------------------
\* The inputs.

Decimals == [negative: BOOLEAN, whole: Wholes,
             fraction: UNION {[1..n -> FracDigits] : n \in 0..MaxFraction}]

BalanceRow == [balanceType: BalanceTypes, currency: Currencies, amountMinor: Amounts,
               asOf: {1, 2}]

\* The client sends another amount.
TakeAmount ==
    /\ decimal' \in Decimals
    /\ UNCHANGED balances

\* A row is written; an account has one row of a type, and rows come in any order.
WriteBalance(row) ==
    /\ \A i \in DOMAIN balances : balances[i].balanceType # row.balanceType
    /\ \E i \in 0..Len(balances) :
          balances' = SubSeq(balances, 1, i) \o <<row>> \o SubSeq(balances, i + 1, Len(balances))
    /\ UNCHANGED decimal

ValuesInit == /\ decimal = [negative |-> FALSE, whole |-> 0, fraction |-> << >>]
              /\ balances = << >>

\* One kind of input at a time.
ValuesNext ==
    \/ balances = << >> /\ TakeAmount
    \/ \E row \in BalanceRow :
          decimal.whole = 0 /\ decimal.fraction = << >> /\ WriteBalance(row)

ValuesSpec == ValuesInit /\ [][ValuesNext]_valueVars

-----------------------------------------------------------------------------
\* Properties.

\* Inputs have their types.
ValuesTypeOK == decimal \in Decimals /\ Len(balances) <= 3

\* A decimal amount of less than MaxExact minor units is accepted exactly if it is a
\* non-negative number of them; what it becomes is equal to it as a number, and is
\* written back as the same number.
MoneyIsExact ==
    \A currency \in DOMAIN CURRENCY_MINOR_UNITS :
        LET units == 10^CURRENCY_MINOR_UNITS[currency]
            scale == 10^Len(decimal.fraction)
            value == decimal.whole * scale + Number(decimal.fraction)  \* times 1/scale
            money == fromMajor(decimal, currency)
        IN  value * units < MaxExact * scale =>
            /\ ~money.refused =>
                  /\ money.minor * scale = value * units
                  /\ fromMajor(toMajorString(money.minor, currency), currency) = money
            /\ money.refused <=> \/ Len(decimal.fraction) > CURRENCY_MINOR_UNITS[currency]
                                 \/ decimal.negative /\ value > 0

\* No amount is lost or moved by merging, in whatever order the rows come: the record
\* of a currency has the amounts of its rows, zero where there is none, and the
\* latest date among them; a currency without rows has no record.
BalancesMergeWhole ==
    \A c \in Currencies :
        LET rows   == {balances[i] : i \in {j \in DOMAIN balances : balances[j].currency = c}}
            record == mergeBalanceRecords(balances)[c]
            Amount(type) == IF \E r \in rows : r.balanceType = type
                            THEN (CHOOSE r \in rows : r.balanceType = type).amountMinor ELSE 0
        IN  IF rows = {} THEN record = [none |-> TRUE]
            ELSE /\ record.availableMinor = Amount("available")
                 /\ record.currentMinor = Amount("current")
                 /\ record.asOf \in {r.asOf : r \in rows}
                 /\ \A r \in rows : r.asOf <= record.asOf

=============================================================================
