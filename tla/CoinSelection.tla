--------------------------- MODULE CoinSelection ----------------------------
(***************************************************************************)
(* Weights, fees and the default coin selection of the tx crate.  Coins    *)
(* are records [id, value, wu] in a sequence, wu the weight of what        *)
(* satisfies the input; rates are in thousandths of a satoshi per virtual  *)
(* byte.                                                                   *)
(***************************************************************************)
EXTENDS Integers, Sequences, FiniteSets, FiniteSetsExt, SequencesExt

VBytes(wu) == (wu + 3) \div 4

FeeOf(wu, rate) == (VBytes(wu) * rate) \div 1000

\* Prevout, empty script and sequence of an input: 41 bytes.
PerInputFixedWu == 164

MaxCombined == 20       \* more coins than this are not combined
MaxCount == 253         \* from here a count takes two more bytes

SumOf(seq, Field(_)) == FoldLeft(LAMBDA sum, e : sum + Field(e), 0, seq)

EstimatedWeight(inputs, outputs) ==
    40 + 2
    + SumOf(inputs, LAMBDA c : PerInputFixedWu + c.wu)
    + SumOf(outputs, LAMBDA o : o.wu)
    + (IF Len(inputs) >= MaxCount THEN 8 ELSE 0)
    + (IF Len(outputs) >= MaxCount THEN 8 ELSE 0)

-----------------------------------------------------------------------------
InputFee(coin, rate) == FeeOf(PerInputFixedWu + coin.wu, rate)

DiscardDust(coins, rate) ==
    SelectSeq(coins, LAMBDA c : InputFee(c, rate) * 2 < c.value)

\* A selection is a set of indices; its number as a bit mask orders them.
Mask(S) == MapThenSumSet(LAMBDA i : 2^(i - 1), S)

Spendable(coins, rate, S) ==
    MapThenSumSet(LAMBDA i : coins[i].value - InputFee(coins[i], rate), S)

\* One selection for each spendable amount: the last one tried.
AllCombinations(coins, rate) ==
    LET all == SUBSET (DOMAIN coins) \ {{}}
        worth == [S \in all |-> Spendable(coins, rate, S)]
    IN  IF Len(coins) \notin 1..MaxCombined THEN {}
        ELSE {S \in all : \A T \in all :
                 worth[T] = worth[S] => Mask(T) <= Mask(S)}

\* The selection with the fewest inputs, among those the least spendable.
Fewest(coins, rate, sels) ==
    CHOOSE S \in sels : \A T \in sels \ {S} :
        \/ Cardinality(S) < Cardinality(T)
        \/ /\ Cardinality(S) = Cardinality(T)
           /\ Spendable(coins, rate, S) < Spendable(coins, rate, T)

Least(coins, rate, sels) ==
    {S \in sels : \A T \in sels :
        Spendable(coins, rate, S) <= Spendable(coins, rate, T)}

\* Tiers that end with a change of the wanted size.
TiersPreferred(coins, rate, target, minChange, maxChange, dust) ==
    LET all == AllCombinations(coins, rate)
        Within(lo, hi) ==
            {S \in all : Spendable(coins, rate, S) \in lo..(hi - 1)}
    IN  <<Least(coins, rate, Within(target, target + dust)),
          Within(target + minChange, target + maxChange)>>

\* The least change when one is too small to keep; else a change of the
\* wanted size; else a larger one; else anything that pays.
Tiers(coins, rate, target, minChange, maxChange, dust) ==
    LET all == AllCombinations(coins, rate)
        From(lo) == {S \in all : Spendable(coins, rate, S) >= lo}
    IN  <<Least(coins, rate, From(target) \ From(target + dust)),
          From(target + minChange) \ From(target + maxChange),
          From(target + maxChange),
          From(target)>>

\* The best selection of the first tier that has one.
FirstTier(kept, rate, tiers) ==
    IF tiers = <<>> THEN <<>>
    ELSE SetToSeq({kept[i] : i \in Fewest(kept, rate, Head(tiers))})

SelectKept(kept, target, rate, minChange, maxChange, dust) ==
    FirstTier(kept, rate,
              SelectSeq(Tiers(kept, rate, target, minChange, maxChange, dust),
                        LAMBDA t : t # {}))

Select(coins, target, rate, minChange, maxChange, dust) ==
    SelectKept(DiscardDust(coins, rate), target, rate, minChange, maxChange, dust)

\* The selector a builder has unless it is given another.
MinChange == 50000
MaxChange == 5000000
SelectorDust == 500

SelectCoins(coins, target, rate) ==
    Select(coins, target, rate, MinChange, MaxChange, SelectorDust)

-----------------------------------------------------------------------------
(* Coins are selected exactly when those worth more than twice their fee   *)
(* pay the target and a fee each, and what is selected pays the target and *)
(* the fee of its inputs taken together, when the rate is a whole number   *)
(* of satoshis per virtual byte.                                           *)
SelectionPays(coins, target, rate) ==
    LET picked == SelectCoins(coins, target, rate)
        kept == DiscardDust(coins, rate)
        ofInputs == SumOf(picked, LAMBDA c : PerInputFixedWu + c.wu)
    IN  /\ picked # <<>> <=>
             SumOf(kept, LAMBDA c : c.value - InputFee(c, rate)) >= target
             /\ kept # <<>>
        /\ picked # <<>> /\ rate % 1000 = 0 =>
             SumOf(picked, LAMBDA c : c.value)
               >= target + FeeOf(ofInputs, rate)
=============================================================================
