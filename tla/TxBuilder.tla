----------------------------- MODULE TxBuilder ------------------------------
(***************************************************************************)
(* The transaction builder of the tx crate: the template its calls fill,   *)
(* the fee and drain computation, the checks of a finished transaction,    *)
(* and the pay and sweep shorthands.                                       *)
(*                                                                         *)
(* An output is [amount, sat, wu, change]: amount is "value", "max" (the   *)
(* output that drains the wallet) or "anchor" (no value), wu its weight.   *)
(* Shuffling inputs and outputs changes no sum and is left out.            *)
(***************************************************************************)
EXTENDS CoinSelection

CONSTANTS
    Sources,        \* the wallets: sets of coins a builder may draw from
    Amounts,        \* amounts that can be sent
    Rates,          \* fee rates
    Fees,           \* absolute fees, 0 among them
    OutputWu,       \* weight of an output and of the change
    Dusts,          \* dust thresholds
    Wrap,           \* unsigned arithmetic is modulo this
    MaxSteps        \* calls on a builder

VARIABLES
    source,     \* the spendable coins
    tpl,        \* the template
    last,       \* the last call that made a transaction, and its result
    steps

bvars == <<source, tpl, last, steps>>

Output(amount, sat) ==
    [amount |-> amount, sat |-> sat, wu |-> OutputWu, change |-> FALSE]

ChangeOutput(sat) == [Output("value", sat) EXCEPT !.change = TRUE]

Feerate(rate) == [kind |-> "rate", n |-> rate]
Sats(n) == [kind |-> "sats", n |-> n]

NewTemplate(t) ==
    [t EXCEPT !.inputs = <<>>, !.outputs = <<>>, !.fees = Feerate(1000)]

Total(inputs) == SumOf(inputs, LAMBDA c : c.value)
Paid(outputs) == SumOf(outputs, LAMBDA o : o.sat)

-----------------------------------------------------------------------------
(* The fee, and what is left for the output that drains.                   *)

Minus(a, b) == (a - b) % Wrap
SaturatingMinus(a, b) == IF a > b THEN a - b ELSE 0

FeeFor(fees, wu) == IF fees.kind = "sats" THEN fees.n ELSE FeeOf(wu, fees.n)

NoDrain == -1

\* A fee that does not count the weight of the change.
ProcessFeesFree(fees, wo, with, sumIn, sumOut, drain, dust) ==
    LET allowance == sumIn - sumOut
        fee == FeeFor(fees, wo)
    IN  IF sumOut > sumIn THEN [error |-> "AddInput"]
        ELSE IF fee > allowance THEN [error |-> "NotEnoughForFee"]
        ELSE [error |-> "ok", fee |-> fee, drain |-> allowance - fee]

ProcessFees(fees, wo, with, sumIn, sumOut, drain, dust) ==
    LET allowance == sumIn - sumOut
        feeWo == FeeFor(fees, wo)
        feeWith == FeeFor(fees, with)
    IN  IF sumOut > sumIn THEN [error |-> "AddInput"]
        ELSE IF feeWo > allowance THEN [error |-> "NotEnoughForFee"]
        ELSE IF allowance - feeWo < dust \/ Minus(allowance, feeWith) < dust
        THEN [error |-> "ok", fee |-> allowance, drain |-> NoDrain]
        ELSE IF drain = "max"
        THEN [error |-> "ok", fee |-> feeWo, drain |-> allowance - feeWo]
        ELSE [error |-> "ok", fee |-> feeWith,
              drain |-> Minus(allowance, feeWith)]

-----------------------------------------------------------------------------
(* process_transaction: inputs are selected when the template has none.    *)

Maxed(t) == {i \in DOMAIN t.outputs : t.outputs[i].amount = "max"}

SelectInputs(t) ==
    IF Maxed(t) # {} THEN source
    ELSE SelectCoins(source, Paid(t.outputs)
                       + FeeOf(EstimatedWeight(<<>>, t.outputs), t.fees.n),
                     t.fees.n)

Failed(why) == [error |-> why]

\* A max output that gets nothing is a case the code calls unreachable.
Resolved(t, inputs, r) ==
    IF r.error # "ok" THEN Failed(r.error)
    ELSE IF Maxed(t) = {}
    THEN [error |-> "ok", inputs |-> inputs, fee |-> r.fee,
          outputs |-> t.outputs, change |-> r.drain]
    ELSE IF r.drain = NoDrain THEN Failed("panic")
    ELSE [error |-> "ok", inputs |-> inputs, fee |-> r.fee,
          outputs |-> [i \in DOMAIN t.outputs |->
                         IF i \in Maxed(t)
                         THEN [t.outputs[i] EXCEPT !.sat = r.drain]
                         ELSE t.outputs[i]],
          change |-> NoDrain]

Balance(t, inputs, wo) ==
    Resolved(t, inputs,
             ProcessFees(t.fees, wo, wo + OutputWu, Total(inputs),
                         Paid(t.outputs),
                         IF Maxed(t) # {} THEN "max" ELSE "change", t.dust))

Spend(t, inputs) ==
    IF t.fees.n = 0 THEN Failed("FeesNull")
    ELSE IF Cardinality(Maxed(t)) > 1 THEN Failed("SingleMax")
    ELSE IF t.inputs = <<>> /\ Maxed(t) = {} /\ t.fees.kind = "sats"
    THEN Failed("CoinSelectionRequiresFeerate")
    ELSE IF inputs = <<>> THEN Failed("CoinSelection")
    ELSE Balance(t, inputs, EstimatedWeight(inputs, t.outputs))

ProcessTransaction(t) ==
    Spend(t, IF t.inputs = <<>> THEN SelectInputs(t) ELSE t.inputs)

-----------------------------------------------------------------------------
(* generate: the change joins the outputs, and two checks.                 *)

HasChange(outputs) == \E i \in DOMAIN outputs : outputs[i].change

\* Whether more than dust would go to the fee for want of a change output.
MissingChange(t, inputs, outputs) ==
    LET fee == SaturatingMinus(Total(inputs), Paid(outputs))
        estimated == FeeFor(t.fees, EstimatedWeight(inputs, outputs))
    IN  /\ ~HasChange(outputs)
        /\ fee > t.dust
        /\ SaturatingMinus(fee, estimated) > t.dust

MaxFeePercent == 10
MaxFeeAmount == 2000000

Disproportionate(inputs, outputs) ==
    LET fee == SaturatingMinus(Total(inputs), Paid(outputs) % Wrap)
        toOthers == Paid(SelectSeq(outputs, LAMBDA o : ~o.change))
    IN  /\ toOthers # 0
        /\ fee > (toOthers * MaxFeePercent) \div 100
        /\ fee > MaxFeeAmount

Checked(t, res, outputs) ==
    IF res.change # NoDrain /\ HasChange(res.outputs)
    THEN Failed("ChangeAlreadyAdded")
    ELSE IF MissingChange(t, res.inputs, outputs) THEN Failed("MissingChange")
    ELSE IF Disproportionate(res.inputs, outputs)
    THEN Failed("DisproportionateFees")
    ELSE [error |-> "ok", inputs |-> res.inputs, outputs |-> outputs,
          fee |-> res.fee]

Finalize(t, res) ==
    IF res.error # "ok" THEN res
    ELSE Checked(t, res, IF res.change = NoDrain THEN res.outputs
                         ELSE Append(res.outputs, ChangeOutput(res.change)))

Generate(t) == Finalize(t, ProcessTransaction(t))

-----------------------------------------------------------------------------
(* pay and sweep: an output, the coins, a transaction, and its fee against *)
(* the rate asked for, over the weight without witnesses.                  *)

WithInputs(t, coins) ==
    [t EXCEPT !.inputs = @ \o SelectSeq(coins,
                LAMBDA c : c \notin ToSet(t.inputs))]

\* The coins of a template whose last output is out.
PayCoins(t, out, rate) ==
    IF t.inputs # <<>> THEN t.inputs
    ELSE IF out.amount = "max" THEN source
    ELSE SelectCoins(source, out.sat + FeeOf(EstimatedWeight(t.inputs, t.outputs), rate),
                     rate)

WithCoins(t, out, rate) == WithInputs(t, PayCoins(t, out, rate))

\* The template after the call.
PayTemplate(t, out, rate) ==
    WithCoins([t EXCEPT !.outputs = Append(@, out)], out, rate)

UnsignedWeight(inputs, outputs) ==
    40 + PerInputFixedWu * Len(inputs) + SumOf(outputs, LAMBDA o : o.wu)

AtRate(psbt, rate) ==
    IF psbt.error # "ok" THEN psbt
    ELSE IF FeeOf(UnsignedWeight(psbt.inputs, psbt.outputs), rate) > psbt.fee
    THEN Failed("CoinSelectionFee") ELSE psbt

PayResult(after, rate) ==
    IF after.inputs = <<>> THEN Failed("CoinSelection")
    ELSE AtRate(Generate(after), rate)

-----------------------------------------------------------------------------
(* The calls on one builder.                                               *)

Outputs ==
    {Output("value", n) : n \in Amounts} \cup {ChangeOutput(n) : n \in Amounts}
      \cup {Output("max", 0), Output("anchor", 0)}

\* The setters of a new builder: inputs, outputs, fee or feerate, dust.
Init ==
    /\ source \in Sources
    /\ tpl \in [inputs : {<<>>, <<source[1]>>, source},
                outputs : {<<>>} \cup {<<o>> : o \in Outputs},
                fees : {Feerate(r) : r \in Rates} \cup {Sats(n) : n \in Fees},
                dust : Dusts]
    /\ last = [call |-> "none"]
    /\ steps = 0

Step == steps < MaxSteps /\ steps' = steps + 1

Set(t) == tpl' = t /\ UNCHANGED <<source, last>>

AddInput(c) == Step /\ Set(WithInputs(tpl, <<c>>))

DrainInputs == Step /\ Set(WithInputs(tpl, source))

AddOutput(o) == Step /\ Set([tpl EXCEPT !.outputs = Append(@, o)])

\* simulate and generate read the template and leave it.
Build ==
    /\ Step
    /\ last' = [call |-> "generate", tpl |-> tpl,
                sim |-> ProcessTransaction(tpl), res |-> Generate(tpl)]
    /\ UNCHANGED <<source, tpl>>

Pay(sat, rate) ==
    /\ Step
    /\ tpl' = PayTemplate(NewTemplate(tpl), Output("value", sat), rate)
    /\ last' = [call |-> "pay", sat |-> sat, rate |-> rate, tpl |-> tpl',
                sim |-> ProcessTransaction(tpl'),
                res |-> PayResult(tpl', rate)]
    /\ UNCHANGED source

Sweep(rate) ==
    /\ Step
    /\ tpl' = PayTemplate(tpl, Output("max", 0), rate)
    /\ last' = [call |-> "sweep", rate |-> rate, tpl |-> tpl',
                sim |-> ProcessTransaction(tpl'),
                res |-> PayResult(tpl', rate)]
    /\ UNCHANGED source

Next ==
    \/ \E r \in Rates : Sweep(r)
    \/ \E c \in ToSet(source) : AddInput(c)
    \/ \E o \in Outputs : AddOutput(o)
    \/ DrainInputs \/ Build
    \/ \E n \in Amounts, r \in Rates : Pay(n, r)

Spec == Init /\ [][Next]_bvars

-----------------------------------------------------------------------------
Made == last.call # "none" /\ last.res.error = "ok"

\* What a change output costs at the template's rate.
ChangeCost ==
    LET wo == EstimatedWeight(last.res.inputs, last.tpl.outputs)
    IN  FeeFor(last.tpl.fees, wo + OutputWu) - FeeFor(last.tpl.fees, wo)

(* A transaction the builder returns spends what it says: its inputs are   *)
(* its outputs plus its fee, the fee covers the rate over the estimated    *)
(* weight, and no more than the dust threshold and the cost of a change    *)
(* output goes to the fee beyond it.  This is at rates where a change      *)
(* output costs no more than the threshold.                                *)
TransactionBalances ==
    Made /\ ChangeCost <= last.tpl.dust =>
        LET needed == FeeFor(last.tpl.fees,
                             EstimatedWeight(last.res.inputs,
                                             last.res.outputs))
        IN  /\ Total(last.res.inputs)
                 = Paid(last.res.outputs) + last.res.fee
            /\ last.res.fee >= needed
            /\ last.res.fee - needed <= last.tpl.dust + ChangeCost

(* A payment is the same whatever calls were made on the builder before:   *)
(* no input, output or fee of an earlier transaction gets into it.         *)
PayForgetsHistory ==
    last.call = "pay" =>
        last.tpl = PayTemplate([inputs |-> <<>>, outputs |-> <<>>,
                                fees |-> Feerate(1000),
                                dust |-> last.tpl.dust],
                               Output("value", last.sat), last.rate)
=============================================================================
