------------------------------- MODULE Entry -------------------------------
(***************************************************************************)
(* An expense on its way from the form to the balances: the amount is      *)
(* converted when it is in a foreign currency (_save of the form,          *)
(* convert_currency of api.rs), marshalled (convert.rs), validated and     *)
(* divided (build_fields of app.rs, split.rs), and settled up (debt.rs).   *)
(* It may then be reopened, by which time people may have left the group,  *)
(* and saved as it is.  The loops run one iteration at a time.             *)
(***************************************************************************)
EXTENDS SettleUp, Split, Money

CONSTANTS UserIds,           \* the user ids
          Inputs,          \* what may be entered
          Members          \* who may be in the group when it is reopened

(* What a form holds: an amount of 64 bits, lists of users with amounts or *)
(* weights, and the one payer of a foreign amount.                         *)
Form(form) ==
    /\ form.foreign \in BOOLEAN
    /\ form.amount \in Int /\ Fits(form.amount)
    /\ form.payers \in Seq(UserIds \X Int)
    /\ form.foreign => form.rate \in Int /\ form.payers # <<>>
    /\ \/ form.plan.kind = "equal"    /\ form.plan.participants \in Seq(UserIds)
       \/ form.plan.kind = "exact"    /\ form.plan.entries \in Seq(UserIds \X Int)
       \/ form.plan.kind = "weighted" /\ form.plan.entries \in Seq(UserIds \X Nat)

ASSUME EntryAssumption ==
    /\ Ordered(UserIds)
    /\ \A form \in Inputs : Form(form)
    /\ \A members \in Members : members \subseteq UserIds /\ IsFiniteSet(members)

VARIABLES
    input,             \* the form, or NoInput
    phase,             \* where the command stands
    total,             \* the total in the base currency
    sp,                \* the local variables of split_by_weights
    shares,            \* the splits computed
    first              \* history: the version reopened, or Unopened

entryVars == <<input, phase, total, sp, shares, first>>
vars == <<entryVars, settleVars>>

NoInput == [plan |-> [kind |-> "none"]]

Unopened == [honest |-> FALSE]

(* Either an expense is entered on an empty ledger, or a ledger there is   *)
(* already is settled up.                                                  *)
Init ==
  /\ first = Unopened
  /\ \/ /\ input \in Inputs
        /\ phase = IF input.foreign THEN "typed" ELSE "ready"
        /\ total = IF input.foreign THEN 0 ELSE input.amount
        /\ sp = <<>> /\ shares = <<>>
        /\ balances = <<>> /\ st = Start(balances)
     \/ /\ input = NoInput /\ phase = "idle" /\ total = 0
        /\ sp = <<>> /\ shares = <<>>
        /\ SettleInit

ValidRate(rate_micro) == rate_micro >= 0

(* The foreign amount becomes a total in the base currency; a negative     *)
(* rate is refused at the boundary.                                        *)
ConvertAmount ==
    /\ phase = "typed"
    /\ IF ValidRate(input.rate)
       THEN /\ phase' = "ready"
            /\ total' = Convert(input.amount, input.rate, input.from, input.to)
       ELSE phase' = "rejected" /\ UNCHANGED total
    /\ UNCHANGED <<input, sp, shares, first, settleVars>>

-----------------------------------------------------------------------------
(* Lists of pairs become maps: of two entries for one user the later wins. *)
Collected(pairs) ==
    [u \in {pairs[i][1] : i \in DOMAIN pairs} |->
        pairs[Max({i \in DOMAIN pairs : pairs[i][1] = u})][2]]

(* The values of a map, in the order of its keys.                          *)
Values(map) == [i \in DOMAIN InIdOrder(DOMAIN map) |-> map[InIdOrder(DOMAIN map)[i]]]

(* In a foreign currency a single payer covers the converted total.        *)
PaidBy == IF input.foreign
          THEN [u \in {input.payers[1][1]} |-> total]
          ELSE Collected(input.payers)

plan == input.plan
Entries == IF plan.kind = "equal" THEN plan.participants ELSE plan.entries

(* build_fields before it divides: the payments are added without a check. *)
PaymentsMatch == Wrap(Total(Values(PaidBy))) = total

PaymentsOk ==
    /\ total > 0
    /\ DOMAIN PaidBy # {}
    /\ PaymentsMatch

(* SplitPlan::compute: its panic and its errors.                           *)
PlanPanics == plan.kind = "exact" /\ ~AddsUp(Values(Collected(Entries)))

\* (mutated form: a weight of zero is an error)
PlanStrict ==
    /\ Entries # <<>>
    /\ plan.kind = "exact" => Total(Values(Collected(Entries))) = total
    /\ plan.kind = "weighted" => \A i \in DOMAIN Entries : Entries[i][2] > 0

PlanOk ==
    /\ Entries # <<>>
    /\ plan.kind = "exact" => Total(Values(Collected(Entries))) = total
    /\ plan.kind = "weighted" => TotalWeight(Collected(Entries)) > 0

Refuse == phase' = "rejected" /\ UNCHANGED <<input, total, sp, shares, first, settleVars>>
Panic  == phase' = "panicked" /\ UNCHANGED <<input, total, sp, shares, first, settleVars>>

Invalid ==
    /\ phase = "ready"
    /\ ~PaymentsOk \/ (~PlanPanics /\ ~PlanOk)
    /\ Refuse

SumPanics ==
    /\ phase = "ready" /\ PaymentsOk /\ PlanPanics
    /\ Panic

Divide ==
    /\ phase = "ready" /\ PaymentsOk /\ ~PlanPanics /\ PlanOk
    /\ IF plan.kind = "weighted"
       THEN /\ phase' = "dividing"
            /\ sp' = WeightedStart(total, Collected(Entries))
            /\ UNCHANGED shares
       ELSE /\ phase' = "divided"
            /\ shares' = IF plan.kind = "equal" THEN SplitEqual(total, Entries)
                         ELSE InShares(Collected(Entries))
            /\ UNCHANGED sp
    /\ UNCHANGED <<input, total, first, settleVars>>

(* The loop over the cents left over.                                      *)
GiveCent ==
    /\ phase = "dividing" /\ Handing(sp)
    /\ sp' = HandOut(sp)
    /\ UNCHANGED <<input, phase, total, shares, first, settleVars>>

Divided ==
    /\ phase = "dividing" /\ ~Handing(sp)
    /\ phase' = "divided"
    /\ shares' = InShares(sp.owed)
    /\ UNCHANGED <<input, total, sp, first, settleVars>>

-----------------------------------------------------------------------------
Owed == [i \in DOMAIN shares |-> shares[i].owed]

OwedBy(u) == SumFunctionOnSet(Owed, {i \in DOMAIN shares : shares[i].user = u})

(* ExpenseFields::is_balanced: both sums are checked, the second one only  *)
(* when the first agrees.                                                  *)
BalancePanics ==
    \/ ~AddsUp(Values(PaidBy))
    \/ Total(Values(PaidBy)) = total /\ ~AddsUp(Owed)

IsBalanced == Total(Values(PaidBy)) = total /\ Total(Owed) = total

BalanceCheckPanics ==
    /\ phase = "divided" /\ BalancePanics
    /\ Panic

Net ==
    [u \in DOMAIN PaidBy \cup {shares[i].user : i \in DOMAIN shares} |->
        (IF u \in DOMAIN PaidBy THEN PaidBy[u] ELSE 0) - OwedBy(u)]

(* The expense is recorded, and the balances are read and settled up.      *)
CheckBalance ==
    /\ phase = "divided" /\ ~BalancePanics
    /\ IF IsBalanced
       THEN phase' = "accepted" /\ balances' = Net /\ st' = Start(Net)
       ELSE phase' = "rejected" /\ UNCHANGED settleVars
    /\ UNCHANGED <<input, total, sp, shares, first>>

SettleStep == SettleNext /\ UNCHANGED entryVars

-----------------------------------------------------------------------------
(* What an honest form contains: each user once, positive payments that    *)
(* add up, and somebody to divide among.                                   *)
Once(pairs) == \A i, j \in DOMAIN pairs : pairs[i][1] = pairs[j][1] => i = j

ValidPlan ==
    /\ Entries # <<>>
    /\ plan.kind = "exact" =>
          /\ Once(Entries) /\ \A i \in DOMAIN Entries : Entries[i][2] >= 0
          /\ Total(Values(Collected(Entries))) = total
    /\ plan.kind = "weighted" =>
          Once(Entries) /\ \E i \in DOMAIN Entries : Entries[i][2] > 0

ValidPayments ==
    /\ total > 0
    /\ input.foreign \/
          /\ Once(input.payers) /\ \A i \in DOMAIN input.payers : input.payers[i][2] > 0
          /\ Total(Values(PaidBy)) = total

-----------------------------------------------------------------------------
(* The version recorded, and as it is viewed: the payers in a list.        *)
Version == [total |-> total, paid_by |-> PaidBy, splits |-> shares]

ListOf(map) == [i \in DOMAIN Values(map) |-> <<InIdOrder(DOMAIN map)[i], Values(map)[i]>>]

View(version) ==
    [total   |-> version.total,
     paid_by |-> ListOf(version.paid_by),
     splits  |-> version.splits]

\* (mutated form: two payers are taken for one)
SeveralOfThree(view) == Len(view.paid_by) > 2

SeveralPayers(view) == Len(view.paid_by) > 1

\* (mutated form: the payer is not filled in)
FirstMember(view, members) ==
    IF members = {} THEN view.paid_by[1][1] ELSE InIdOrder(members)[1]

(* A single payer who is no member any more is replaced.                   *)
SinglePayer(view, members) ==
    IF view.paid_by[1][1] \in members \/ members = {} THEN view.paid_by[1][1]
    ELSE InIdOrder(members)[1]

Added(users, share) ==
    IF Contains(users, share.user) THEN users ELSE Append(users, share.user)

(* The amounts filled in for several payers; those of members are read.    *)
StillPaying(view, members) ==
    LET typed == Collected(view.paid_by)
    IN  [u \in {m \in members \cap DOMAIN typed : typed[m] > 0} |-> typed[u]]

(* The form filled in: only members are offered as payers; it always       *)
(* starts with an equal split, in the base currency, among those who had a *)
(* share.                                                                  *)
Prefilled(view, members) ==
    [foreign |-> FALSE,
     amount  |-> view.total,
     payers  |-> IF SeveralPayers(view)
                 THEN ListOf(StillPaying(view, members))
                 ELSE <<<<SinglePayer(view, members), view.total>>>>,
     plan    |-> [kind |-> "equal",
                  participants |-> FoldLeft(Added, <<>>, view.splits)]]

(* The expense is reopened and saved untouched.                            *)
SaveAgain(members) ==
    /\ phase = "accepted" /\ ~Running(st) /\ first = Unopened
    /\ input' = Prefilled(View(Version), members)
    /\ phase' = "ready"
    /\ sp' = <<>> /\ shares' = <<>>
    /\ first' = [total |-> total, paid_by |-> PaidBy, splits |-> shares, plan |-> plan,
                  members |-> members, honest |-> ValidPayments /\ ValidPlan]
    /\ UNCHANGED <<total, settleVars>>

Next ==
    \/ ConvertAmount
    \/ Invalid
    \/ SumPanics
    \/ Divide
    \/ GiveCent
    \/ Divided
    \/ BalanceCheckPanics
    \/ CheckBalance
    \/ SettleStep
    \/ \E members \in Members : SaveAgain(members)

Spec == Init /\ [][Next]_vars /\ WF_vars(Next)

-----------------------------------------------------------------------------
(* SplitPlan::compute: "splits that always sum exactly to total", for      *)
(* every plan and every total that reaches it.                             *)
DivisionIsExact == phase \in {"divided", "accepted"} => Total(Owed) = total

(* Nobody's share is a cent or more away from its exact value, nobody gets *)
(* two of the cents left over, and who weighs more never pays less.        *)
SharesAreFair ==
    phase \in {"divided", "accepted"} =>
        /\ plan.kind = "equal" => \A i, j \in DOMAIN shares :
              i < j => shares[i].owed - shares[j].owed \in {0, 1}
        /\ plan.kind = "weighted" =>
              LET weights == Collected(Entries)
                  W == TotalWeight(weights)
              IN  \A u \in DOMAIN weights :
                     /\ Abs(W * sp.owed[u] - total * weights[u]) < W
                     /\ \A v \in DOMAIN weights :
                           weights[v] < weights[u] => sp.owed[v] <= sp.owed[u]

(* A form that adds up is never refused, and no sum overflows on the way.  *)
NothingValidRefused ==
    phase \in {"rejected", "panicked"} => ~(ValidPayments /\ ValidPlan)

(* A converted total is the nearest amount to the exact value, whatever    *)
(* the minor units of the two currencies, as long as that amount is a      *)
(* 64-bit one.  (A value half a cent above the largest one is rounded up   *)
(* and wraps.)                                                             *)
NearestTo(value, num, den) == 2 * Abs(value * den - num) <= den

ConvertedToNearest ==
    input # NoInput /\ phase \notin {"typed", "rejected"} /\ input.foreign =>
        LET num == input.amount * input.rate * 10^MinorUnits(input.to)
            den == RateScale * 10^MinorUnits(input.from)
        IN  2 * Abs(num) < (2 * MaxAmount + 1) * den => NearestTo(total, num, den)

(* Saving an expense untouched never changes its total, its payers, or     *)
(* how it was divided equally, and is not refused, as long as those who    *)
(* paid are still there.  (What was divided otherwise is divided equally.) *)
KeptByEditing ==
    first.honest /\ DOMAIN first.paid_by \subseteq first.members =>
        /\ phase \notin {"rejected", "panicked"}
        /\ phase = "accepted" =>
              /\ total = first.total /\ PaidBy = first.paid_by
              /\ first.plan.kind = "equal" /\ Len(shares) = Len(first.splits)
                    => shares = first.splits

(* Every loop ends: the expense is accepted or refused, and the ledger is  *)
(* settled.                                                                *)
Ended == phase \in {"idle", "accepted", "rejected", "panicked"} /\ ~Running(st)

Finishes == <>[]Ended
=============================================================================
