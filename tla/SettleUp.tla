------------------------------ MODULE SettleUp ------------------------------
(***************************************************************************)
(* The run of simplify_debts, one iteration of its loop at a time.         *)
(***************************************************************************)
EXTENDS Debt

CONSTANT Balances          \* the balances it is called with

(* What net_balances returns: cents of finitely many users, which sum to   *)
(* zero; the users are compared as their ids are.                          *)
Ordered(users) ==
    \A u, v \in users :
        /\ UserLeq(u, v) \/ UserLeq(v, u)
        /\ UserLeq(u, v) /\ UserLeq(v, u) => u = v
        /\ \A w \in users : UserLeq(u, v) /\ UserLeq(v, w) => UserLeq(u, w)

Balanced(b) ==
    /\ IsFiniteSet(DOMAIN b)
    /\ Ordered(DOMAIN b)
    /\ \A u \in DOMAIN b : b[u] \in Int
    /\ SumFunction(b) = 0

ASSUME BalancesAssumption == \A b \in Balances : Balanced(b)

VARIABLES
    balances,              \* the argument
    st                     \* the local variables

settleVars == <<balances, st>>

SettleInit ==
    /\ balances \in Balances
    /\ st = Start(balances)

SettleNext ==
    /\ Running(st)
    /\ st' = Step(st)
    /\ UNCHANGED balances

SettleSpec == SettleInit /\ [][SettleNext]_settleVars

-----------------------------------------------------------------------------
Parties == {u \in DOMAIN balances : balances[u] # 0}

Paid(u) ==
    SumFunctionOnSet([i \in DOMAIN st.transfers |-> st.transfers[i].amount],
                     {i \in DOMAIN st.transfers : st.transfers[i].from = u})

Received(u) ==
    SumFunctionOnSet([i \in DOMAIN st.transfers |-> st.transfers[i].amount],
                     {i \in DOMAIN st.transfers : st.transfers[i].to = u})

(* When the loop ends everybody is settled to the cent, although it stops  *)
(* as soon as one of the two lists runs out, and n parties are settled     *)
(* with at most n - 1 transfers.                                           *)
SettlesEverybody ==
    /\ ~Running(st) => \A u \in DOMAIN balances : balances[u] + Paid(u) = Received(u)
    /\ Len(st.transfers) < Cardinality(Parties) \/ Parties = {}
=============================================================================
