---------------------- MODULE SetUpAndPausing_proofs ----------------------
(***************************************************************************)
(* Proofs about how the core is set up and how it is stopped.              *)
(*                                                                         *)
(* Deployment: the chain only grows, and what the script has been told is  *)
(* done is on it (the inductive invariant SetUpInv); hence what the file   *)
(* vouches for, and that a run resumed at a spent one-shot call is lost.   *)
(*                                                                         *)
(* PausingManager: the cache never hides a write (the inductive invariant  *)
(* IInv), what follows for the answers the contracts get, and that the     *)
(* caching contract implements PauseRegister.                              *)
(*                                                                         *)
(* The two components share no variable: step 2 deploys the manager that   *)
(* PausingManager follows from there on.                                   *)
(***************************************************************************)
EXTENDS PausingManager, Deployment, SequenceTheorems, TLAPS

-----------------------------------------------------------------------------
(***************************************************************************)
(* The chain.  It only grows: whatever is done stays done.                 *)
(***************************************************************************)
Withs == UNION {[A -> Nat] : A \in SUBSET Contracts}

Instance == [with : Withs, init : Nat]

IsChain(c) ==
  /\ DOMAIN c = {"made", "registered", "settings", "offered", "claimed"}
  /\ c.made \in [Contracts -> Seq(Instance)]
  /\ c.registered \subseteq Nat \X Contracts \X Nat
  /\ c.offered \subseteq Contracts \X Nat /\ c.claimed \subseteq Contracts \X Nat

Grows(nw, c, d) ==
  /\ \A x \in Contracts :
       /\ Len(c.made[x]) <= Len(d.made[x])
       /\ \A k \in 1 .. Len(c.made[x]) :
            /\ d.made[x][k].with = c.made[x][k].with
            /\ c.made[x][k].init # 0 => d.made[x][k].init = c.made[x][k].init
  /\ c.registered \subseteq d.registered /\ c.settings \subseteq d.settings
  /\ c.claimed \subseteq d.claimed
  /\ MultisigIsDeployer(nw) \/ c.offered \cup c.claimed \subseteq d.offered \cup d.claimed

Txs(nw) == [op : OperationsOf(nw), at : Withs]

\* A transaction that the script can have sent.
GoodTx(nw, tx, c) ==
  /\ tx \in Txs(nw) /\ IsOperation(tx.op)
  /\ tx.at \in [tx.op.args \cup {tx.op.on} -> Nat]
  /\ \A x \in Uses(tx.op) : Exists(c, x, tx.at[x])

LEMMA ExistsIs ==
  ASSUME NEW c, IsChain(c), NEW x \in Contracts, NEW n
  PROVE  Exists(c, x, n) <=> n \in 1 .. Len(c.made[x])
<1>1. c.made[x] \in Seq(Instance)
  BY DEF IsChain
<1> QED
  BY <1>1 DEF Exists

\* A new instance of x, or one initialised; the others are what they were.
Constructed(c, tx, d, x) ==
  /\ x \in Contracts
  /\ \A y \in Contracts \ {x} : d.made[y] = c.made[y]
  /\ DOMAIN d = DOMAIN c /\ d.made \in [Contracts -> Seq(Instance)]
  /\ Len(c.made[x]) \in Nat /\ Len(d.made[x]) = Len(c.made[x]) + 1
  /\ \A k \in 1 .. Len(c.made[x]) : d.made[x][k] = c.made[x][k]
  /\ d.made[x][Len(c.made[x]) + 1].with = [a \in tx.op.args |-> tx.at[a]]
  /\ d.made[x][Len(c.made[x]) + 1].init = 0
  /\ d.registered = c.registered /\ d.settings = c.settings
  /\ d.offered = c.offered /\ d.claimed = c.claimed

Initialized(c, tx, d, x, n) ==
  /\ x \in Contracts
  /\ \A y \in Contracts \ {x} : d.made[y] = c.made[y]
  /\ DOMAIN d = DOMAIN c /\ d.made \in [Contracts -> Seq(Instance)]
  /\ n \in 1 .. Len(c.made[x]) /\ Len(d.made[x]) = Len(c.made[x])
  /\ \A k \in 1 .. Len(c.made[x]) :
       /\ d.made[x][k].with = c.made[x][k].with
       /\ k # n => d.made[x][k] = c.made[x][k]
  /\ \A a \in tx.op.args : d.made[x][n].init = tx.at[a]
  /\ d.registered = c.registered /\ d.settings = c.settings
  /\ d.offered = c.offered /\ d.claimed = c.claimed

\* The other calls: what is the same, and what is new.
Added(c, tx, d) ==
  /\ tx.op.on = Data
  /\ DOMAIN d = DOMAIN c /\ d.made = c.made /\ d.settings = c.settings
  /\ d.offered = c.offered /\ d.claimed = c.claimed
  /\ d.registered = c.registered \cup {<<tx.at[Data], a, tx.at[a]>> : a \in tx.op.args}

HasSet(c, tx, d) ==
  /\ DOMAIN d = DOMAIN c /\ d.made = c.made /\ d.registered = c.registered
  /\ d.offered = c.offered /\ d.claimed = c.claimed
  /\ d.settings = c.settings \cup {<<tx.op.on, tx.at[tx.op.on], tx.op.key>>}

Transferred(c, tx, d) ==
  /\ DOMAIN d = DOMAIN c /\ d.made = c.made /\ d.registered = c.registered
  /\ d.settings = c.settings /\ d.claimed = c.claimed
  /\ d.offered = c.offered \cup {<<tx.op.on, tx.at[tx.op.on]>>}

LEMMA ConstructForm ==
  ASSUME NEW nw, NEW c, IsChain(c), NEW tx, GoodTx(nw, tx, c),
         NEW d, d = Construct(c, tx), NEW x, x = tx.op.on
  PROVE  Constructed(c, tx, d, x)
<1> DEFINE new == [with |-> [a \in tx.op.args |-> tx.at[a]], init |-> 0]
<1>1. x \in Contracts /\ tx.op.args \subseteq Contracts
  BY DEF GoodTx, IsOperation
<1>2. [a \in tx.op.args |-> tx.at[a]] \in [tx.op.args -> Nat]
  BY DEF GoodTx
<1>3. new \in Instance
  BY <1>1, <1>2 DEF Instance, Withs
<1>4. c.made[x] \in Seq(Instance) /\ c.made \in [Contracts -> Seq(Instance)]
  BY <1>1 DEF IsChain
<1>5. d = [c EXCEPT !.made = [c.made EXCEPT ![x] = Append(c.made[x], new)]]
  BY DEF Construct
<1> HIDE DEF new
<1>6. /\ Append(c.made[x], new) \in Seq(Instance)
      /\ Len(Append(c.made[x], new)) = Len(c.made[x]) + 1 /\ Len(c.made[x]) \in Nat
      /\ \A k \in 1 .. Len(c.made[x]) : Append(c.made[x], new)[k] = c.made[x][k]
      /\ Append(c.made[x], new)[Len(c.made[x]) + 1] = new
  BY <1>3, <1>4
<1>7. /\ DOMAIN d = DOMAIN c /\ d.made = [c.made EXCEPT ![x] = Append(c.made[x], new)]
      /\ d.registered = c.registered /\ d.settings = c.settings
      /\ d.offered = c.offered /\ d.claimed = c.claimed
  BY <1>5 DEF IsChain
<1>8. d.made \in [Contracts -> Seq(Instance)] /\ d.made[x] = Append(c.made[x], new)
      /\ \A y \in Contracts \ {x} : d.made[y] = c.made[y]
  BY <1>1, <1>4, <1>6, <1>7
<1>10. new.with = [a \in tx.op.args |-> tx.at[a]] /\ new.init = 0
  BY DEF new
<1> HIDE DEF new
<1>11. Len(c.made[x]) \in Nat /\ Len(d.made[x]) = Len(c.made[x]) + 1
  BY <1>1, <1>6, <1>8
<1>12. /\ \A k \in 1 .. Len(c.made[x]) : d.made[x][k] = c.made[x][k]
       /\ d.made[x][Len(c.made[x]) + 1] = new
  BY <1>1, <1>6, <1>8
<1> QED
  BY <1>1, <1>7, <1>8, <1>10, <1>11, <1>12 DEF Constructed

LEMMA InitializeForm ==
  ASSUME NEW nw, NEW c, IsChain(c), NEW tx, GoodTx(nw, tx, c), tx.op.kind = "initialize",
         NEW d, d = RunInitialize(c, tx), NEW x, x = tx.op.on, NEW n, n = tx.at[x]
  PROVE  Initialized(c, tx, d, x, n)
<1> DEFINE v == tx.at[CHOOSE a \in tx.op.args : TRUE]
<1>1. x \in Contracts /\ tx.op.args \subseteq Contracts
  BY DEF GoodTx, IsOperation
<1>2. PICK b \in tx.op.args : tx.op = Initialize(x, b)
  BY DEF GoodTx, IsOperation
<1>3. tx.op.args = {b}
  BY <1>2 DEF Initialize, Operation
<1>4. v = tx.at[b] /\ v \in Nat /\ \A a \in tx.op.args : tx.at[a] = v
  BY <1>3 DEF GoodTx
<1>5. c.made[x] \in Seq(Instance) /\ c.made \in [Contracts -> Seq(Instance)]
  BY <1>1 DEF IsChain
<1>6. n \in 1 .. Len(c.made[x])
  BY <1>1, ExistsIs DEF GoodTx, Uses
<1>7. d = [c EXCEPT !.made = [c.made EXCEPT ![x] = [c.made[x] EXCEPT ![n] = [c.made[x][n] EXCEPT !.init = v]]]]
  BY DEF RunInitialize
<1> HIDE DEF v
<1> DEFINE new == [c.made[x][n] EXCEPT !.init = v]
           row == [c.made[x] EXCEPT ![n] = new]
<1>8. c.made[x][n] \in Instance
  BY <1>5, <1>6
<1>9. new \in Instance /\ new.init = v /\ new.with = c.made[x][n].with
  BY <1>4, <1>8 DEF Instance
<1> HIDE DEF new
<1>10. row \in Seq(Instance) /\ Len(row) = Len(c.made[x]) /\ row[n] = new
       /\ \A k \in 1 .. Len(c.made[x]) : k # n => row[k] = c.made[x][k]
  <2>1. PICK old : old = c.made[x]
    OBVIOUS
  <2>2. old \in Seq(Instance) /\ n \in 1 .. Len(old) /\ new \in Instance
    BY <1>5, <1>6, <1>9, <2>1
  <2>3. /\ [old EXCEPT ![n] = new] \in Seq(Instance)
        /\ Len([old EXCEPT ![n] = new]) = Len(old) /\ [old EXCEPT ![n] = new][n] = new
        /\ \A k \in 1 .. Len(old) : k # n => [old EXCEPT ![n] = new][k] = old[k]
    BY <2>2
  <2> QED
    BY <2>1, <2>3
<1>11. /\ DOMAIN d = DOMAIN c /\ d.made = [c.made EXCEPT ![x] = row]
      /\ d.registered = c.registered /\ d.settings = c.settings
      /\ d.offered = c.offered /\ d.claimed = c.claimed
  BY <1>7 DEF IsChain, new
<1> HIDE DEF row
<1>12. d.made \in [Contracts -> Seq(Instance)] /\ d.made[x] = row
      /\ \A y \in Contracts \ {x} : d.made[y] = c.made[y]
  BY <1>1, <1>5, <1>10, <1>11
<1>14. \A k \in 1 .. Len(c.made[x]) : d.made[x][k].with = c.made[x][k].with
  BY <1>9, <1>10, <1>12
<1> QED
  BY <1>1, <1>4, <1>6, <1>9, <1>10, <1>11, <1>12, <1>14 DEF Initialized

LEMMA AddForm ==
  ASSUME NEW nw, NEW c, IsChain(c), NEW tx, GoodTx(nw, tx, c), tx.op.kind = "add",
         NEW d, d = RunAdd(c, tx)
  PROVE  Added(c, tx, d)
<1>1. PICK a \in tx.op.args : tx.op = AddForge(a)
  BY DEF GoodTx, IsOperation
<1>2. tx.op.on = Data
  BY <1>1 DEF AddForge, Operation
<1> DEFINE new == {<<tx.at[Data], b, tx.at[b]>> : b \in tx.op.args}
<1>3. d = [c EXCEPT !.registered = c.registered \cup new]
  BY DEF RunAdd
<1> HIDE DEF new
<1>4. DOMAIN d = DOMAIN c /\ d.made = c.made /\ d.settings = c.settings
      /\ d.offered = c.offered /\ d.claimed = c.claimed /\ d.registered = c.registered \cup new
  BY <1>3 DEF IsChain
<1> QED
  BY <1>2, <1>4 DEF new, Added

LEMMA SetForm ==
  ASSUME NEW c, IsChain(c), NEW tx, NEW d, d = RunSet(c, tx)
  PROVE  HasSet(c, tx, d)
BY DEF RunSet, IsChain, HasSet

LEMMA TransferForm ==
  ASSUME NEW c, IsChain(c), NEW tx, NEW d, d = RunTransfer(c, tx)
  PROVE  Transferred(c, tx, d)
BY DEF RunTransfer, IsChain, Transferred

\* What mining a transaction may do.
MinedCases(c, tx, d) ==
  \/ ~Succeeds(c, tx) /\ d = c
  \/ /\ Succeeds(c, tx)
     /\ \/ tx.op.kind = "deploy" /\ Constructed(c, tx, d, tx.op.on)
        \/ /\ tx.op.kind = "initialize" /\ CanInitialize(c, tx)
           /\ Initialized(c, tx, d, tx.op.on, tx.at[tx.op.on])
        \/ tx.op.kind = "add" /\ CanAdd(c, tx) /\ Added(c, tx, d)
        \/ tx.op.kind = "set" /\ CanSet(c, tx) /\ HasSet(c, tx, d)
        \/ /\ tx.op.kind = "transfer" /\ onlyGovernance(c, tx.op.on, tx.at[tx.op.on])
           /\ Transferred(c, tx, d)

LEMMA MinedIs ==
  ASSUME NEW nw, NEW c, IsChain(c), NEW tx, GoodTx(nw, tx, c), NEW d, d = Mined(c, tx)
  PROVE  MinedCases(c, tx, d)
<1>1. CASE ~Succeeds(c, tx)
  BY <1>1 DEF Mined, MinedCases
<1>2. CASE Succeeds(c, tx)
  <2>0. d = Effect(c, tx) /\ tx.op.kind \in Kinds
    BY <1>2 DEF Mined, GoodTx, IsOperation
  <2>1. CASE tx.op.kind = "deploy"
    <3>1. d = Construct(c, tx)
      BY <2>0, <2>1 DEF Effect
    <3>2. Constructed(c, tx, d, tx.op.on)
      BY <3>1, ConstructForm, ZenonT(60)
    <3> QED
      BY <1>2, <2>1, <3>2 DEF MinedCases
  <2>2. CASE tx.op.kind = "initialize"
    <3>1. d = RunInitialize(c, tx)
      BY <2>0, <2>2 DEF Effect
    <3>2. Initialized(c, tx, d, tx.op.on, tx.at[tx.op.on])
      BY <2>2, <3>1, InitializeForm, ZenonT(60)
    <3>3. CanInitialize(c, tx)
      BY <1>2, <2>2 DEF Succeeds
    <3> QED
      BY <1>2, <2>2, <3>2, <3>3 DEF MinedCases
  <2>3. CASE tx.op.kind = "add"
    <3>1. d = RunAdd(c, tx) /\ CanAdd(c, tx)
      BY <1>2, <2>0, <2>3 DEF Effect, Succeeds
    <3>2. Added(c, tx, d)
      BY <2>3, <3>1, AddForm, ZenonT(60)
    <3> QED
      BY <1>2, <2>3, <3>1, <3>2 DEF MinedCases
  <2>4. CASE tx.op.kind = "set"
    <3>1. d = RunSet(c, tx) /\ CanSet(c, tx)
      BY <1>2, <2>0, <2>4 DEF Effect, Succeeds
    <3>2. HasSet(c, tx, d)
      BY <3>1, SetForm, ZenonT(60)
    <3> QED
      BY <1>2, <2>4, <3>1, <3>2 DEF MinedCases
  <2>5. CASE tx.op.kind = "transfer"
    <3>1. d = RunTransfer(c, tx) /\ onlyGovernance(c, tx.op.on, tx.at[tx.op.on])
      BY <1>2, <2>0, <2>5 DEF Effect, Succeeds
    <3>2. Transferred(c, tx, d)
      BY <3>1, TransferForm, ZenonT(60)
    <3> QED
      BY <1>2, <2>5, <3>1, <3>2 DEF MinedCases
  <2> QED
    BY <2>0, <2>1, <2>2, <2>3, <2>4, <2>5 DEF Kinds
<1> QED
  BY <1>1, <1>2

(* What a mined transaction leaves behind is there for good, as far as the *)
(* contracts of the deployer go.                                           *)
LEMMA MinedGrows ==
  ASSUME NEW nw, NEW c, IsChain(c), NEW tx, GoodTx(nw, tx, c), NEW d, MinedCases(c, tx, d)
  PROVE  IsChain(d) /\ Grows(nw, c, d)
<1>0. /\ tx.op.on \in Contracts /\ tx.op.args \subseteq Contracts
      /\ tx.at[tx.op.on] \in Nat /\ \A a \in tx.op.args : tx.at[a] \in Nat
  BY DEF GoodTx, IsOperation
<1>9. \A x \in Contracts : c.made[x] \in Seq(Instance) /\ Len(c.made[x]) \in Nat
  BY DEF IsChain
<1>1. CASE d = c
  BY <1>1, <1>9 DEF Grows
<1>2. CASE Constructed(c, tx, d, tx.op.on)
  <2> PICK x \in Contracts : x = tx.op.on
    BY <1>0
  <2>1. Constructed(c, tx, d, x)
    BY <1>2
  <2>2. IsChain(d)
    BY <2>1 DEF IsChain, Constructed
  <2>3. ASSUME NEW y \in Contracts
        PROVE  /\ Len(c.made[y]) <= Len(d.made[y])
               /\ \A k \in 1 .. Len(c.made[y]) :
                    /\ d.made[y][k].with = c.made[y][k].with
                    /\ c.made[y][k].init # 0 => d.made[y][k].init = c.made[y][k].init
    <3>1. CASE y # x
      <4>1. d.made[y] = c.made[y]
        BY <2>1, <3>1 DEF Constructed
      <4> QED
        BY <1>9, <4>1
    <3>2. CASE y = x
      <4>1. Len(c.made[x]) <= Len(d.made[x])
        <5>1. Len(c.made[x]) \in Nat /\ Len(d.made[x]) = Len(c.made[x]) + 1
          BY <2>1 DEF Constructed
        <5>2. \A m \in Nat : \A n : n = m + 1 => m <= n
          OBVIOUS
        <5> QED
          BY <5>1, <5>2, Zenon
      <4>2. \A k \in 1 .. Len(c.made[x]) : d.made[x][k] = c.made[x][k]
        BY <2>1 DEF Constructed
      <4> QED
        BY <3>2, <4>1, <4>2, ZenonT(60)
    <3> QED
      BY <3>1, <3>2
  <2> QED
    BY <2>1, <2>2, <2>3 DEF Grows, Constructed
<1>3. CASE CanInitialize(c, tx) /\ Initialized(c, tx, d, tx.op.on, tx.at[tx.op.on])
  <2> PICK x \in Contracts, n \in Nat : x = tx.op.on /\ n = tx.at[x]
    BY <1>0
  <2>1. Initialized(c, tx, d, x, n)
    BY <1>3
  <2>2. c.made[x][n].init = 0
    BY <1>3 DEF CanInitialize, initialized
  <2>3. IsChain(d)
    BY <2>1 DEF IsChain, Initialized
  <2>4. /\ \A y \in Contracts \ {x} : d.made[y] = c.made[y]
        /\ Len(d.made[x]) = Len(c.made[x])
        /\ \A k \in 1 .. Len(c.made[x]) :
             /\ d.made[x][k].with = c.made[x][k].with
             /\ k # n => d.made[x][k] = c.made[x][k]
    BY <2>1 DEF Initialized
  <2>5. ASSUME NEW y \in Contracts
        PROVE  /\ Len(c.made[y]) <= Len(d.made[y])
               /\ \A k \in 1 .. Len(c.made[y]) :
                    /\ d.made[y][k].with = c.made[y][k].with
                    /\ c.made[y][k].init # 0 => d.made[y][k].init = c.made[y][k].init
    <3>1. CASE y # x
      <4>1. d.made[y] = c.made[y]
        BY <2>4, <3>1
      <4> QED
        BY <1>9, <4>1
    <3>2. CASE y = x
      <4>1. Len(c.made[x]) <= Len(d.made[x])
        BY <1>9, <2>4
      <4>2. ASSUME NEW k \in 1 .. Len(c.made[x]), c.made[x][k].init # 0
            PROVE  d.made[x][k].init = c.made[x][k].init
        BY <2>2, <2>4, <4>2, ZenonT(60)
      <4> QED
        BY <2>4, <3>2, <4>1, <4>2, ZenonT(60)
    <3> QED
      BY <3>1, <3>2
  <2> QED
    BY <2>1, <2>3, <2>5 DEF Grows, Initialized
<1>4. CASE tx.op.kind = "add" /\ Added(c, tx, d)
  <2>1. IsChain(d)
    BY <1>0, <1>4 DEF IsChain, Added
  <2> QED
    BY <1>4, <1>9, <2>1 DEF Grows, Added
<1>5. CASE HasSet(c, tx, d)
  <2>1. IsChain(d)
    BY <1>5 DEF IsChain, HasSet
  <2> QED
    BY <1>5, <1>9, <2>1 DEF Grows, HasSet
<1>6. CASE Transferred(c, tx, d)
  <2>1. IsChain(d)
    BY <1>0, <1>6 DEF IsChain, Transferred
  <2> QED
    BY <1>6, <1>9, <2>1 DEF Grows, Transferred
<1> QED
  BY <1>1, <1>2, <1>3, <1>4, <1>5, <1>6 DEF MinedCases

\* Mining never takes the governance away.
LEMMA MinedClaims ==
  ASSUME NEW c, NEW tx, NEW d, MinedCases(c, tx, d)
  PROVE  d.claimed = c.claimed
BY DEF MinedCases, Constructed, Initialized, Added, HasSet, Transferred

\* What is recorded of an instance stays, and what it was told.
Kept(c, d, x, n) ==
  /\ Exists(d, x, n) /\ n \in Nat /\ n # 0 /\ c.made[x][n] \in Instance
  /\ d.made[x][n].with = c.made[x][n].with
  /\ c.made[x][n].init # 0 => d.made[x][n].init = c.made[x][n].init

LEMMA ExistsGrows ==
  ASSUME NEW nw, NEW c, NEW d, IsChain(c), IsChain(d), Grows(nw, c, d),
         NEW x \in Contracts, NEW n, Exists(c, x, n)
  PROVE  Kept(c, d, x, n)
<1>1. c.made[x] \in Seq(Instance) /\ d.made[x] \in Seq(Instance)
  BY DEF IsChain
<1>2. n \in 1 .. Len(c.made[x]) /\ n \in 1 .. Len(d.made[x])
  <2>1. n \in 1 .. Len(c.made[x])
    BY ExistsIs
  <2>2. Len(c.made[x]) <= Len(d.made[x]) /\ Len(c.made[x]) \in Nat /\ Len(d.made[x]) \in Nat
    BY <1>1 DEF Grows
  <2> QED
    BY <2>1, <2>2
<1>3. Exists(d, x, n)
  BY <1>2, ExistsIs
<1>4. c.made[x][n] \in Instance
  BY <1>1, <1>2
<1> QED
  BY <1>2, <1>3, <1>4 DEF Grows, Kept

(***************************************************************************)
(* What is done, and what is wired.                                        *)
(***************************************************************************)
\* The contracts the book names were built from and given those it names; what
\* only the governance can do was done, or cannot be done any more.
Executed(nw, op, b, c) ==
  /\ \A x \in op.args \cup {op.on} : Exists(c, x, b[x])
  /\ op.kind = "deploy" => \A a \in op.args : c.made[op.on][b[op.on]].with[a] = b[a]
  /\ op.kind = "initialize" => \A a \in op.args : c.made[op.on][b[op.on]].init = b[a]
  /\ op.kind = "add" => \/ \A a \in op.args : <<b[Data], a, b[a]>> \in c.registered
                        \/ ~onlyGovernance(c, GovMain, ManagerOf(c, Data, b[Data]))
  /\ op.kind = "set" => \/ <<op.on, b[op.on], op.key>> \in c.settings
                        \/ ~onlyGovernance(c, GovMain, ManagerOf(c, op.on, b[op.on]))
  /\ op.kind = "transfer" => \/ <<op.on, b[op.on]>> \in c.offered \cup c.claimed
                             \/ MultisigIsDeployer(nw)

Wired(c, d, a, n) ==
  /\ Exists(c, a, n)
  /\ LET with == c.made[a][n].with IN
     /\ Router \in DOMAIN with /\ Exists(c, Router, with[Router])
     /\ Data \in DOMAIN c.made[Router][with[Router]].with
     /\ c.made[Router][with[Router]].with[Data] = d
     /\ \A x \in DOMAIN with \ {GovMain, Router} :
          Exists(c, x, with[x]) /\ c.made[x][with[x]].init = n

LEMMA WithIs ==
  ASSUME NEW i \in Instance
  PROVE  DOMAIN i.with \subseteq Contracts /\ \A x \in DOMAIN i.with : i.with[x] \in Nat
<1>1. i.with \in Withs
  BY DEF Instance
<1>2. PICK A \in SUBSET Contracts : i.with \in [A -> Nat]
  BY <1>1 DEF Withs
<1> QED
  BY <1>2

LEMMA WiredGrows ==
  ASSUME NEW nw, NEW c, NEW d, IsChain(c), IsChain(d), Grows(nw, c, d),
         NEW a \in Contracts, NEW n, NEW m, Wired(c, m, a, n)
  PROVE  Wired(d, m, a, n)
<1> DEFINE with == c.made[a][n].with
<1>1. /\ Exists(c, a, n)
      /\ Router \in DOMAIN with /\ Exists(c, Router, with[Router])
      /\ Data \in DOMAIN c.made[Router][with[Router]].with
      /\ c.made[Router][with[Router]].with[Data] = m
      /\ \A x \in DOMAIN with \ {GovMain, Router} :
           Exists(c, x, with[x]) /\ c.made[x][with[x]].init = n
  BY DEF Wired
<1>2. Exists(d, a, n) /\ n # 0 /\ c.made[a][n] \in Instance /\ d.made[a][n].with = with
  <2>1. Kept(c, d, a, n)
    BY <1>1, ExistsGrows, ZenonT(30)
  <2> QED
    BY <2>1 DEF Kept
<1>3. DOMAIN with \subseteq Contracts
  BY <1>2, WithIs, ZenonT(30)
<1> HIDE DEF with
<1>4. /\ Exists(d, Router, with[Router])
      /\ d.made[Router][with[Router]].with = c.made[Router][with[Router]].with
  <2>1. Kept(c, d, Router, with[Router])
    BY <1>1, <1>3, ExistsGrows, ZenonT(30)
  <2> QED
    BY <2>1 DEF Kept
<1>5. ASSUME NEW x \in DOMAIN with \ {GovMain, Router}
      PROVE  Exists(d, x, with[x]) /\ d.made[x][with[x]].init = n
  <2>1. x \in Contracts /\ Exists(c, x, with[x]) /\ c.made[x][with[x]].init = n
    BY <1>1, <1>3
  <2>2. Kept(c, d, x, with[x])
    BY <2>1, ExistsGrows, ZenonT(30)
  <2> QED
    BY <1>2, <2>1, <2>2 DEF Kept
<1> QED
  BY <1>1, <1>2, <1>4, <1>5, ZenonT(30) DEF Wired

\* Whoever is not let in by the governance any more is not let in later.
LEMMA LockedOutGrows ==
  ASSUME NEW nw, NEW c, NEW d, IsChain(c), IsChain(d), Grows(nw, c, d),
         NEW x \in Contracts, NEW n, Exists(c, x, n),
         ~onlyGovernance(c, GovMain, ManagerOf(c, x, n))
  PROVE  ~onlyGovernance(d, GovMain, ManagerOf(d, x, n))
<1>1. d.made[x][n].with = c.made[x][n].with
  <2>1. Kept(c, d, x, n)
    BY ExistsGrows, ZenonT(30)
  <2> QED
    BY <2>1 DEF Kept
<1>2. c.claimed \subseteq d.claimed
  BY DEF Grows
<1> QED
  BY <1>1, <1>2 DEF onlyGovernance, ManagerOf

LEMMA AddForgeIs ==
  ASSUME NEW op, IsOperation(op), op.kind = "add"
  PROVE  op.on = Data /\ \E a \in op.args : op.args = {a} /\ op.key = <<a>> /\ op = AddForge(a)
BY DEF IsOperation, AddForge, Operation

LEMMA ExecutedGrows ==
  ASSUME NEW nw, NEW c, NEW d, IsChain(c), IsChain(d), Grows(nw, c, d),
         NEW op, IsOperation(op), NEW b, Executed(nw, op, b, c)
  PROVE  Executed(nw, op, b, d)
<1>1. \A x \in op.args \cup {op.on} : x \in Contracts /\ Exists(c, x, b[x])
  BY DEF Executed, IsOperation
<1>2. ASSUME NEW x \in op.args \cup {op.on}
      PROVE  /\ Exists(d, x, b[x]) /\ b[x] # 0
             /\ d.made[x][b[x]].with = c.made[x][b[x]].with
             /\ c.made[x][b[x]].init # 0 => d.made[x][b[x]].init = c.made[x][b[x]].init
  <2>1. Kept(c, d, x, b[x])
    BY <1>1, ExistsGrows, ZenonT(30)
  <2> QED
    BY <2>1 DEF Kept
<1>3. ASSUME op.kind = "deploy"
      PROVE  \A a \in op.args : d.made[op.on][b[op.on]].with[a] = b[a]
  BY <1>2, <1>3 DEF Executed
<1>4. ASSUME op.kind = "initialize"
      PROVE  \A a \in op.args : d.made[op.on][b[op.on]].init = b[a]
  <2> TAKE a \in op.args
  <2>1. c.made[op.on][b[op.on]].init = b[a]
    BY <1>4 DEF Executed
  <2> QED
    BY <1>2, <2>1
<1>5. ASSUME op.kind = "add"
      PROVE  \/ \A a \in op.args : <<b[Data], a, b[a]>> \in d.registered
             \/ ~onlyGovernance(d, GovMain, ManagerOf(d, Data, b[Data]))
  <2>1. op.on = Data /\ Data \in Contracts /\ Exists(c, Data, b[Data])
    BY <1>1, <1>5, AddForgeIs
  <2>2. CASE \A a \in op.args : <<b[Data], a, b[a]>> \in c.registered
    BY <2>2 DEF Grows
  <2>3. CASE ~onlyGovernance(c, GovMain, ManagerOf(c, Data, b[Data]))
    BY <2>1, <2>3, LockedOutGrows, ZenonT(30)
  <2> QED
    BY <1>5, <2>2, <2>3 DEF Executed
<1>6. ASSUME op.kind = "set"
      PROVE  \/ <<op.on, b[op.on], op.key>> \in d.settings
             \/ ~onlyGovernance(d, GovMain, ManagerOf(d, op.on, b[op.on]))
  <2>1. op.on \in Contracts /\ Exists(c, op.on, b[op.on])
    BY <1>1
  <2>2. CASE <<op.on, b[op.on], op.key>> \in c.settings
    BY <2>2 DEF Grows
  <2>3. CASE ~onlyGovernance(c, GovMain, ManagerOf(c, op.on, b[op.on]))
    BY <2>1, <2>3, LockedOutGrows, ZenonT(30)
  <2> QED
    BY <1>6, <2>2, <2>3 DEF Executed
<1>7. ASSUME op.kind = "transfer"
      PROVE  \/ <<op.on, b[op.on]>> \in d.offered \cup d.claimed
             \/ MultisigIsDeployer(nw)
  BY <1>7 DEF Executed, Grows
<1> QED
  BY <1>2, <1>3, <1>4, <1>5, <1>6, <1>7 DEF Executed

\* Only what the book says of the operation's own contracts matters.
LEMMA ExecutedSame ==
  ASSUME NEW nw, NEW c, NEW op, IsOperation(op), NEW b, NEW e, Executed(nw, op, b, c),
         \A x \in op.args \cup {op.on} : e[x] = b[x]
  PROVE  Executed(nw, op, e, c)
<1>1. op.kind = "add" => op.on = Data
  BY AddForgeIs
<1>2. e[op.on] = b[op.on] /\ \A a \in op.args : e[a] = b[a]
  OBVIOUS
<1>3. op.kind = "add" => e[Data] = b[Data]
  BY <1>1, <1>2
<1>4. \A x \in op.args \cup {op.on} : Exists(c, x, e[x])
  BY DEF Executed
<1>5. ASSUME op.kind = "deploy"
      PROVE  \A a \in op.args : c.made[op.on][e[op.on]].with[a] = e[a]
  BY <1>2, <1>5 DEF Executed
<1>6. ASSUME op.kind = "initialize"
      PROVE  \A a \in op.args : c.made[op.on][e[op.on]].init = e[a]
  BY <1>2, <1>6 DEF Executed
<1>7. ASSUME op.kind = "add"
      PROVE  \/ \A a \in op.args : <<e[Data], a, e[a]>> \in c.registered
             \/ ~onlyGovernance(c, GovMain, ManagerOf(c, Data, e[Data]))
  BY <1>2, <1>3, <1>7 DEF Executed
<1>8. ASSUME op.kind = "set"
      PROVE  \/ <<op.on, e[op.on], op.key>> \in c.settings
             \/ ~onlyGovernance(c, GovMain, ManagerOf(c, op.on, e[op.on]))
  BY <1>2, <1>8 DEF Executed
<1>9. ASSUME op.kind = "transfer"
      PROVE  \/ <<op.on, e[op.on]>> \in c.offered \cup c.claimed
             \/ MultisigIsDeployer(nw)
  BY <1>2, <1>9 DEF Executed
<1> QED
  BY <1>4, <1>5, <1>6, <1>7, <1>8, <1>9 DEF Executed

(***************************************************************************)
(* A transaction of the script, mined.                                     *)
(***************************************************************************)
LEMMA TransactionIs ==
  ASSUME NEW op, NEW b
  PROVE  /\ Transaction(op, b).op = op
         /\ DOMAIN Transaction(op, b).at = op.args \cup {op.on}
         /\ \A x \in op.args \cup {op.on} : Transaction(op, b).at[x] = b[x]
BY DEF Transaction

\* When it succeeds, its operation is done with the book as the script notes it.
LEMMA EffectExecutes ==
  ASSUME NEW nw, NEW c, IsChain(c), NEW op, IsOperation(op), NEW b, NEW tx,
         tx = Transaction(op, b), GoodTx(nw, tx, c), Succeeds(c, tx),
         NEW d, MinedCases(c, tx, d), IsChain(d), Grows(nw, c, d),
         NEW e, \A x \in op.args : e[x] = b[x],
         op.kind = "deploy" => op.on \notin op.args,
         e[op.on] = IF op.kind = "deploy" THEN Len(d.made[op.on]) ELSE b[op.on]
  PROVE  Executed(nw, op, e, d)
<1>1. tx.op = op /\ \A x \in op.args \cup {op.on} : tx.at[x] = b[x]
  BY TransactionIs
<1>2. op.on \in Contracts /\ op.args \subseteq Contracts /\ op.kind \in Kinds
  BY DEF IsOperation
<1>3. ASSUME NEW x \in Uses(op)
      PROVE  x \in Contracts /\ Exists(d, x, b[x])
  <2>1. x \in Contracts /\ x \in op.args \cup {op.on}
    BY <1>2 DEF Uses
  <2>2. Exists(c, x, b[x])
    BY <1>1, <2>1 DEF GoodTx
  <2>3. Kept(c, d, x, b[x])
    BY <2>1, <2>2, ExistsGrows, ZenonT(30)
  <2> QED
    BY <2>1, <2>3 DEF Kept
<1>4. \A x \in op.args : Exists(d, x, e[x])
  BY <1>3 DEF Uses
<1>5. CASE op.kind = "deploy"
  <2>1. Constructed(c, tx, d, op.on)
    BY <1>1, <1>5 DEF MinedCases
  <2>2. d.made[op.on] \in Seq(Instance) /\ Len(d.made[op.on]) = Len(c.made[op.on]) + 1
        /\ Len(c.made[op.on]) \in Nat
    BY <1>2, <2>1 DEF Constructed
  <2>3. Exists(d, op.on, e[op.on])
    BY <1>5, <2>2 DEF Exists
  <2>4. d.made[op.on][e[op.on]].with = [a \in op.args |-> tx.at[a]]
    BY <1>1, <1>5, <2>1 DEF Constructed
  <2>5. \A a \in op.args : d.made[op.on][e[op.on]].with[a] = e[a]
    BY <1>1, <2>4
  <2> QED
    BY <1>4, <1>5, <2>3, <2>5 DEF Executed
<1>6. CASE op.kind # "deploy"
  <2>1. \A x \in op.args \cup {op.on} : e[x] = b[x] /\ e[x] = tx.at[x]
    BY <1>1, <1>6
  <2>2. Exists(d, op.on, e[op.on])
    BY <1>3, <1>6, <2>1 DEF Uses
  <2>3. ASSUME op.kind = "initialize"
        PROVE  \A a \in op.args : d.made[op.on][e[op.on]].init = e[a]
    <3>1. Initialized(c, tx, d, op.on, tx.at[op.on])
      BY <1>1, <2>3 DEF MinedCases
    <3>2. \A a \in op.args : d.made[op.on][tx.at[op.on]].init = tx.at[a]
      BY <1>1, <3>1 DEF Initialized
    <3> QED
      BY <2>1, <3>2
  <2>4. ASSUME op.kind = "add"
        PROVE  \A a \in op.args : <<e[Data], a, e[a]>> \in d.registered
    <3>1. Added(c, tx, d)
      BY <1>1, <2>4 DEF MinedCases
    <3>2. op.on = Data /\ \A a \in op.args : <<tx.at[Data], a, tx.at[a]>> \in d.registered
      BY <1>1, <3>1 DEF Added
    <3> QED
      BY <2>1, <3>2
  <2>5. ASSUME op.kind = "set"
        PROVE  <<op.on, e[op.on], op.key>> \in d.settings
    <3>1. HasSet(c, tx, d)
      BY <1>1, <2>5 DEF MinedCases
    <3> QED
      BY <1>1, <2>1, <3>1 DEF HasSet
  <2>6. ASSUME op.kind = "transfer"
        PROVE  <<op.on, e[op.on]>> \in d.offered \cup d.claimed
    <3>1. Transferred(c, tx, d)
      BY <1>1, <2>6 DEF MinedCases
    <3> QED
      BY <1>1, <2>1, <3>1 DEF Transferred
  <2> QED
    BY <1>4, <1>6, <2>2, <2>3, <2>4, <2>5, <2>6 DEF Executed
<1> QED
  BY <1>5, <1>6

\* Another transaction s is mined first and takes its place: it was the same call.
SameCall(c, s, tx) ==
  /\ Succeeds(c, s) /\ s.op = tx.op /\ tx.op.kind # "deploy"
  /\ s.at[tx.op.on] = tx.at[tx.op.on]

LEMMA Overtaken ==
  ASSUME NEW nw, NEW c, IsChain(c), NEW s, GoodTx(nw, s, c), NEW tx, GoodTx(nw, tx, c),
         NEW d, MinedCases(c, s, d), IsChain(d), Grows(nw, c, d),
         s.op.kind = "initialize" /\ tx.op.kind = "initialize" /\ s.op.on = tx.op.on => s.op = tx.op,
         Succeeds(c, tx), ~Succeeds(d, tx)
  PROVE  SameCall(c, s, tx)
<1>1. d.claimed = c.claimed
  BY MinedClaims
<1>2. /\ tx.op.kind \in Kinds /\ tx.op.on \in Contracts /\ s.op.on \in Contracts
      /\ tx.op.kind # "deploy" => Exists(c, tx.op.on, tx.at[tx.op.on])
  BY DEF GoodTx, IsOperation, Uses
<1>3. ASSUME tx.op.kind # "deploy"
      PROVE  /\ d.made[tx.op.on][tx.at[tx.op.on]].with = c.made[tx.op.on][tx.at[tx.op.on]].with
             /\ initialized(c, tx.op.on, tx.at[tx.op.on]) => initialized(d, tx.op.on, tx.at[tx.op.on])
  <2>1. Kept(c, d, tx.op.on, tx.at[tx.op.on])
    BY <1>2, <1>3, ExistsGrows, ZenonT(30)
  <2> QED
    BY <2>1 DEF Kept, initialized
<1>4. CASE tx.op.kind = "deploy"
  BY <1>4 DEF Succeeds
<1>5. CASE tx.op.kind = "initialize"
  <2>1. CanInitialize(c, tx) /\ ~CanInitialize(d, tx)
    BY <1>5 DEF Succeeds
  <2>2. d.made[tx.op.on][tx.at[tx.op.on]] # c.made[tx.op.on][tx.at[tx.op.on]]
    BY <2>1 DEF CanInitialize, initialized
  <2>3. tx.at[tx.op.on] \in 1 .. Len(c.made[tx.op.on])
    BY <1>2, <1>5, ExistsIs
  <2>4. ASSUME Constructed(c, s, d, s.op.on)
        PROVE  FALSE
    <3>1. CASE s.op.on = tx.op.on
      <4>1. \A k \in 1 .. Len(c.made[tx.op.on]) : d.made[tx.op.on][k] = c.made[tx.op.on][k]
        BY <2>4, <3>1 DEF Constructed
      <4> QED
        BY <2>2, <2>3, <4>1
    <3>2. CASE s.op.on # tx.op.on
      <4>1. d.made[tx.op.on] = c.made[tx.op.on]
        BY <1>2, <2>4, <3>2 DEF Constructed
      <4> QED
        BY <2>2, <4>1
    <3> QED
      BY <3>1, <3>2
  <2>5. d.made # c.made
    BY <2>2
  <2>6. /\ s.op.kind = "initialize" /\ Succeeds(c, s)
        /\ Initialized(c, s, d, s.op.on, s.at[s.op.on])
    BY <2>4, <2>5 DEF MinedCases, Added, HasSet, Transferred
  <2>7. s.op.on = tx.op.on
    BY <1>2, <2>2, <2>6 DEF Initialized
  <2>8. s.at[tx.op.on] = tx.at[tx.op.on]
    <3>1. \A k \in 1 .. Len(c.made[tx.op.on]) :
            k # s.at[tx.op.on] => d.made[tx.op.on][k] = c.made[tx.op.on][k]
      BY <2>6, <2>7 DEF Initialized
    <3> QED
      BY <2>2, <2>3, <3>1
  <2> QED
    BY <1>5, <2>6, <2>7, <2>8 DEF SameCall
<1>6. CASE tx.op.kind = "add"
  <2>1. CanAdd(c, tx) /\ ~CanAdd(d, tx)
    BY <1>6 DEF Succeeds
  <2>2. tx.op.on = Data /\ \E a \in tx.op.args : tx.op.args = {a} /\ tx.op.key = <<a>> /\ tx.op = AddForge(a)
    BY <1>6, AddForgeIs DEF GoodTx
  <2>3. IsFree(c, tx.at[Data], tx.op.key) /\ ~IsFree(d, tx.at[Data], tx.op.key)
    BY <1>1, <1>3, <1>6, <2>1, <2>2 DEF CanAdd, onlyGovernance, ManagerOf
  <2>4. d.registered # c.registered
    BY <2>3 DEF IsFree
  <2>5. s.op.kind = "add" /\ Succeeds(c, s) /\ Added(c, s, d)
    BY <2>4 DEF MinedCases, Constructed, Initialized, HasSet, Transferred
  <2>6. PICK r \in d.registered : <<r[1], <<r[2]>>>> = <<tx.at[Data], tx.op.key>>
    BY <2>3 DEF IsFree
  <2>7. r \notin c.registered
    BY <2>3, <2>6 DEF IsFree
  <2>8. PICK a \in s.op.args : r = <<s.at[Data], a, s.at[a]>>
    BY <2>5, <2>6, <2>7 DEF Added
  <2>9. s.at[Data] = tx.at[Data] /\ <<a>> = tx.op.key
    BY <2>6, <2>8
  <2>10. s.op = AddForge(a) 
    BY <2>5, AddForgeIs DEF GoodTx
  <2>11. tx.op = AddForge(a)
    BY <2>2, <2>9
  <2> QED
    BY <1>6, <2>2, <2>5, <2>9, <2>10, <2>11 DEF SameCall
<1>7. CASE tx.op.kind = "set"
  <2>1. CanSet(c, tx) /\ ~CanSet(d, tx)
    BY <1>7 DEF Succeeds
  <2> QED
    BY <1>1, <1>3, <1>7, <2>1 DEF CanSet, onlyGovernance, ManagerOf
<1>8. CASE tx.op.kind = "transfer"
  BY <1>1, <1>8 DEF Succeeds, onlyGovernance
<1> QED
  BY <1>2, <1>4, <1>5, <1>6, <1>7, <1>8 DEF Kinds

(***************************************************************************)
(* The governance is claimed.                                              *)
(***************************************************************************)
Handed(c, gov, byOther, d) ==
  /\ gov \in c.offered
  /\ DOMAIN d = DOMAIN c /\ d.made = c.made /\ d.registered = c.registered
  /\ d.settings = c.settings
  /\ d.offered = c.offered \ {gov}
  /\ d.claimed = IF byOther THEN c.claimed \cup {gov} ELSE c.claimed \ {gov}

LEMMA ClaimedIs ==
  ASSUME NEW c, IsChain(c), NEW gov, CanClaim(c, gov), NEW byOther,
         NEW d, d = Claimed(c, gov, byOther)
  PROVE  Handed(c, gov, byOther, d)
BY DEF Claimed, CanClaim, Handed, IsChain

LEMMA ClaimedGrows ==
  ASSUME NEW nw, NEW c, IsChain(c), MultisigIsDeployer(nw) => c.claimed = {}, NEW gov,
         NEW d, Handed(c, gov, ~MultisigIsDeployer(nw), d)
  PROVE  IsChain(d) /\ Grows(nw, c, d)
<1>1. \A x \in Contracts : c.made[x] \in Seq(Instance) /\ Len(c.made[x]) \in Nat
  BY DEF IsChain
<1>2. IsChain(d)
  BY DEF IsChain, Handed
<1>3. c.claimed \subseteq d.claimed
  BY DEF Handed
<1> QED
  BY <1>1, <1>2, <1>3 DEF Grows, Handed

\* A transaction that this makes fail asks for what the deployer can do no more.
LEMMA ClaimExecutes ==
  ASSUME NEW nw, NEW c, IsChain(c), NEW op, NEW b, NEW tx, tx = Transaction(op, b), GoodTx(nw, tx, c),
         Succeeds(c, tx), NEW gov, NEW byOther, NEW d, Handed(c, gov, byOther, d),
         IsChain(d), Grows(nw, c, d), ~Succeeds(d, tx)
  PROVE  Executed(nw, op, b, d)
<1>1. tx.op = op /\ \A x \in op.args \cup {op.on} : tx.at[x] = b[x]
  BY TransactionIs
<1>2. IsOperation(op) /\ op.on \in Contracts /\ op.args \subseteq Contracts /\ op.kind \in Kinds
  BY <1>1 DEF GoodTx, IsOperation
<1>3. op.kind # "deploy"
  BY <1>1 DEF Succeeds
<1>4. ASSUME NEW x \in op.args \cup {op.on}
      PROVE  Exists(d, x, b[x])
  <2>1. x \in Contracts /\ Exists(c, x, b[x])
    BY <1>1, <1>2, <1>3 DEF GoodTx, Uses
  <2>2. Kept(c, d, x, b[x])
    BY <2>1, ExistsGrows, ZenonT(30)
  <2> QED
    BY <2>2 DEF Kept
<1>5. d.made = c.made /\ d.registered = c.registered
  BY DEF Handed
<1>6. op.kind # "initialize"
  BY <1>1, <1>5 DEF Succeeds, CanInitialize, initialized
<1>7. ASSUME op.kind = "add"
      PROVE  ~onlyGovernance(d, GovMain, ManagerOf(d, Data, b[Data]))
  <2>1. op.on = Data /\ tx.at[Data] = b[Data]
    BY <1>1, <1>2, <1>7, AddForgeIs
  <2>2. CanAdd(c, tx) /\ ~CanAdd(d, tx)
    BY <1>1, <1>7 DEF Succeeds
  <2> QED
    BY <1>5, <2>1, <2>2 DEF CanAdd, IsFree, initialized
<1>8. ASSUME op.kind = "set"
      PROVE  ~onlyGovernance(d, GovMain, ManagerOf(d, op.on, b[op.on]))
  <2>1. tx.at[op.on] = b[op.on]
    BY <1>1
  <2>2. CanSet(c, tx) /\ ~CanSet(d, tx)
    BY <1>1, <1>8 DEF Succeeds
  <2> QED
    BY <1>1, <1>5, <2>1, <2>2 DEF CanSet, initialized
<1>9. ASSUME op.kind = "transfer"
      PROVE  <<op.on, b[op.on]>> \in d.claimed
  <2>1. tx.at[op.on] = b[op.on]
    BY <1>1
  <2> QED
    BY <1>1, <1>9, <2>1 DEF Succeeds, onlyGovernance
<1> QED
  BY <1>2, <1>3, <1>4, <1>6, <1>7, <1>8, <1>9 DEF Executed, Kinds

(***************************************************************************)
(* What holds of the chain alone.                                          *)
(***************************************************************************)
Sound(nw, c) ==
  /\ \A r \in c.registered : Wired(c, r[1], r[2], r[3]) /\ Exists(c, Data, r[1])
  /\ \A op \in OperationsOf(nw) : op.kind = "deploy" =>
       \A k \in 1 .. Len(c.made[op.on]) : DOMAIN c.made[op.on][k].with = op.args
  /\ \A gov \in c.offered \cup c.claimed : Exists(c, gov[1], gov[2])
  /\ MultisigIsDeployer(nw) => c.claimed = {}

\* A forge is only listed once it is wired.
Sent(nw, tx, c) ==
  /\ GoodTx(nw, tx, c)
  /\ tx.op.kind = "add" => \A a \in tx.op.args : Wired(c, tx.at[Data], a, tx.at[a])

OpsAreOrdered(nw) ==
  /\ \A o \in OperationsOf(nw) : IsOperation(o)
  /\ \A o, p \in OperationsOf(nw) :
       o.on = p.on /\ o.kind = p.kind /\ o.kind \in {"deploy", "initialize"} => o = p

LEMMA SentGrows ==
  ASSUME NEW nw, NEW c, NEW d, IsChain(c), IsChain(d), Grows(nw, c, d), NEW tx, Sent(nw, tx, c)
  PROVE  Sent(nw, tx, d)
<1>1. tx.op.on \in Contracts /\ tx.op.args \subseteq Contracts
  BY DEF Sent, GoodTx, IsOperation
<1>2. ASSUME NEW x \in Uses(tx.op)
      PROVE  Exists(d, x, tx.at[x])
  <2>1. x \in Contracts /\ Exists(c, x, tx.at[x])
    BY <1>1 DEF Sent, GoodTx, Uses
  <2>2. Kept(c, d, x, tx.at[x])
    BY <2>1, ExistsGrows, ZenonT(30)
  <2> QED
    BY <2>2 DEF Kept
<1>3. ASSUME tx.op.kind = "add", NEW a \in tx.op.args
      PROVE  Wired(d, tx.at[Data], a, tx.at[a])
  <2>1. a \in Contracts /\ Wired(c, tx.at[Data], a, tx.at[a])
    BY <1>1, <1>3 DEF Sent
  <2> QED
    BY <2>1, WiredGrows, ZenonT(30)
<1>4. GoodTx(nw, tx, d)
  BY <1>2 DEF Sent, GoodTx
<1> QED
  BY <1>3, <1>4 DEF Sent

LEMMA SoundGrows ==
  ASSUME NEW nw, NEW c, NEW d, IsChain(c), IsChain(d), Grows(nw, c, d), Sound(nw, c)
  PROVE  /\ \A r \in c.registered : Wired(d, r[1], r[2], r[3]) /\ Exists(d, Data, r[1])
         /\ \A gov \in c.offered \cup c.claimed : Exists(d, gov[1], gov[2])
<1>1. ASSUME NEW r \in c.registered
      PROVE  Wired(d, r[1], r[2], r[3]) /\ Exists(d, Data, r[1])
  <2>1. r[2] \in Contracts /\ Wired(c, r[1], r[2], r[3]) /\ Exists(c, Data, r[1])
    BY DEF IsChain, Sound
  <2>2. Wired(d, r[1], r[2], r[3])
    BY <2>1, WiredGrows, ZenonT(30)
  <2>3. c.made[r[2]][r[3]] \in Instance
    <3>1. Exists(c, r[2], r[3])
      BY <2>1 DEF Wired
    <3>2. Kept(c, d, r[2], r[3])
      BY <2>1, <3>1, ExistsGrows, ZenonT(30)
    <3> QED
      BY <3>2 DEF Kept
  <2>4. Data \in Contracts
    <3> DEFINE with == c.made[r[2]][r[3]].with
    <3>1. Router \in DOMAIN with /\ Exists(c, Router, with[Router])
          /\ Data \in DOMAIN c.made[Router][with[Router]].with
      BY <2>1 DEF Wired
    <3>2. Router \in Contracts
      BY <2>3, <3>1, WithIs
    <3>3. Kept(c, d, Router, with[Router])
      BY <3>1, <3>2, ExistsGrows, ZenonT(30)
    <3>4. c.made[Router][with[Router]] \in Instance
      BY <3>3 DEF Kept
    <3> HIDE DEF with
    <3> QED
      BY <3>1, <3>4, WithIs
  <2>5. Kept(c, d, Data, r[1])
    BY <2>1, <2>4, ExistsGrows, ZenonT(30)
  <2> QED
    BY <2>2, <2>5 DEF Kept
<1>2. ASSUME NEW gov \in c.offered \cup c.claimed
      PROVE  Exists(d, gov[1], gov[2])
  <2>1. gov[1] \in Contracts /\ Exists(c, gov[1], gov[2])
    BY DEF IsChain, Sound
  <2>2. Kept(c, d, gov[1], gov[2])
    BY <2>1, ExistsGrows, ZenonT(30)
  <2> QED
    BY <2>2 DEF Kept
<1> QED
  BY <1>1, <1>2

LEMMA MinedSound ==
  ASSUME NEW nw, OpsAreOrdered(nw), NEW c, IsChain(c), Sound(nw, c), NEW tx, Sent(nw, tx, c),
         NEW d, MinedCases(c, tx, d), IsChain(d), Grows(nw, c, d)
  PROVE  Sound(nw, d)
<1>0. /\ GoodTx(nw, tx, c) /\ tx.op \in OperationsOf(nw) /\ tx.op.on \in Contracts
      /\ tx.op.args \subseteq Contracts /\ DOMAIN tx.at = tx.op.args \cup {tx.op.on}
      /\ tx.op.kind # "deploy" => Exists(c, tx.op.on, tx.at[tx.op.on])
  BY DEF Sent, GoodTx, Txs, IsOperation, Uses
<1>1. ASSUME NEW r \in d.registered
      PROVE  Wired(d, r[1], r[2], r[3]) /\ Exists(d, Data, r[1])
  <2>1. CASE r \in c.registered
    BY <2>1, SoundGrows, ZenonT(30)
  <2>2. CASE r \notin c.registered
    <3>1. tx.op.kind = "add" /\ Added(c, tx, d)
      BY <2>2 DEF MinedCases, Constructed, Initialized, HasSet, Transferred
    <3>2. PICK a \in tx.op.args : r = <<tx.at[Data], a, tx.at[a]>>
      BY <2>2, <3>1 DEF Added
    <3>3. Sent(nw, tx, d)
      BY SentGrows, ZenonT(30)
    <3>4. Wired(d, tx.at[Data], a, tx.at[a])
      BY <3>1, <3>3 DEF Sent
    <3>5. tx.op.on = Data /\ Exists(d, Data, tx.at[Data])
      BY <3>1, <3>3 DEF Added, Sent, GoodTx, Uses
    <3> QED
      BY <3>2, <3>4, <3>5
  <2> QED
    BY <2>1, <2>2
<1>2. ASSUME NEW op \in OperationsOf(nw), op.kind = "deploy", op.on \in Contracts,
             NEW k \in 1 .. Len(d.made[op.on])
      PROVE  DOMAIN d.made[op.on][k].with = op.args
  <2>0. Len(c.made[op.on]) \in Nat /\ Len(d.made[op.on]) \in Nat
    BY <1>2 DEF IsChain
  <2>1. CASE k \in 1 .. Len(c.made[op.on])
    <3>1. d.made[op.on][k].with = c.made[op.on][k].with
      BY <1>2, <2>1 DEF Grows
    <3> QED
      BY <1>2, <2>1, <3>1 DEF Sound
  <2>2. CASE k \notin 1 .. Len(c.made[op.on])
    <3>1. Len(d.made[op.on]) # Len(c.made[op.on])
      BY <2>2
    <3>2. tx.op.kind = "deploy" /\ Constructed(c, tx, d, tx.op.on)
      <4>1. d.made # c.made
        BY <3>1
      <4>2. ~Initialized(c, tx, d, tx.op.on, tx.at[tx.op.on])
        BY <1>0, <1>2, <3>1 DEF Initialized
      <4> QED
        BY <4>1, <4>2 DEF MinedCases, Added, HasSet, Transferred
    <3>3. tx.op.on = op.on
      BY <1>0, <1>2, <3>1, <3>2 DEF Constructed
    <3>4. tx.op = op
      <4>1. tx.op.kind = op.kind /\ tx.op.kind \in {"deploy", "initialize"}
        BY <1>2, <3>2
      <4> QED
        BY <1>0, <3>3, <4>1 DEF OpsAreOrdered
    <3>5. Len(d.made[op.on]) = Len(c.made[op.on]) + 1
          /\ d.made[op.on][Len(c.made[op.on]) + 1].with = [a \in op.args |-> tx.at[a]]
      BY <3>2, <3>3, <3>4 DEF Constructed
    <3>6. k = Len(c.made[op.on]) + 1
      BY <2>0, <2>2, <3>5
    <3> QED
      BY <3>5, <3>6
  <2> QED
    BY <2>1, <2>2
<1>3. ASSUME NEW gov \in d.offered \cup d.claimed
      PROVE  Exists(d, gov[1], gov[2])
  <2>1. CASE gov \in c.offered \cup c.claimed
    BY <2>1, SoundGrows, ZenonT(30)
  <2>2. CASE gov \notin c.offered \cup c.claimed
    <3>1. tx.op.kind = "transfer" /\ Transferred(c, tx, d)
      BY <2>2 DEF MinedCases, Constructed, Initialized, HasSet, Added
    <3>2. gov = <<tx.op.on, tx.at[tx.op.on]>>
      BY <2>2, <3>1 DEF Transferred
    <3>3. tx.op.on \in Contracts /\ Exists(c, tx.op.on, tx.at[tx.op.on])
      BY <1>0, <3>1
    <3>4. Kept(c, d, tx.op.on, tx.at[tx.op.on])
      BY <3>3, ExistsGrows, ZenonT(30)
    <3> QED
      BY <3>2, <3>4 DEF Kept
  <2> QED
    BY <2>1, <2>2
<1>4. MultisigIsDeployer(nw) => d.claimed = {}
  BY MinedClaims DEF Sound
<1>5. \A op \in OperationsOf(nw) : op.on \in Contracts
  BY DEF OpsAreOrdered, IsOperation
<1> QED
  BY <1>1, <1>2, <1>3, <1>4, <1>5 DEF Sound

(***************************************************************************)
(* The order of the steps, on the network of this script.                  *)
(***************************************************************************)
LEMMA OrderIs ==
  ASSUME NEW nw \in Nets
  PROVE  /\ StepsAreOrdered(nw)
         /\ \A s \in 0 .. NUMBER_OF_STEPS + 1 :
              /\ Program[nw][s] \in Seq(Operations[nw][s])
              /\ DOMAIN Program[nw][s] = 1 .. Len(Program[nw][s]) /\ Len(Program[nw][s]) \in Nat
              /\ Operations[nw][s] = {Program[nw][s][i] : i \in 1 .. Len(Program[nw][s])}
         /\ NUMBER_OF_STEPS = 20 /\ LastSteps \subseteq 0 .. NUMBER_OF_STEPS
<1>1. nw \in Networks /\ StepsAreOrdered(nw) /\ LastSteps \subseteq 0 .. NUMBER_OF_STEPS
  BY DeploymentAssumption
<1>2. ASSUME NEW s \in 0 .. NUMBER_OF_STEPS + 1
      PROVE  /\ Program[nw][s] \in Seq(Operations[nw][s])
             /\ DOMAIN Program[nw][s] = 1 .. Len(Program[nw][s]) /\ Len(Program[nw][s]) \in Nat
             /\ Operations[nw][s] = {Program[nw][s][i] : i \in 1 .. Len(Program[nw][s])}
  <2>1. Program[nw][s] \in Seq(Operations[nw][s])
    BY <1>1 DEF StepsAreOrdered
  <2>2. Operations[nw][s] = {Program[nw][s][i] : i \in DOMAIN Program[nw][s]}
    BY <1>1 DEF Operations
  <2>3. DOMAIN Program[nw][s] = 1 .. Len(Program[nw][s]) /\ Len(Program[nw][s]) \in Nat
    BY <2>1
  <2> QED
    BY <2>1, <2>2, <2>3
<1> QED
  BY <1>1, <1>2 DEF NUMBER_OF_STEPS

\* Before an operation come the operations of the earlier steps and of its own.
LEMMA BeforeIs ==
  ASSUME NEW nw \in Nets, NEW s \in 0 .. NUMBER_OF_STEPS + 1, NEW i \in Nat, NEW op
  PROVE  op \in OperationsBefore(nw, s, i) <=>
           \/ \E t \in 0 .. s - 1 : op \in Operations[nw][t]
           \/ \E j \in 1 .. Len(Program[nw][s]) : j < i /\ op = Program[nw][s][j]
<1>1. DOMAIN Program[nw][s] = 1 .. Len(Program[nw][s])
  BY OrderIs
<1> DEFINE earlier == UNION {Operations[nw][t] : t \in 0 .. s - 1}
           own     == {Program[nw][s][j] : j \in {j \in DOMAIN Program[nw][s] : j < i}}
<1>2. OperationsBefore(nw, s, i) = earlier \cup own
  BY DEF OperationsBefore
<1>3. op \in earlier <=> \E t \in 0 .. s - 1 : op \in Operations[nw][t]
  BY ZenonT(30)
<1>4. op \in own <=> \E j \in 1 .. Len(Program[nw][s]) : j < i /\ op = Program[nw][s][j]
  BY <1>1, ZenonT(30)
<1> HIDE DEF earlier, own
<1> QED
  BY <1>2, <1>3, <1>4

LEMMA OpIs ==
  ASSUME NEW nw \in Nets, NEW s \in 0 .. NUMBER_OF_STEPS, NEW i \in 1 .. Len(Program[nw][s])
  PROVE  LET op == Program[nw][s][i]
             before == OperationsBefore(nw, s, i)
         IN  /\ op \in Operations[nw][s] /\ op \in OperationsOf(nw)
             /\ IsOperation(op) /\ DeploysFirst(op, before) /\ WiresFirst(op, before)
             /\ i > 1 => op \notin Openers(nw)
<1>1. s \in 0 .. NUMBER_OF_STEPS + 1 /\ NUMBER_OF_STEPS + 1 \in 0 .. NUMBER_OF_STEPS + 1
  BY OrderIs
<1>2. i \in DOMAIN Program[nw][s] /\ Program[nw][s][i] \in Operations[nw][s]
  BY <1>1, OrderIs
<1>3. Program[nw][s][i] \in OperationsOf(nw)
  BY <1>1, <1>2, OrderIs, BeforeIs DEF OperationsOf
<1> QED
  BY <1>2, <1>3, OrderIs DEF StepsAreOrdered

LEMMA OperationsAre ==
  ASSUME NEW nw \in Nets
  PROVE  /\ OpsAreOrdered(nw)
         /\ \A op : op \in OperationsOf(nw) <=> \E s \in 0 .. NUMBER_OF_STEPS : op \in Operations[nw][s]
<1>1. ASSUME NEW op
      PROVE  op \in OperationsOf(nw) <=> \E s \in 0 .. NUMBER_OF_STEPS : op \in Operations[nw][s]
  <2>1. NUMBER_OF_STEPS + 1 \in 0 .. NUMBER_OF_STEPS + 1 /\ Len(Program[nw][NUMBER_OF_STEPS + 1]) = 0
    BY OrderIs DEF StepsAreOrdered
  <2> QED
    BY <2>1, OrderIs, BeforeIs DEF OperationsOf
<1>2. ASSUME NEW op \in OperationsOf(nw)
      PROVE  IsOperation(op)
  <2>1. PICK s \in 0 .. NUMBER_OF_STEPS : op \in Operations[nw][s]
    BY <1>1
  <2>2. s \in 0 .. NUMBER_OF_STEPS + 1
    BY OrderIs
  <2>3. Operations[nw][s] = {Program[nw][s][i] : i \in 1 .. Len(Program[nw][s])}
    BY <2>2, OrderIs
  <2>4. PICK i \in 1 .. Len(Program[nw][s]) : op = Program[nw][s][i]
    BY <2>1, <2>3
  <2> QED
    BY <2>4, OpIs
<1>3. \A o, p \in OperationsOf(nw) :
        o.on = p.on /\ o.kind = p.kind /\ o.kind \in {"deploy", "initialize"} => o = p
  BY OrderIs DEF StepsAreOrdered
<1> QED
  BY <1>1, <1>2, <1>3 DEF OpsAreOrdered

(***************************************************************************)
(* The inductive invariant.                                                *)
(***************************************************************************)
Typed ==
  /\ net \in Nets /\ IsChain(chain) /\ mempool \in Seq(Txs(net))
  /\ file.step \in -1 .. NUMBER_OF_STEPS /\ file.contracts \in [Contracts -> Nat]
  /\ step \in -1 .. NUMBER_OF_STEPS /\ pc \in Nat \ {0} /\ book \in [Contracts -> Nat]
  /\ lastStep \in LastSteps
  /\ running \in BOOLEAN /\ waiting \in BOOLEAN /\ cut \in BOOLEAN /\ doomed \in BOOLEAN
  /\ \A x \in Contracts :
       book[x] <= Len(chain.made[x]) /\ file.contracts[x] <= Len(chain.made[x])

ChainInv ==
  Sound(net, chain) /\ \A i \in 1 .. Len(mempool) : Sent(net, mempool[i], chain)

\* The transaction waited for will succeed, or what it asks for is there already.
WaitInv ==
  waiting =>
    /\ running /\ mempool # << >> /\ pc \in 1 .. Len(Program[net][step + 1])
    /\ mempool[Len(mempool)] = Transaction(Program[net][step + 1][pc], book)
    /\ \/ Succeeds(chain, mempool[Len(mempool)])
       \/ Executed(net, Program[net][step + 1][pc], book, chain)

\* In memory is what the file says, but for what this step has deployed; what an
\* earlier run left in the mempool is mined before the step's first own transaction.
RunInv ==
  running =>
    /\ step < lastStep
    /\ pc = 1 => book = file.contracts
    /\ \A x \in Contracts :
         x \notin DeployedBy(Operations[net][step + 1]) => book[x] = file.contracts[x]
    /\ pc > 1 => mempool = << >> \/ (waiting /\ Len(mempool) = 1)

DoneInv ==
  /\ \A op \in OperationsBefore(net, file.step + 1, 1) :
       Executed(net, op, file.contracts, chain)
  /\ running => \A op \in OperationsBefore(net, step + 1, pc) : Executed(net, op, book, chain)

\* A transaction of a run that was killed was sent with the file's book: on the
\* same contract it asks for the same.
Matches(nw, tx, f) ==
  tx.op \in Openers(nw) /\ tx.op.kind # "deploy" /\ tx.at[tx.op.on] = f[tx.op.on] =>
    \A a \in tx.op.args : tx.at[a] = f[a]

OpenerInv == \A i \in 1 .. Len(mempool) : Matches(net, mempool[i], file.contracts)

\* No run gets past the network's last step: its next one begins with what fails.
ReachInv ==
  /\ file.step <= LastFinished(net)
  /\ running => /\ step <= LastFinished(net)
                /\ step = LastFinished(net) => pc = 1 /\ ~waiting

\* The chain refuses the operation for good, whatever else the script does.
RefusedAt(op, f, c) ==
  \/ op.kind = "initialize" /\ initialized(c, op.on, f[op.on])
  \/ op.kind = "add" /\ ~IsFree(c, f[op.on], op.key)
  \/ op.kind \in {"add", "set"} /\ ~onlyGovernance(c, GovMain, ManagerOf(c, op.on, f[op.on]))
  \/ op.kind = "transfer" /\ ~onlyGovernance(c, op.on, f[op.on])

Barred(nw, s, op, f, c) ==
  /\ op.on \in Contracts /\ op.on \notin DeployedBy(Operations[nw][s])
  /\ Exists(c, op.on, f[op.on]) /\ RefusedAt(op, f, c)

\* What a run meets at the j-th operation of step s, however often it is started.
Held(nw, s, j, f, c) == Throws(nw, s, j) \/ Barred(nw, s, Program[nw][s][j], f, c)

DoomInv ==
  running /\ doomed =>
    /\ step = file.step
    /\ \E j \in 1 .. Len(Program[net][step + 1]) :
         /\ j >= pc /\ (waiting => j > pc)
         /\ Held(net, step + 1, j, file.contracts, chain)

SetUpInv ==
  /\ Typed /\ ChainInv /\ WaitInv /\ RunInv /\ DoneInv
  /\ OpenerInv /\ ReachInv /\ DoomInv

LEMMA NoneBefore ==
  ASSUME NEW nw \in Nets
  PROVE  OperationsBefore(nw, 0, 1) = {}
<1>1. 0 \in 0 .. NUMBER_OF_STEPS + 1 /\ 1 \in Nat
  BY DEF NUMBER_OF_STEPS
<1>2. ASSUME NEW op \in OperationsBefore(nw, 0, 1)
      PROVE  FALSE
  <2>1. \/ \E u \in 0 .. 0 - 1 : op \in Operations[nw][u]
        \/ \E j \in 1 .. Len(Program[nw][0]) : j < 1 /\ op = Program[nw][0][j]
    BY <1>1, <1>2, BeforeIs
  <2> QED
    BY <2>1
<1> QED
  BY <1>2

LEMMA InitSetUpInv ==
  ASSUME DeployInit
  PROVE  SetUpInv
<1>1. /\ net \in Nets /\ chain = EmptyChain /\ mempool = << >> /\ file.step = -1
      /\ file.contracts = EmptyBook /\ book = EmptyBook
      /\ running = FALSE /\ waiting = FALSE /\ cut = FALSE /\ doomed = FALSE
      /\ step = -1 /\ pc = 1 /\ lastStep = NUMBER_OF_STEPS
  BY DEF DeployInit
<1>2. IsChain(chain) /\ \A x \in Contracts : chain.made[x] = << >> /\ Len(chain.made[x]) = 0
  BY <1>1 DEF EmptyChain, IsChain
<1>3. chain.registered = {} /\ chain.offered = {} /\ chain.claimed = {}
  BY <1>1 DEF EmptyChain
<1>4. Typed
  <2>1. EmptyBook \in [Contracts -> Nat] /\ \A x \in Contracts : EmptyBook[x] = 0
    BY DEF EmptyBook
  <2>2. mempool \in Seq(Txs(net))
    BY <1>1
  <2>3. lastStep \in LastSteps
    BY <1>1, DeploymentAssumption
  <2>4. \A x \in Contracts :
          book[x] <= Len(chain.made[x]) /\ file.contracts[x] <= Len(chain.made[x])
    BY <1>1, <1>2, <2>1
  <2>5. file.step \in -1 .. NUMBER_OF_STEPS /\ step \in -1 .. NUMBER_OF_STEPS /\ pc \in Nat \ {0}
    BY <1>1 DEF NUMBER_OF_STEPS
  <2>6. file.contracts \in [Contracts -> Nat] /\ book \in [Contracts -> Nat]
    BY <1>1, <2>1
  <2> QED
    BY <1>1, <1>2, <2>2, <2>3, <2>4, <2>5, <2>6 DEF Typed
<1>5. OpsAreOrdered(net)
  BY <1>1, OperationsAre
<1>6. \A op \in OperationsOf(net) : op.on \in Contracts
  BY <1>5 DEF OpsAreOrdered, IsOperation
<1>7. ChainInv
  BY <1>1, <1>2, <1>3, <1>6 DEF ChainInv, Sound
<1>8. WaitInv /\ RunInv /\ OpenerInv /\ ReachInv /\ DoomInv
  BY <1>1 DEF WaitInv, RunInv, OpenerInv, ReachInv, DoomInv, LastFinished, RelistingStep
<1>9. DoneInv
  <2>1. OperationsBefore(net, 0, 1) = {}
    BY <1>1, NoneBefore
  <2> QED
    BY <1>1, <2>1 DEF DoneInv
<1> QED
  BY <1>4, <1>7, <1>8, <1>9 DEF SetUpInv

(***************************************************************************)
(* What the chain refuses for good.                                        *)
(***************************************************************************)
LEMMA RefusedIs ==
  ASSUME NEW op, IsOperation(op)
  PROVE  Refused(op, chain) <=> RefusedAt(op, file.contracts, chain)
<1> DEFINE tx == Transaction(op, file.contracts)
<1>1. tx.op = op /\ tx.at[op.on] = file.contracts[op.on]
  BY TransactionIs
<1>2. op.kind = "add" => tx.at[Data] = file.contracts[op.on]
  BY <1>1, AddForgeIs
<1>3. Refused(op, chain) <=>
        \/ op.kind = "initialize" /\ ~CanInitialize(chain, tx)
        \/ op.kind = "add" /\ ~IsFree(chain, tx.at[Data], op.key)
        \/ /\ op.kind \in {"add", "set"}
           /\ ~onlyGovernance(chain, GovMain, ManagerOf(chain, op.on, tx.at[op.on]))
        \/ op.kind = "transfer" /\ ~onlyGovernance(chain, op.on, tx.at[op.on])
  BY DEF Refused
<1> HIDE DEF tx
<1> QED
  BY <1>1, <1>2, <1>3 DEF RefusedAt, CanInitialize

LEMMA RefusedFails ==
  ASSUME NEW op, IsOperation(op), NEW f, NEW c, RefusedAt(op, f, c),
         NEW b, b[op.on] = f[op.on]
  PROVE  ~Succeeds(c, Transaction(op, b))
<1> DEFINE tx == Transaction(op, b)
<1>1. tx.op = op /\ tx.at[op.on] = f[op.on]
  BY TransactionIs
<1>2. op.kind = "add" => op.on = Data
  BY AddForgeIs
<1> HIDE DEF tx
<1>3. ASSUME op.kind = "initialize"
      PROVE  ~Succeeds(c, tx)
  BY <1>1, <1>3 DEF RefusedAt, Succeeds, CanInitialize
<1>4. ASSUME op.kind = "add"
      PROVE  ~Succeeds(c, tx)
  BY <1>1, <1>2, <1>4 DEF RefusedAt, Succeeds, CanAdd
<1>5. ASSUME op.kind = "set"
      PROVE  ~Succeeds(c, tx)
  BY <1>1, <1>5 DEF RefusedAt, Succeeds, CanSet
<1>6. ASSUME op.kind = "transfer"
      PROVE  ~Succeeds(c, tx)
  BY <1>1, <1>6 DEF RefusedAt, Succeeds
<1>7. ~Succeeds(c, tx)
  BY <1>3, <1>4, <1>5, <1>6 DEF RefusedAt
<1> QED
  BY <1>7 DEF tx

LEMMA BarredGrows ==
  ASSUME NEW nw, NEW c, NEW d, IsChain(c), IsChain(d), Grows(nw, c, d),
         NEW s, NEW op, NEW f, Barred(nw, s, op, f, c)
  PROVE  Barred(nw, s, op, f, d)
<1>1. op.on \in Contracts /\ Exists(c, op.on, f[op.on]) /\ RefusedAt(op, f, c)
  BY DEF Barred
<1>2. Kept(c, d, op.on, f[op.on])
  BY <1>1, ExistsGrows, ZenonT(30)
<1>3. c.registered \subseteq d.registered /\ c.claimed \subseteq d.claimed
  BY DEF Grows
<1>4. ASSUME op.kind = "initialize", initialized(c, op.on, f[op.on])
      PROVE  initialized(d, op.on, f[op.on])
  BY <1>2, <1>4 DEF initialized, Kept
<1>5. ASSUME ~IsFree(c, f[op.on], op.key)
      PROVE  ~IsFree(d, f[op.on], op.key)
  BY <1>3, <1>5 DEF IsFree
<1>6. ASSUME ~onlyGovernance(c, GovMain, ManagerOf(c, op.on, f[op.on]))
      PROVE  ~onlyGovernance(d, GovMain, ManagerOf(d, op.on, f[op.on]))
  BY <1>1, <1>6, LockedOutGrows, ZenonT(30)
<1>7. ASSUME ~onlyGovernance(c, op.on, f[op.on])
      PROVE  ~onlyGovernance(d, op.on, f[op.on])
  BY <1>3, <1>7 DEF onlyGovernance
<1>8. RefusedAt(op, f, d)
  BY <1>1, <1>4, <1>5, <1>6, <1>7 DEF RefusedAt
<1> QED
  BY <1>2, <1>8 DEF Barred, Kept

LEMMA HeldGrows ==
  ASSUME NEW nw, NEW c, NEW d, IsChain(c), IsChain(d), Grows(nw, c, d),
         NEW s, NEW j, NEW f, Held(nw, s, j, f, c)
  PROVE  Held(nw, s, j, f, d)
<1>1. CASE Throws(nw, s, j)
  BY <1>1 DEF Held
<1>2. CASE Barred(nw, s, Program[nw][s][j], f, c)
  <2>1. Barred(nw, s, Program[nw][s][j], f, d)
    BY <1>2, BarredGrows
  <2> QED
    BY <2>1 DEF Held
<1> QED
  BY <1>1, <1>2 DEF Held

\* A run that resumes at a stuck step meets the operation that holds it up.
LEMMA StuckIsHeld ==
  ASSUME Typed, DoneInv, Stuck, file.step < NUMBER_OF_STEPS
  PROVE  \E j \in 1 .. Len(Program[net][file.step + 1]) :
           Held(net, file.step + 1, j, file.contracts, chain)
<1> DEFINE s == file.step + 1
<1>1. net \in Nets /\ s \in 0 .. NUMBER_OF_STEPS /\ s \in 0 .. NUMBER_OF_STEPS + 1 /\ s = file.step + 1
  BY OrderIs DEF Typed
<1>0. CASE \E i \in DOMAIN Program[net][s] : Throws(net, s, i)
  <2>1. DOMAIN Program[net][s] = 1 .. Len(Program[net][s])
    BY <1>1, OrderIs
  <2> QED
    BY <1>0, <1>1, <2>1 DEF Held
<1> SUFFICES ASSUME ~\E i \in DOMAIN Program[net][s] : Throws(net, s, i)
             PROVE  \E j \in 1 .. Len(Program[net][s]) : Held(net, s, j, file.contracts, chain)
  BY <1>0, <1>1
<1>2. PICK op \in Operations[net][s] : op.on \notin DeployedBy(Operations[net][s]) /\ Refused(op, chain)
  BY DEF Stuck, Fresh
<1> HIDE DEF s
<1>3. Operations[net][s] = {Program[net][s][i] : i \in 1 .. Len(Program[net][s])}
  BY <1>1, OrderIs
<1>4. PICK j \in 1 .. Len(Program[net][s]) : op = Program[net][s][j]
  BY <1>2, <1>3
<1>5. IsOperation(op) /\ DeploysFirst(op, OperationsBefore(net, s, j))
  BY <1>1, <1>4, OpIs
<1>6. RefusedAt(op, file.contracts, chain) /\ op.kind # "deploy"
  BY <1>2, <1>5, RefusedIs DEF RefusedAt
<1>7. PICK o \in OperationsBefore(net, s, j) : o.kind = "deploy" /\ o.on = op.on
  BY <1>5, <1>6 DEF DeploysFirst, Uses, DeployedBy
<1>8. o \notin Operations[net][s]
  BY <1>2, <1>7 DEF DeployedBy
<1>9. o \in OperationsBefore(net, s, 1)
  <2>1. j \in Nat /\ 1 \in Nat
    OBVIOUS
  <2>2. \/ \E u \in 0 .. s - 1 : o \in Operations[net][u]
        \/ \E k \in 1 .. Len(Program[net][s]) : k < j /\ o = Program[net][s][k]
    BY <1>1, <1>7, <2>1, BeforeIs
  <2>3. \E u \in 0 .. s - 1 : o \in Operations[net][u]
    BY <1>3, <1>8, <2>2
  <2> QED
    BY <1>1, <2>1, <2>3, BeforeIs
<1>10. Executed(net, o, file.contracts, chain)
  BY <1>1, <1>9 DEF DoneInv
<1>11. Exists(chain, op.on, file.contracts[op.on]) /\ op.on \in Contracts
  BY <1>5, <1>7, <1>10 DEF Executed, IsOperation
<1>12. Barred(net, s, op, file.contracts, chain)
  BY <1>2, <1>6, <1>11 DEF Barred
<1> QED
  BY <1>1, <1>4, <1>12 DEF Held

(***************************************************************************)
(* The actions of the script.                                              *)
(***************************************************************************)
LEMMA StartRunSetUpInv ==
  ASSUME SetUpInv, NEW reset \in BOOLEAN, NEW last \in LastSteps, StartRun(reset, last)
  PROVE  SetUpInv'
<1>1. /\ ~running /\ step' = (IF reset THEN -1 ELSE file.step) /\ step' < last
      /\ book' = file.contracts /\ lastStep' = last /\ pc' = 1 /\ waiting' = FALSE
      /\ running' = TRUE /\ cut' = (last < NUMBER_OF_STEPS) /\ doomed' = (Stuck /\ ~reset)
      /\ net' = net /\ chain' = chain /\ mempool' = mempool /\ file' = file
  BY DEF StartRun
<1>2. Typed /\ ChainInv /\ DoneInv /\ OpenerInv /\ ReachInv
  BY DEF SetUpInv
<1>3. net \in Nets /\ last \in 0 .. NUMBER_OF_STEPS /\ NUMBER_OF_STEPS = 20
  BY <1>2, OrderIs DEF Typed
<1>4. Typed'
  <2>1. step' \in -1 .. NUMBER_OF_STEPS
    BY <1>1, <1>2, <1>3 DEF Typed
  <2>2. cut' \in BOOLEAN /\ doomed' \in BOOLEAN
    BY <1>1
  <2>3. \A x \in Contracts : book'[x] <= Len(chain'.made[x]) /\ file'.contracts[x] <= Len(chain'.made[x])
    BY <1>1, <1>2 DEF Typed
  <2>4. book' \in [Contracts -> Nat] /\ pc' \in Nat \ {0}
    BY <1>1, <1>2 DEF Typed
  <2> QED
    BY <1>1, <1>2, <2>1, <2>2, <2>3, <2>4 DEF Typed
<1>5. ChainInv' /\ OpenerInv' /\ WaitInv'
  BY <1>1, <1>2 DEF ChainInv, OpenerInv, WaitInv
<1>6. RunInv'
  BY <1>1 DEF RunInv
<1>7. DoneInv'
  <2>1. \A op \in OperationsBefore(net, step' + 1, 1) : Executed(net, op, file.contracts, chain)
    <3>1. CASE reset
      BY <1>1, <1>3, <3>1, NoneBefore
    <3>2. CASE ~reset
      BY <1>1, <1>2, <3>2 DEF DoneInv
    <3> QED
      BY <3>1, <3>2
  <2> QED
    BY <1>1, <1>2, <2>1 DEF DoneInv
<1>8. ReachInv'
  <2>1. LastFinished(net) \in Nat /\ LastFinished(net') = LastFinished(net)
    BY <1>1 DEF LastFinished, RelistingStep
  <2> QED
    BY <1>1, <1>2, <2>1 DEF ReachInv, Typed
<1>9. DoomInv'
  <2>1. CASE Stuck /\ ~reset
    <3>1. file.step < NUMBER_OF_STEPS
      BY <1>1, <1>2, <1>3, <2>1 DEF Typed
    <3>2. PICK j \in 1 .. Len(Program[net][file.step + 1]) :
            Held(net, file.step + 1, j, file.contracts, chain)
      BY <1>2, <2>1, <3>1, StuckIsHeld
    <3>3. step' = file.step /\ j >= pc'
      BY <1>1, <2>1
    <3> QED
      BY <1>1, <3>2, <3>3 DEF DoomInv
  <2>2. CASE ~(Stuck /\ ~reset)
    BY <1>1, <2>2 DEF DoomInv
  <2> QED
    BY <2>1, <2>2
<1> QED
  BY <1>4, <1>5, <1>6, <1>7, <1>8, <1>9 DEF SetUpInv

\* A run that stops leaves the chain, the mempool and the file as they are.
LEMMA StopSetUpInv ==
  ASSUME SetUpInv, Fail \/ Crash
  PROVE  SetUpInv'
<1>1. /\ running' = FALSE /\ waiting' = FALSE /\ cut' \in BOOLEAN /\ doomed' = doomed
      /\ net' = net /\ chain' = chain /\ mempool' = mempool /\ file' = file
      /\ step' = step /\ pc' = pc /\ book' = book /\ lastStep' = lastStep
  BY DEF Fail, Crash, counters, SetUpInv, Typed
<1>2. Typed' /\ ChainInv' /\ DoneInv' /\ OpenerInv' /\ ReachInv'
  BY <1>1 DEF SetUpInv, Typed, ChainInv, DoneInv, OpenerInv, ReachInv
<1>3. WaitInv' /\ RunInv' /\ DoomInv'
  BY <1>1 DEF WaitInv, RunInv, DoomInv
<1> QED
  BY <1>2, <1>3 DEF SetUpInv

\* The step a live run is at.
LEMMA CurrentIs ==
  ASSUME Typed, RunInv, running
  PROVE  /\ net \in Nets /\ step + 1 \in 0 .. NUMBER_OF_STEPS /\ step + 1 \in 0 .. NUMBER_OF_STEPS + 1
         /\ DOMAIN Current = 1 .. Len(Program[net][step + 1]) /\ Current = Program[net][step + 1]
         /\ Len(Program[net][step + 1]) \in Nat
<1>1. net \in Nets /\ LastSteps \subseteq 0 .. NUMBER_OF_STEPS /\ NUMBER_OF_STEPS = 20
  BY OrderIs DEF Typed
<1>2. step < lastStep /\ lastStep \in LastSteps /\ step \in -1 .. NUMBER_OF_STEPS
  BY DEF RunInv, Typed
<1>3. step + 1 \in 0 .. NUMBER_OF_STEPS /\ step + 1 \in 0 .. NUMBER_OF_STEPS + 1
  BY <1>1, <1>2
<1>4. DOMAIN Program[net][step + 1] = 1 .. Len(Program[net][step + 1]) /\ Len(Program[net][step + 1]) \in Nat
  BY <1>1, <1>3, OrderIs
<1> QED
  BY <1>1, <1>3, <1>4 DEF Current

LEMMA BeforeAreOf ==
  ASSUME NEW nw \in Nets, NEW s \in 0 .. NUMBER_OF_STEPS, NEW i \in Nat,
         NEW op, op \in OperationsBefore(nw, s, i)
  PROVE  op \in OperationsOf(nw) /\ IsOperation(op)
<1>0. NUMBER_OF_STEPS = 20
  BY OrderIs
<1>1. s \in 0 .. NUMBER_OF_STEPS + 1
  BY <1>0
<1>2. \/ \E u \in 0 .. s - 1 : op \in Operations[nw][u]
      \/ \E j \in 1 .. Len(Program[nw][s]) : j < i /\ op = Program[nw][s][j]
  BY <1>1, BeforeIs
<1>3. Operations[nw][s] = {Program[nw][s][j] : j \in 1 .. Len(Program[nw][s])}
  BY <1>1, OrderIs
<1>4. \E u \in 0 .. s : op \in Operations[nw][u]
  BY <1>2, <1>3
<1>5. \E u \in 0 .. NUMBER_OF_STEPS : op \in Operations[nw][u]
  BY <1>0, <1>4
<1>6. op \in OperationsOf(nw)
  BY <1>5, OperationsAre
<1> QED
  BY <1>6, OperationsAre DEF OpsAreOrdered

\* The order of the steps: what is about to be listed has been wired.
LEMMA ListedWhenWired ==
  ASSUME Typed, RunInv, DoneInv, ChainInv, running, pc \in 1 .. Len(Program[net][step + 1]),
         NEW op, op = Program[net][step + 1][pc], op.kind = "add", NEW a \in op.args
  PROVE  Wired(chain, book[Data], a, book[a])
<1> DEFINE before == OperationsBefore(net, step + 1, pc)
<1>1. net \in Nets /\ step + 1 \in 0 .. NUMBER_OF_STEPS /\ pc \in Nat /\ IsChain(chain)
  BY CurrentIs DEF Typed
<1>2. WiresFirst(op, before)
  BY <1>1, OpIs
<1>3. \A o \in before : Executed(net, o, book, chain)
  BY DEF DoneInv
<1>4. \A o \in before : o \in OperationsOf(net) /\ IsOperation(o)
  BY <1>1, BeforeAreOf
<1> HIDE DEF before
<1>5. PICK r \in before : r.kind = "deploy" /\ r.on = Router /\ Data \in r.args
  BY <1>2 DEF WiresFirst
<1>6. PICK f \in before :
         /\ f.kind = "deploy" /\ f.on = a /\ Router \in f.args
         /\ \A x \in f.args \ {GovMain, Router} : Initialize(x, a) \in before
  BY <1>2 DEF WiresFirst
<1>7. ASSUME NEW o \in before, o.kind = "deploy"
      PROVE  /\ Exists(chain, o.on, book[o.on])
             /\ DOMAIN chain.made[o.on][book[o.on]].with = o.args
             /\ \A x \in o.args : chain.made[o.on][book[o.on]].with[x] = book[x]
  <2>1. Exists(chain, o.on, book[o.on]) /\ o.on \in Contracts
    BY <1>3, <1>4, <1>7 DEF Executed, IsOperation
  <2>2. book[o.on] \in 1 .. Len(chain.made[o.on])
    BY <1>1, <2>1, ExistsIs
  <2>3. DOMAIN chain.made[o.on][book[o.on]].with = o.args
    BY <1>4, <1>7, <2>2 DEF ChainInv, Sound
  <2> QED
    BY <1>3, <1>7, <2>1, <2>3 DEF Executed
<1>8. ASSUME NEW x \in f.args \ {GovMain, Router}
      PROVE  Exists(chain, x, book[x]) /\ chain.made[x][book[x]].init = book[a]
  <2>1. Executed(net, Initialize(x, a), book, chain)
    BY <1>3, <1>6
  <2>2. Initialize(x, a).on = x /\ Initialize(x, a).args = {a} /\ Initialize(x, a).kind = "initialize"
    BY DEF Initialize, Operation
  <2> HIDE DEF Initialize
  <2> QED
    BY <2>1, <2>2 DEF Executed
<1>9. /\ Exists(chain, Router, book[Router])
      /\ Data \in DOMAIN chain.made[Router][book[Router]].with
      /\ chain.made[Router][book[Router]].with[Data] = book[Data]
  BY <1>5, <1>7
<1>10. /\ Exists(chain, a, book[a])
       /\ DOMAIN chain.made[a][book[a]].with = f.args
       /\ \A x \in f.args : chain.made[a][book[a]].with[x] = book[x]
  BY <1>6, <1>7
<1>11. Router \in DOMAIN chain.made[a][book[a]].with
       /\ chain.made[a][book[a]].with[Router] = book[Router]
  BY <1>6, <1>10
<1>12. ASSUME NEW x \in DOMAIN chain.made[a][book[a]].with \ {GovMain, Router}
       PROVE  /\ Exists(chain, x, chain.made[a][book[a]].with[x])
              /\ chain.made[x][chain.made[a][book[a]].with[x]].init = book[a]
  <2>1. x \in f.args \ {GovMain, Router} /\ chain.made[a][book[a]].with[x] = book[x]
    BY <1>10
  <2> QED
    BY <1>8, <2>1
<1> QED
  BY <1>9, <1>10, <1>11, <1>12, Zenon DEF Wired

\* What the script sends names contracts that are there.
LEMMA SentByScript ==
  ASSUME Typed, RunInv, DoneInv, ChainInv, running, pc \in 1 .. Len(Program[net][step + 1]),
         NEW op, op = Program[net][step + 1][pc], AddressesKnown(op, book),
         NEW tx, tx = Transaction(op, book)
  PROVE  Sent(net, tx, chain)
<1>1. net \in Nets /\ step + 1 \in 0 .. NUMBER_OF_STEPS /\ IsChain(chain)
      /\ book \in [Contracts -> Nat] /\ \A x \in Contracts : book[x] <= Len(chain.made[x])
  BY CurrentIs DEF Typed
<1>2. IsOperation(op) /\ op \in OperationsOf(net)
  BY <1>1, OpIs
<1>3. op.on \in Contracts /\ op.args \subseteq Contracts
  BY <1>2 DEF IsOperation
<1>4. /\ tx = [op |-> op, at |-> [n \in op.args \cup {op.on} |-> book[n]]]
      /\ tx.op = op /\ \A x \in op.args \cup {op.on} : tx.at[x] = book[x]
  BY TransactionIs DEF Transaction
<1>5. [n \in op.args \cup {op.on} |-> book[n]] \in [op.args \cup {op.on} -> Nat]
  BY <1>1, <1>3
<1>6. [n \in op.args \cup {op.on} |-> book[n]] \in Withs
  <2>1. PICK at : at = [n \in op.args \cup {op.on} |-> book[n]]
    OBVIOUS
  <2>2. op.args \cup {op.on} \in SUBSET Contracts /\ at \in [op.args \cup {op.on} -> Nat]
    BY <1>3, <1>5, <2>1
  <2>3. at \in Withs
    BY <2>2, ZenonT(30) DEF Withs
  <2> QED
    BY <2>1, <2>3
<1>7. tx \in Txs(net) /\ tx.at \in [op.args \cup {op.on} -> Nat]
  <2>1. tx.at = [n \in op.args \cup {op.on} |-> book[n]]
    BY <1>4
  <2>2. tx.at \in Withs /\ tx.at \in [op.args \cup {op.on} -> Nat]
    BY <1>5, <1>6, <2>1
  <2> QED
    BY <1>2, <1>4, <2>2 DEF Txs
<1>8. ASSUME NEW x \in Uses(op)
      PROVE  Exists(chain, x, tx.at[x])
  <2>1. x \in Contracts /\ x \in op.args \cup {op.on} /\ book[x] # 0
    BY <1>3 DEF Uses, AddressesKnown
  <2>2. Len(chain.made[x]) \in Nat
    BY <1>1, <2>1 DEF IsChain
  <2>3. book[x] \in 1 .. Len(chain.made[x])
    BY <1>1, <2>1, <2>2
  <2> QED
    BY <1>1, <1>4, <2>1, <2>3, ExistsIs
<1>9. GoodTx(net, tx, chain)
  BY <1>2, <1>4, <1>7, <1>8 DEF GoodTx
<1>10. ASSUME op.kind = "add", NEW a \in op.args
       PROVE  Wired(chain, tx.at[Data], a, tx.at[a])
  <2>1. op.on = Data
    BY <1>2, <1>10, AddForgeIs
  <2>2. Wired(chain, book[Data], a, book[a])
    BY <1>10, ListedWhenWired
  <2> QED
    BY <1>4, <2>1, <2>2
<1> QED
  BY <1>4, <1>9, <1>10 DEF Sent

\* Step 17 of every network but Avalanche opens with what step 16 has done.
LEMMA RelistingFails ==
  ASSUME SetUpInv, isNotAvax(net), running, step = RelistingStep - 1
  PROVE  /\ Len(Program[net][step + 1]) >= 1
         /\ ~CanSend(Program[net][step + 1][1], book, chain)
<1>1. net \in Nets /\ step + 1 = RelistingStep /\ step + 1 \in 0 .. NUMBER_OF_STEPS
      /\ Len(Program[net][step + 1]) \in Nat /\ Typed /\ DoneInv /\ RunInv
      /\ step \in 0 .. NUMBER_OF_STEPS + 1
  BY CurrentIs DEF SetUpInv, RelistingStep, NUMBER_OF_STEPS
<1>2. PICK op \in Operations[net][step] :
        op.kind = "add" /\ Program[net][step + 1] # << >> /\ Program[net][step + 1][1] = op
  <2>1. \E op \in Operations[net][RelistingStep - 1] :
          /\ op.kind = "add" /\ Program[net][RelistingStep] # << >>
          /\ Program[net][RelistingStep][1] = op
    BY <1>1, OrderIs DEF StepsAreOrdered
  <2>2. RelistingStep - 1 = step
    BY DEF RelistingStep
  <2> QED
    BY <1>1, <2>1, <2>2
<1>3. Program[net][step + 1] \in Seq(Operations[net][step + 1])
  <2>1. step + 1 \in 0 .. NUMBER_OF_STEPS + 1
    BY <1>1, CurrentIs
  <2> QED
    BY <1>1, <2>1, OrderIs
<1>4. Len(Program[net][step + 1]) >= 1
  BY <1>1, <1>2, <1>3
<1>5. op \in OperationsBefore(net, step + 1, pc)
  <2>1. step \in 0 .. (step + 1) - 1 /\ pc \in Nat /\ step + 1 \in 0 .. NUMBER_OF_STEPS + 1
    BY <1>1, CurrentIs DEF Typed
  <2>2. \E u \in 0 .. (step + 1) - 1 : op \in Operations[net][u]
    BY <2>1
  <2> QED
    BY <1>1, <2>1, <2>2, BeforeIs
<1>6. Executed(net, op, book, chain) /\ IsOperation(op)
  <2>1. pc \in Nat
    BY <1>1 DEF Typed
  <2> QED
    BY <1>1, <1>5, <2>1, BeforeAreOf DEF DoneInv
<1>7. RefusedAt(op, book, chain)
  <2>1. PICK a \in op.args : op.on = Data /\ op.args = {a} /\ op.key = <<a>>
    BY <1>2, <1>6, AddForgeIs
  <2>2. CASE <<book[Data], a, book[a]>> \in chain.registered
    <3>1. ~IsFree(chain, book[Data], <<a>>)
      BY <2>2 DEF IsFree
    <3> QED
      BY <1>2, <2>1, <3>1 DEF RefusedAt
  <2>3. CASE ~onlyGovernance(chain, GovMain, ManagerOf(chain, Data, book[Data]))
    BY <1>2, <2>1, <2>3 DEF RefusedAt
  <2> QED
    BY <1>2, <1>6, <2>2, <2>3 DEF Executed
<1>8. ~Succeeds(chain, Transaction(op, book))
  BY <1>6, <1>7, RefusedFails
<1> QED
  BY <1>2, <1>4, <1>8 DEF CanSend

\* Behind the last step that a network finishes, the first operation fails.
LEMMA NothingBehindLast ==
  ASSUME SetUpInv, running, step = LastFinished(net)
  PROVE  Len(Program[net][step + 1]) >= 1 /\ ~(pc = 1 /\ Accepted)
<1>1. /\ net \in Nets /\ step + 1 \in 0 .. NUMBER_OF_STEPS + 1 /\ Current = Program[net][step + 1]
      /\ Len(Program[net][step + 1]) \in Nat
  BY CurrentIs DEF SetUpInv
<1>2. CASE isNotAvax(net)
  <2>1. step = RelistingStep - 1
    BY <1>2 DEF LastFinished
  <2> QED
    BY <1>1, <1>2, <2>1, RelistingFails DEF Accepted
<1>3. CASE ~isNotAvax(net)
  <2>1. Program[net][step + 1] # << >> /\ Throws(net, step + 1, 1)
    BY <1>1, <1>3, OrderIs DEF StepsAreOrdered
  <2>2. Program[net][step + 1] \in Seq(Operations[net][step + 1])
    BY <1>1, OrderIs
  <2>3. Len(Program[net][step + 1]) >= 1
    BY <1>1, <2>1, <2>2
  <2> QED
    BY <2>1, <2>3 DEF Accepted
<1> QED
  BY <1>2, <1>3

LEMMA BroadcastSetUpInv ==
  ASSUME SetUpInv, Broadcast
  PROVE  SetUpInv'
<1> DEFINE op == Program[net][step + 1][pc]
           tx == Transaction(op, book)
<1>0. Typed /\ ChainInv /\ WaitInv /\ RunInv /\ DoneInv /\ OpenerInv /\ ReachInv /\ DoomInv
  BY DEF SetUpInv
<1>1. /\ running /\ ~waiting /\ pc \in DOMAIN Current /\ Accepted
      /\ CanSend(Current[pc], book, chain) /\ ~Throws(net, step + 1, pc)
      /\ mempool' = Append(mempool, Transaction(Current[pc], book)) /\ waiting' = TRUE
      /\ net' = net /\ chain' = chain /\ file' = file /\ running' = running /\ step' = step
      /\ pc' = pc /\ book' = book /\ lastStep' = lastStep /\ cut' = cut /\ doomed' = doomed
  BY DEF Broadcast, Remaining, Accepted
<1>2. /\ net \in Nets /\ step + 1 \in 0 .. NUMBER_OF_STEPS /\ step + 1 \in 0 .. NUMBER_OF_STEPS + 1
      /\ Len(Program[net][step + 1]) \in Nat /\ pc \in 1 .. Len(Program[net][step + 1])
      /\ CanSend(op, book, chain) /\ mempool' = Append(mempool, tx)
  BY <1>0, <1>1, CurrentIs
<1>3. AddressesKnown(op, book) /\ Succeeds(chain, tx)
  BY <1>2 DEF CanSend
<1>4. Sent(net, tx, chain)
  BY <1>0, <1>1, <1>2, <1>3, SentByScript
<1>5. tx.op = op /\ \A x \in op.args \cup {op.on} : tx.at[x] = book[x]
  BY TransactionIs
<1>6. IsOperation(op) /\ (pc > 1 => op \notin Openers(net))
  BY <1>2, OpIs
<1> HIDE DEF op, tx
<1>7. /\ tx \in Txs(net) /\ mempool \in Seq(Txs(net)) /\ mempool' \in Seq(Txs(net))
      /\ mempool' # << >> /\ Len(mempool) \in Nat /\ Len(mempool') = Len(mempool) + 1
      /\ mempool'[Len(mempool')] = tx
      /\ \A i \in 1 .. Len(mempool) : mempool'[i] = mempool[i]
  <2>1. tx \in Txs(net)
    BY <1>4 DEF Sent, GoodTx
  <2>2. mempool \in Seq(Txs(net))
    BY <1>0 DEF Typed
  <2> QED
    BY <1>2, <2>1, <2>2
<1>8. \A i \in 1 .. Len(mempool') : i \in 1 .. Len(mempool) \/ mempool'[i] = tx
  BY <1>7
<1>9. Typed'
  BY <1>0, <1>1, <1>7 DEF Typed
<1>10. ChainInv'
  <2>1. \A i \in 1 .. Len(mempool') : Sent(net, mempool'[i], chain)
    BY <1>0, <1>4, <1>7, <1>8 DEF ChainInv
  <2> QED
    BY <1>0, <1>1, <2>1 DEF ChainInv
<1>11. WaitInv'
  BY <1>1, <1>2, <1>3, <1>7 DEF WaitInv, op, tx
<1>12. RunInv'
  <2>1. pc > 1 => Len(mempool') = 1
    <3>1. pc > 1 => mempool = << >>
      BY <1>0, <1>1 DEF RunInv
    <3> QED
      BY <1>7, <3>1
  <2> QED
    BY <1>0, <1>1, <2>1 DEF RunInv
<1>13. DoneInv'
  BY <1>0, <1>1 DEF DoneInv
<1>14. OpenerInv'
  <2>1. Matches(net, tx, file.contracts)
    <3>1. CASE pc = 1
      <4>1. book = file.contracts
        BY <1>0, <1>1, <3>1 DEF RunInv
      <4> QED
        BY <1>5, <4>1 DEF Matches
    <3>2. CASE pc > 1
      BY <1>5, <1>6, <3>2 DEF Matches
    <3> QED
      BY <1>2, <3>1, <3>2
  <2>2. \A i \in 1 .. Len(mempool') : Matches(net, mempool'[i], file.contracts)
    BY <1>0, <1>7, <1>8, <2>1 DEF OpenerInv
  <2> QED
    BY <1>1, <2>2 DEF OpenerInv
<1>15. ReachInv'
  <2>1. step # LastFinished(net)
    <3>1. ASSUME step = LastFinished(net)
          PROVE  FALSE
      <4>1. pc = 1
        BY <1>0, <1>1, <3>1 DEF ReachInv
      <4> QED
        BY <1>1, <3>1, <4>1, NothingBehindLast
    <3> QED
      BY <3>1
  <2> QED
    BY <1>0, <1>1, <2>1 DEF ReachInv
<1>16. DoomInv'
  <2> SUFFICES ASSUME doomed
               PROVE  DoomInv'
    BY <1>1 DEF DoomInv
  <2>1. PICK j \in 1 .. Len(Program[net][step + 1]) :
          j >= pc /\ Held(net, step + 1, j, file.contracts, chain)
    BY <1>0, <1>1 DEF DoomInv
  <2>2. j # pc
    <3>1. ASSUME j = pc
          PROVE  FALSE
      <4>0. Barred(net, step + 1, op, file.contracts, chain)
        BY <1>1, <2>1, <3>1 DEF Held, op
      <4>1. RefusedAt(op, file.contracts, chain) /\ op.on \in Contracts
            /\ op.on \notin DeployedBy(Operations[net][step + 1])
        BY <4>0 DEF Barred
      <4>2. book[op.on] = file.contracts[op.on]
        BY <1>0, <1>1, <4>1 DEF RunInv
      <4> QED
        BY <1>3, <1>6, <4>1, <4>2, RefusedFails DEF tx
    <3> QED
      BY <3>1
  <2>3. j > pc
    BY <1>2, <2>1, <2>2
  <2> QED
    BY <1>0, <1>1, <2>1, <2>3 DEF DoomInv
<1> QED
  BY <1>9, <1>10, <1>11, <1>12, <1>13, <1>14, <1>15, <1>16 DEF SetUpInv

\* A run that is doomed has an operation before it: it saves nothing.
LEMMA DoomedSavesNothing ==
  ASSUME SetUpInv, running, doomed
  PROVE  ~SaveStep
<1>1. PICK j \in 1 .. Len(Program[net][step + 1]) : j >= pc
  BY DEF SetUpInv, DoomInv
<1>2. pc \in 1 .. Len(Program[net][step + 1])
  BY <1>1, CurrentIs DEF SetUpInv, Typed
<1> QED
  BY <1>2, CurrentIs DEF SetUpInv, SaveStep, Remaining

LEMMA SaveStepSetUpInv ==
  ASSUME SetUpInv, SaveStep
  PROVE  SetUpInv'
<1>0. Typed /\ ChainInv /\ WaitInv /\ RunInv /\ DoneInv /\ OpenerInv /\ ReachInv /\ DoomInv
  BY DEF SetUpInv
<1>1. /\ running /\ ~waiting /\ pc \notin DOMAIN Current /\ step' = step + 1 /\ pc' = 1
      /\ file' = [step |-> step + 1, contracts |-> book] /\ running' = (step + 1 < lastStep)
      /\ net' = net /\ chain' = chain /\ mempool' = mempool /\ waiting' = waiting
      /\ book' = book /\ lastStep' = lastStep /\ cut' = cut /\ doomed' = doomed
  BY DEF SaveStep, Remaining
<1>2. file'.step = step + 1 /\ file'.contracts = book
  BY <1>1
<1>3. /\ net \in Nets /\ step + 1 \in 0 .. NUMBER_OF_STEPS /\ step + 1 \in 0 .. NUMBER_OF_STEPS + 1
      /\ Len(Program[net][step + 1]) \in Nat /\ pc \notin 1 .. Len(Program[net][step + 1])
      /\ pc \in Nat \ {0}
  BY <1>0, <1>1, CurrentIs DEF Typed
<1>4. Len(Program[net][step + 1]) < pc
  BY <1>3
<1>5. ~doomed
  BY <1>1, DoomedSavesNothing
<1>6. pc > 1 => mempool = << >>
  BY <1>0, <1>1 DEF RunInv
<1>7. pc = 1 => book = file.contracts
  BY <1>0, <1>1 DEF RunInv
<1>8. Typed'
  <2>1. file'.step \in -1 .. NUMBER_OF_STEPS /\ step' \in -1 .. NUMBER_OF_STEPS
    BY <1>1, <1>2, <1>3 DEF NUMBER_OF_STEPS
  <2>2. running' \in BOOLEAN /\ pc' \in Nat \ {0}
    BY <1>1
  <2>3. \A x \in Contracts : book'[x] <= Len(chain'.made[x]) /\ file'.contracts[x] <= Len(chain'.made[x])
    BY <1>0, <1>1, <1>2 DEF Typed
  <2>4. file'.contracts \in [Contracts -> Nat] /\ book' \in [Contracts -> Nat]
    BY <1>0, <1>1, <1>2 DEF Typed
  <2> QED
    BY <1>0, <1>1, <2>1, <2>2, <2>3, <2>4 DEF Typed
<1>9. ChainInv' /\ WaitInv'
  BY <1>0, <1>1 DEF ChainInv, WaitInv
<1>10. RunInv'
  <2>1. running' => step' < lastStep'
    BY <1>1
  <2>2. pc' = 1 /\ book' = file'.contracts
    BY <1>1, <1>2
  <2> QED
    BY <2>1, <2>2 DEF RunInv
<1>11. DoneInv'
  <2>1. ASSUME NEW o, o \in OperationsBefore(net, step + 1 + 1, 1)
        PROVE  Executed(net, o, book, chain)
    <3>0. step + 1 + 1 \in 0 .. NUMBER_OF_STEPS + 1 /\ 1 \in Nat /\ pc \in Nat
      <4>1. step \in Int /\ step + 1 \in 0 .. NUMBER_OF_STEPS /\ pc \in Nat
        BY <1>0, <1>3 DEF Typed
      <4> QED
        BY <4>1 DEF NUMBER_OF_STEPS
    <3>1. \/ \E u \in 0 .. (step + 1 + 1) - 1 : o \in Operations[net][u]
          \/ \E j \in 1 .. Len(Program[net][step + 1 + 1]) : j < 1 /\ o = Program[net][step + 1 + 1][j]
      BY <1>3, <2>1, <3>0, BeforeIs
    <3>2. PICK u \in 0 .. step + 1 : o \in Operations[net][u]
      <4>1. step \in Int
        BY <1>0 DEF Typed
      <4> QED
        BY <3>1, <4>1
    <3>3. o \in OperationsBefore(net, step + 1, pc)
      <4>1. CASE u \in 0 .. (step + 1) - 1
        BY <1>3, <3>0, <3>2, <4>1, BeforeIs
      <4>2. CASE u = step + 1
        <5>1. Operations[net][step + 1] = {Program[net][step + 1][j] : j \in 1 .. Len(Program[net][step + 1])}
          BY <1>3, OrderIs
        <5>2. PICK j \in 1 .. Len(Program[net][step + 1]) : o = Program[net][step + 1][j]
          BY <3>2, <4>2, <5>1
        <5>3. j < pc
          BY <1>3, <1>4
        <5> QED
          BY <1>3, <3>0, <5>2, <5>3, BeforeIs
      <4>3. u \in 0 .. (step + 1) - 1 \/ u = step + 1
        <5>1. step \in Int
          BY <1>0 DEF Typed
        <5> QED
          BY <3>2, <5>1
      <4> QED
        BY <4>1, <4>2, <4>3
    <3> QED
      BY <1>0, <1>1, <3>3 DEF DoneInv
  <2> QED
    BY <1>1, <1>2, <2>1 DEF DoneInv
<1>12. OpenerInv'
  <2>1. CASE pc = 1
    BY <1>0, <1>1, <1>2, <1>7, <2>1 DEF OpenerInv
  <2>2. CASE pc > 1
    BY <1>1, <1>6, <2>2 DEF OpenerInv
  <2> QED
    BY <1>3, <2>1, <2>2
<1>13. ReachInv'
  <2>0. LastFinished(net) \in Nat
    BY DEF LastFinished, RelistingStep
  <2>1. step < LastFinished(net)
    <3>1. ASSUME step = LastFinished(net)
          PROVE  FALSE
      <4>1. pc = 1 /\ Len(Program[net][step + 1]) >= 1
        BY <1>0, <1>1, <3>1, NothingBehindLast DEF ReachInv
      <4> QED
        BY <1>4, <4>1
    <3> QED
      BY <1>0, <1>1, <2>0, <3>1 DEF ReachInv, Typed
  <2> QED
    BY <1>0, <1>1, <1>2, <2>0, <2>1 DEF ReachInv, Typed
<1>14. DoomInv'
  BY <1>1, <1>5 DEF DoomInv
<1> QED
  BY <1>8, <1>9, <1>10, <1>11, <1>12, <1>13, <1>14 DEF SetUpInv

(***************************************************************************)
(* The chain moves.  What it grows to keeps what does not depend on the    *)
(* transaction the script waits for.                                       *)
(***************************************************************************)
LEMMA ChainMoves ==
  ASSUME SetUpInv, net' = net, file' = file, IsChain(chain'), Grows(net, chain, chain')
  PROVE  /\ \A x \in Contracts : /\ Len(chain.made[x]) <= Len(chain'.made[x])
                                 /\ Len(chain.made[x]) \in Nat /\ Len(chain'.made[x]) \in Nat
                                 /\ file.contracts[x] <= Len(chain'.made[x])
                                 /\ book[x] <= Len(chain'.made[x])
         /\ \A i \in 1 .. Len(mempool) : Sent(net, mempool[i], chain')
         /\ \A op \in OperationsBefore(net, file.step + 1, 1) :
              Executed(net, op, file.contracts, chain')
         /\ running => \A op \in OperationsBefore(net, step + 1, pc) : Executed(net, op, book, chain')
         /\ running /\ doomed =>
              \A j \in 1 .. Len(Program[net][step + 1]) :
                Held(net, step + 1, j, file.contracts, chain) =>
                  Held(net, step + 1, j, file.contracts, chain')
<1>0. Typed /\ ChainInv /\ WaitInv /\ RunInv /\ DoneInv /\ OpenerInv /\ ReachInv /\ DoomInv
  BY DEF SetUpInv
<1>1. IsChain(chain) /\ net \in Nets
  BY <1>0 DEF Typed
<1>2. ASSUME NEW x \in Contracts
      PROVE  /\ Len(chain.made[x]) <= Len(chain'.made[x])
             /\ Len(chain.made[x]) \in Nat /\ Len(chain'.made[x]) \in Nat
             /\ file.contracts[x] <= Len(chain'.made[x])
             /\ book[x] <= Len(chain'.made[x])
  <2>1. Len(chain.made[x]) <= Len(chain'.made[x])
    BY Zenon DEF Grows
  <2>2. Len(chain.made[x]) \in Nat /\ Len(chain'.made[x]) \in Nat
    BY <1>1 DEF IsChain
  <2>3. /\ file.contracts[x] <= Len(chain.made[x]) /\ file.contracts[x] \in Nat
        /\ book[x] <= Len(chain.made[x]) /\ book[x] \in Nat
    BY <1>0 DEF Typed
  <2>4. \A i, j, k \in Nat : i <= j /\ j <= k => i <= k
    OBVIOUS
  <2> QED
    BY <2>1, <2>2, <2>3, <2>4, Zenon
<1>3. ASSUME NEW i \in 1 .. Len(mempool)
      PROVE  Sent(net, mempool[i], chain')
  <2>1. Sent(net, mempool[i], chain)
    BY <1>0 DEF ChainInv
  <2> QED
    BY <1>1, <2>1, SentGrows, ZenonT(30)
<1>4. ASSUME NEW op, op \in OperationsBefore(net, file.step + 1, 1)
      PROVE  Executed(net, op, file.contracts, chain')
  <2>1. Executed(net, op, file.contracts, chain)
    BY <1>0, <1>4 DEF DoneInv
  <2>2. op \in OperationsOf(net)
    <3>1. file.step + 1 \in 0 .. NUMBER_OF_STEPS + 1 /\ 1 \in Nat
      <4>1. file.step \in -1 .. NUMBER_OF_STEPS
        BY <1>0 DEF Typed
      <4> QED
        BY <4>1 DEF NUMBER_OF_STEPS
    <3>2. \/ \E u \in 0 .. (file.step + 1) - 1 : op \in Operations[net][u]
          \/ \E j \in 1 .. Len(Program[net][file.step + 1]) : j < 1 /\ op = Program[net][file.step + 1][j]
      BY <1>1, <1>4, <3>1, BeforeIs
    <3>3. \E u \in 0 .. NUMBER_OF_STEPS : op \in Operations[net][u]
      <4>1. PICK u \in 0 .. (file.step + 1) - 1 : op \in Operations[net][u]
        BY <3>2
      <4>2. file.step \in -1 .. NUMBER_OF_STEPS
        BY <1>0 DEF Typed
      <4>3. u \in 0 .. NUMBER_OF_STEPS
        BY <4>1, <4>2 DEF NUMBER_OF_STEPS
      <4> QED
        BY <4>1, <4>3
    <3> QED
      BY <1>1, <3>3, OperationsAre
  <2>3. IsOperation(op)
    BY <1>1, <2>2, OperationsAre DEF OpsAreOrdered
  <2> QED
    BY <1>1, <2>1, <2>3, ExecutedGrows, ZenonT(30)
<1>5. ASSUME running, NEW op, op \in OperationsBefore(net, step + 1, pc)
      PROVE  Executed(net, op, book, chain')
  <2>1. Executed(net, op, book, chain)
    BY <1>0, <1>5 DEF DoneInv
  <2>2. step + 1 \in 0 .. NUMBER_OF_STEPS /\ pc \in Nat
    BY <1>0, <1>5, CurrentIs DEF Typed
  <2>3. IsOperation(op)
    BY <1>1, <1>5, <2>2, BeforeAreOf
  <2> QED
    BY <1>1, <2>1, <2>3, ExecutedGrows, ZenonT(30)
<1>6. ASSUME NEW j \in 1 .. Len(Program[net][step + 1]),
             Held(net, step + 1, j, file.contracts, chain)
      PROVE  Held(net, step + 1, j, file.contracts, chain')
  BY <1>1, <1>6, HeldGrows, ZenonT(30)
<1> QED
  BY <1>2, <1>3, <1>4, <1>5, <1>6

LEMMA ClaimGovernanceSetUpInv ==
  ASSUME SetUpInv, NEW gov, ClaimGovernance(gov)
  PROVE  SetUpInv'
<1>0. Typed /\ ChainInv /\ WaitInv /\ RunInv /\ DoneInv /\ OpenerInv /\ ReachInv /\ DoomInv
  BY DEF SetUpInv
<1>1. /\ CanClaim(chain, gov) /\ chain' = Claimed(chain, gov, ~MultisigIsDeployer(net))
      /\ net' = net /\ mempool' = mempool /\ file' = file /\ running' = running /\ step' = step
      /\ pc' = pc /\ waiting' = waiting /\ book' = book /\ lastStep' = lastStep
      /\ cut' = cut /\ doomed' = doomed
  BY DEF ClaimGovernance, scriptVars
<1>2. IsChain(chain) /\ net \in Nets /\ (MultisigIsDeployer(net) => chain.claimed = {})
      /\ Sound(net, chain)
  BY <1>0 DEF Typed, ChainInv, Sound
<1>3. Handed(chain, gov, ~MultisigIsDeployer(net), chain')
  BY <1>1, <1>2, ClaimedIs, ZenonT(30)
<1>4. IsChain(chain') /\ Grows(net, chain, chain')
  BY <1>2, <1>3, ClaimedGrows, ZenonT(30)
<1>5. chain'.made = chain.made /\ chain'.registered = chain.registered
      /\ chain'.offered \cup chain'.claimed \subseteq chain.offered \cup chain.claimed
      /\ (MultisigIsDeployer(net) => chain'.claimed = {})
  BY <1>2, <1>3 DEF Handed
<1>6. Typed'
  BY <1>0, <1>1, <1>4, <1>5 DEF Typed
<1>7. ChainInv'
  <2>1. \A i \in 1 .. Len(mempool) : Sent(net, mempool[i], chain')
    BY <1>1, <1>4, ChainMoves
  <2>2. /\ \A r \in chain.registered : Wired(chain', r[1], r[2], r[3]) /\ Exists(chain', Data, r[1])
        /\ \A g \in chain.offered \cup chain.claimed : Exists(chain', g[1], g[2])
    BY <1>2, <1>4, SoundGrows
  <2>3. Sound(net, chain')
    BY <1>2, <1>5, <2>2 DEF Sound
  <2> QED
    BY <1>1, <2>1, <2>3 DEF ChainInv
<1>8. WaitInv'
  <2> SUFFICES ASSUME waiting
               PROVE  WaitInv'
    BY <1>1 DEF WaitInv
  <2> DEFINE op == Program[net][step + 1][pc]
             tx == mempool[Len(mempool)]
  <2>1. /\ running /\ mempool # << >> /\ pc \in 1 .. Len(Program[net][step + 1])
        /\ tx = Transaction(op, book) /\ (Succeeds(chain, tx) \/ Executed(net, op, book, chain))
    BY <1>0 DEF WaitInv
  <2>2. Len(mempool) \in 1 .. Len(mempool)
    BY <1>0, <2>1 DEF Typed
  <2>3. GoodTx(net, tx, chain)
    BY <1>0, <2>2 DEF ChainInv, Sent
  <2>4. tx.op = op /\ IsOperation(op)
    <3>1. tx.op = op
      BY <2>1, TransactionIs
    <3> QED
      BY <2>3, <3>1 DEF GoodTx
  <2> HIDE DEF op, tx
  <2>5. Succeeds(chain', tx) \/ Executed(net, op, book, chain')
    <3>1. CASE Executed(net, op, book, chain)
      BY <1>2, <1>4, <2>4, <3>1, ExecutedGrows, ZenonT(30)
    <3>2. CASE Succeeds(chain, tx)
      <4>1. ASSUME ~Succeeds(chain', tx)
            PROVE  Executed(net, op, book, chain')
        BY <1>2, <1>3, <1>4, <2>1, <2>3, <3>2, <4>1, ClaimExecutes, ZenonT(30)
      <4> QED
        BY <4>1
    <3> QED
      BY <2>1, <3>1, <3>2
  <2> QED
    BY <1>1, <2>1, <2>5 DEF WaitInv, op, tx
<1>9. RunInv' /\ OpenerInv' /\ ReachInv'
  BY <1>0, <1>1 DEF RunInv, OpenerInv, ReachInv
<1>10. DoneInv'
  BY <1>1, <1>4, ChainMoves DEF DoneInv
<1>11. DoomInv'
  <2> SUFFICES ASSUME running, doomed
               PROVE  DoomInv'
    BY <1>1 DEF DoomInv
  <2>1. PICK j \in 1 .. Len(Program[net][step + 1]) :
          /\ j >= pc /\ (waiting => j > pc)
          /\ Held(net, step + 1, j, file.contracts, chain)
    BY <1>0 DEF DoomInv
  <2>2. Held(net, step + 1, j, file.contracts, chain')
    BY <1>1, <1>4, <2>1, ChainMoves
  <2> QED
    BY <1>0, <1>1, <2>1, <2>2 DEF DoomInv
<1> QED
  BY <1>6, <1>7, <1>8, <1>9, <1>10, <1>11 DEF SetUpInv

\* The head of the mempool is mined.
LEMMA MineMoves ==
  ASSUME SetUpInv, Mine
  PROVE  /\ Len(mempool) >= 1 /\ Len(mempool) \in Nat
         /\ Sent(net, mempool[1], chain) /\ MinedCases(chain, mempool[1], chain')
         /\ IsChain(chain') /\ Grows(net, chain, chain') /\ Sound(net, chain')
         /\ mempool' \in Seq(Txs(net)) /\ Len(mempool') = Len(mempool) - 1
         /\ \A i \in 1 .. Len(mempool') : mempool'[i] = mempool[i + 1] /\ i + 1 \in 1 .. Len(mempool)
<1>0. Typed /\ ChainInv
  BY DEF SetUpInv
<1>1. mempool # << >> /\ mempool' = Tail(mempool) /\ chain' = Mined(chain, Head(mempool))
  BY DEF Mine
<1>2. mempool \in Seq(Txs(net)) /\ IsChain(chain) /\ net \in Nets /\ Sound(net, chain)
  BY <1>0 DEF Typed, ChainInv
<1>3. /\ Len(mempool) >= 1 /\ Len(mempool) \in Nat /\ Head(mempool) = mempool[1]
      /\ mempool' \in Seq(Txs(net)) /\ Len(mempool') = Len(mempool) - 1
      /\ \A i \in 1 .. Len(mempool') : mempool'[i] = mempool[i + 1] /\ i + 1 \in 1 .. Len(mempool)
  BY <1>1, <1>2
<1>4. Sent(net, mempool[1], chain)
  BY <1>0, <1>3 DEF ChainInv
<1>5. MinedCases(chain, mempool[1], chain')
  <2>1. GoodTx(net, mempool[1], chain) /\ chain' = Mined(chain, mempool[1])
    BY <1>1, <1>3, <1>4 DEF Sent
  <2> QED
    BY <1>2, <2>1, MinedIs, ZenonT(30)
<1>6. IsChain(chain') /\ Grows(net, chain, chain')
  <2>1. GoodTx(net, mempool[1], chain)
    BY <1>4 DEF Sent
  <2> QED
    BY <1>2, <1>5, <2>1, MinedGrows, ZenonT(30)
<1>7. Sound(net, chain')
  <2>1. OpsAreOrdered(net)
    BY <1>2, OperationsAre
  <2> QED
    BY <1>2, <1>4, <1>5, <1>6, <2>1, MinedSound, ZenonT(30)
<1> QED
  BY <1>3, <1>4, <1>5, <1>6, <1>7

\* What an earlier run had sent is mined while the script waits for its own.
LEMMA StaleMined ==
  ASSUME SetUpInv, Mine, waiting, Len(mempool) # 1,
         NEW op, op = Program[net][step + 1][pc], NEW tx, tx = mempool[Len(mempool)]
  PROVE  Succeeds(chain', tx) \/ Executed(net, op, book, chain')
<1>0. Typed /\ ChainInv /\ WaitInv /\ RunInv /\ OpenerInv /\ ReachInv
  BY DEF SetUpInv
<1>1. /\ running /\ mempool # << >> /\ pc \in 1 .. Len(Program[net][step + 1])
      /\ tx = Transaction(op, book) /\ (Succeeds(chain, tx) \/ Executed(net, op, book, chain))
  BY <1>0 DEF WaitInv
<1>2. /\ IsChain(chain) /\ IsChain(chain') /\ Grows(net, chain, chain') /\ net \in Nets
      /\ MinedCases(chain, mempool[1], chain')
  BY <1>0, MineMoves DEF Typed
<1>3. Len(mempool) \in 1 .. Len(mempool) /\ 1 \in 1 .. Len(mempool)
  BY MineMoves
<1>4. GoodTx(net, tx, chain) /\ GoodTx(net, mempool[1], chain)
  BY <1>0, <1>3 DEF ChainInv, Sent
<1>5. tx.op = op /\ IsOperation(op) /\ \A x \in op.args \cup {op.on} : tx.at[x] = book[x]
  <2>1. tx.op = op /\ \A x \in op.args \cup {op.on} : tx.at[x] = book[x]
    BY <1>1, TransactionIs
  <2> QED
    BY <1>4, <2>1 DEF GoodTx
<1>6. pc = 1 /\ book = file.contracts
  <2>1. ~(pc > 1)
    BY <1>0, <1>1 DEF RunInv
  <2>2. pc = 1
    BY <1>1, <2>1
  <2> QED
    BY <1>0, <1>1, <2>2 DEF RunInv
<1>7. op \in Openers(net)
  <2>1. step + 1 \in 0 .. NUMBER_OF_STEPS /\ step + 1 \in 0 .. NUMBER_OF_STEPS + 1
    BY <1>0, <1>1, CurrentIs
  <2>2. Program[net][step + 1] \in Seq(Operations[net][step + 1])
    BY <1>2, <2>1, OrderIs
  <2>3. Program[net][step + 1] # << >>
    BY <1>1, <2>2
  <2>4. step + 1 # RelistingStep
    <3>1. CASE isNotAvax(net)
      <4>1. step # RelistingStep - 1
        BY <1>0, <1>1, <3>1 DEF ReachInv, LastFinished
      <4>2. step \in Int
        BY <1>0 DEF Typed
      <4> QED
        BY <4>1, <4>2 DEF RelistingStep
    <3>2. CASE ~isNotAvax(net)
      <4>1. Program[net][RelistingStep] = << >>
        BY <1>2, <3>2, OrderIs DEF StepsAreOrdered
      <4> QED
        BY <2>3, <4>1
    <3> QED
      BY <3>1, <3>2
  <2> QED
    BY <1>6, <2>1, <2>3, <2>4 DEF Openers
<1>8. CASE Executed(net, op, book, chain)
  BY <1>2, <1>5, <1>8, ExecutedGrows, ZenonT(30)
<1>9. CASE Succeeds(chain, tx)
  <2> SUFFICES ASSUME ~Succeeds(chain', tx)
               PROVE  Executed(net, op, book, chain')
    OBVIOUS
  <2> PICK s : s = mempool[1]
    OBVIOUS
  <2>1. s.op.kind = "initialize" /\ tx.op.kind = "initialize" /\ s.op.on = tx.op.on => s.op = tx.op
    <3>1. s.op \in OperationsOf(net) /\ tx.op \in OperationsOf(net)
      BY <1>4 DEF GoodTx, Txs
    <3>2. OpsAreOrdered(net)
      BY <1>2, OperationsAre
    <3> QED
      BY <3>1, <3>2 DEF OpsAreOrdered
  <2>2. /\ Succeeds(chain, s) /\ s.op = tx.op /\ tx.op.kind # "deploy"
        /\ s.at[tx.op.on] = tx.at[tx.op.on]
    <3>1. SameCall(chain, s, tx)
      BY <1>2, <1>4, <1>9, <2>1, Overtaken, ZenonT(60)
    <3> QED
      BY <3>1 DEF SameCall
  <2>3. \A a \in op.args : s.at[a] = file.contracts[a]
    <3>1. Matches(net, s, file.contracts)
      BY <1>0, <1>3 DEF OpenerInv
    <3>2. s.op = op /\ op \in Openers(net) /\ op.kind # "deploy"
      BY <1>5, <1>7, <2>2
    <3>3. s.at[op.on] = file.contracts[op.on]
      BY <1>5, <1>6, <2>2
    <3> QED
      BY <3>1, <3>2, <3>3 DEF Matches
  <2>4. s = tx
    <3>1. s \in Txs(net) /\ tx \in Txs(net) /\ s.op = tx.op
          /\ s.at \in [op.args \cup {op.on} -> Nat] /\ tx.at \in [op.args \cup {op.on} -> Nat]
      BY <1>4, <1>5, <2>2 DEF GoodTx
    <3>2. \A x \in op.args \cup {op.on} : s.at[x] = tx.at[x]
      BY <1>5, <1>6, <2>2, <2>3
    <3>3. s.at = tx.at
      BY <3>1, <3>2
    <3> QED
      BY <3>1, <3>3 DEF Txs
  <2>5. op.kind # "deploy" /\ MinedCases(chain, tx, chain')
    BY <1>2, <1>5, <2>2, <2>4
  <2>6. /\ \A x \in op.args : book[x] = book[x]
        /\ op.kind = "deploy" => op.on \notin op.args
        /\ book[op.on] = IF op.kind = "deploy" THEN Len(chain'.made[op.on]) ELSE book[op.on]
    BY <2>5
  <2> QED
    BY <1>1, <1>2, <1>4, <1>5, <1>9, <2>5, <2>6, EffectExecutes, ZenonT(60)
<1> QED
  BY <1>1, <1>8, <1>9

\* The script's own transaction is mined: its operation is done, by the book.
LEMMA OwnMined ==
  ASSUME SetUpInv, Mine, waiting, Len(mempool) = 1
  PROVE  /\ waiting' = FALSE /\ pc' = pc + 1 /\ running
         /\ pc \in 1 .. Len(Program[net][step + 1]) /\ book' \in [Contracts -> Nat]
         /\ \A x \in Contracts : book'[x] <= Len(chain'.made[x])
         /\ \A x \in Contracts : x \notin DeployedBy(Operations[net][step + 1]) => book'[x] = book[x]
         /\ \A o \in OperationsBefore(net, step + 1, pc + 1) : Executed(net, o, book', chain')
<1> DEFINE op == Program[net][step + 1][pc]
<1> PICK tx : tx = mempool[1]
  OBVIOUS
<1>0. Typed /\ ChainInv /\ WaitInv /\ RunInv /\ DoneInv
  BY DEF SetUpInv
<1>1. /\ running /\ mempool # << >> /\ pc \in 1 .. Len(Program[net][step + 1])
      /\ tx = Transaction(op, book) /\ (Succeeds(chain, tx) \/ Executed(net, op, book, chain))
  BY <1>0 DEF WaitInv
<1>2. /\ net \in Nets /\ step + 1 \in 0 .. NUMBER_OF_STEPS /\ step + 1 \in 0 .. NUMBER_OF_STEPS + 1
      /\ pc \in Nat /\ IsChain(chain) /\ book \in [Contracts -> Nat]
  BY <1>0, <1>1, CurrentIs DEF Typed
<1>3. /\ IsChain(chain') /\ Grows(net, chain, chain') /\ MinedCases(chain, tx, chain')
      /\ GoodTx(net, tx, chain)
  BY MineMoves DEF Sent
<1>4. op \in Operations[net][step + 1] /\ IsOperation(op) /\ DeploysFirst(op, OperationsBefore(net, step + 1, pc))
  BY <1>1, <1>2, OpIs
<1>5. tx.op = op /\ op.on \in Contracts
  BY <1>1, <1>4, TransactionIs DEF IsOperation
<1>6. /\ waiting' = FALSE /\ pc' = pc + 1
      /\ book' = [book EXCEPT ![op.on] = IF op.kind = "deploy" THEN Len(chain'.made[op.on]) ELSE book[op.on]]
      /\ net' = net /\ file' = file
  <2>1. Head(mempool) = tx
    <3>1. mempool \in Seq(Txs(net))
      BY <1>0 DEF Typed
    <3>2. Head(mempool) = mempool[1]
      BY <3>1
    <3> QED
      BY <3>2
  <2>2. Confirm(tx) /\ net' = net /\ file' = file
    BY <2>1 DEF Mine
  <2> HIDE DEF op
  <2> QED
    BY <1>5, <2>2 DEF Confirm, Record
<1> HIDE DEF op
<1>7. \A x \in Contracts : /\ Len(chain'.made[x]) \in Nat /\ book[x] <= Len(chain'.made[x])
                           /\ book[x] \in Nat
  BY <1>2, <1>3, <1>6, ChainMoves
<1>8. /\ book' \in [Contracts -> Nat]
      /\ book'[op.on] = IF op.kind = "deploy" THEN Len(chain'.made[op.on]) ELSE book[op.on]
      /\ \A x \in Contracts : x # op.on => book'[x] = book[x]
  BY <1>2, <1>5, <1>6, <1>7
<1>9. \A x \in Contracts : book'[x] <= Len(chain'.made[x])
  BY <1>5, <1>7, <1>8
<1>10. \A x \in Contracts : x \notin DeployedBy(Operations[net][step + 1]) => book'[x] = book[x]
  <2>1. op.kind = "deploy" => op.on \in DeployedBy(Operations[net][step + 1])
    BY <1>4 DEF DeployedBy
  <2> QED
    BY <1>5, <1>8, <2>1
<1>11. Executed(net, op, book', chain')
  <2>1. CASE Succeeds(chain, tx)
    <3>1. op.kind = "deploy" => op.on \notin op.args
      BY <1>4 DEF DeploysFirst, Uses
    <3>2. \A x \in op.args : book'[x] = book[x]
      BY <1>4, <1>8, <3>1 DEF IsOperation
    <3> QED
      BY <1>1, <1>2, <1>3, <1>4, <1>8, <2>1, <3>1, <3>2, EffectExecutes, ZenonT(60)
  <2>2. CASE ~Succeeds(chain, tx)
    <3>1. chain' = chain /\ op.kind # "deploy"
      BY <1>3, <1>5, <2>2 DEF MinedCases, Succeeds
    <3>2. book' = book
      BY <1>2, <1>5, <1>6, <3>1
    <3> QED
      BY <1>1, <2>2, <3>1, <3>2
  <2> QED
    BY <2>1, <2>2
<1>12. ASSUME NEW o, o \in OperationsBefore(net, step + 1, pc)
       PROVE  Executed(net, o, book', chain')
  <2>1. Executed(net, o, book, chain')
    BY <1>1, <1>3, <1>6, <1>12, ChainMoves
  <2>2. CASE o = op
    BY <1>11, <2>2
  <2>3. CASE o # op
    <3>1. IsOperation(o)
      BY <1>2, <1>12, BeforeAreOf
    <3>2. op.kind = "deploy" => op.on \notin o.args \cup {o.on}
      <4>1. ASSUME op.kind = "deploy"
            PROVE  op.on \notin Uses(o) \cup DeployedBy({o} \ {op})
        BY <1>4, <1>12, <4>1 DEF DeploysFirst
      <4>2. o.kind = "deploy" => o.on \in DeployedBy({o} \ {op})
        BY <2>3 DEF DeployedBy
      <4> QED
        BY <4>1, <4>2 DEF Uses
    <3>3. \A x \in o.args \cup {o.on} : book'[x] = book[x]
      BY <1>5, <1>8, <3>1, <3>2 DEF IsOperation
    <3> QED
      BY <2>1, <3>1, <3>3, ExecutedSame, ZenonT(30)
  <2> QED
    BY <2>2, <2>3
<1>13. ASSUME NEW o, o \in OperationsBefore(net, step + 1, pc + 1)
       PROVE  Executed(net, o, book', chain')
  <2>1. pc + 1 \in Nat
    BY <1>2
  <2>2. \/ \E u \in 0 .. (step + 1) - 1 : o \in Operations[net][u]
        \/ \E j \in 1 .. Len(Program[net][step + 1]) : j < pc + 1 /\ o = Program[net][step + 1][j]
    BY <1>2, <1>13, <2>1, BeforeIs
  <2>3. CASE \E u \in 0 .. (step + 1) - 1 : o \in Operations[net][u]
    <3>1. o \in OperationsBefore(net, step + 1, pc)
      BY <1>2, <2>3, BeforeIs
    <3> QED
      BY <1>12, <3>1
  <2>4. ASSUME NEW j \in 1 .. Len(Program[net][step + 1]), j < pc + 1, o = Program[net][step + 1][j]
        PROVE  Executed(net, o, book', chain')
    <3>1. CASE j = pc
      BY <1>11, <2>4, <3>1 DEF op
    <3>2. CASE j < pc
      <4>1. o \in OperationsBefore(net, step + 1, pc)
        BY <1>2, <2>4, <3>2, BeforeIs
      <4> QED
        BY <1>12, <4>1
    <3> QED
      BY <1>2, <2>4, <3>1, <3>2
  <2> QED
    BY <2>2, <2>3, <2>4
<1> QED
  BY <1>1, <1>6, <1>8, <1>9, <1>10, <1>13

LEMMA MineSetUpInv ==
  ASSUME SetUpInv, Mine
  PROVE  SetUpInv'
<1>0. Typed /\ ChainInv /\ WaitInv /\ RunInv /\ DoneInv /\ OpenerInv /\ ReachInv /\ DoomInv
  BY DEF SetUpInv
<1>1. /\ net' = net /\ file' = file /\ running' = running /\ step' = step /\ lastStep' = lastStep
      /\ cut' = cut /\ doomed' = doomed
  BY DEF Mine
<1>2. /\ Len(mempool) >= 1 /\ Len(mempool) \in Nat
      /\ IsChain(chain') /\ Grows(net, chain, chain') /\ Sound(net, chain')
      /\ mempool' \in Seq(Txs(net)) /\ Len(mempool') = Len(mempool) - 1
      /\ \A i \in 1 .. Len(mempool') : mempool'[i] = mempool[i + 1] /\ i + 1 \in 1 .. Len(mempool)
  BY MineMoves
<1>3. ChainInv'
  <2>1. \A i \in 1 .. Len(mempool) : Sent(net, mempool[i], chain')
    BY <1>1, <1>2, ChainMoves
  <2>2. \A i \in 1 .. Len(mempool') : Sent(net, mempool'[i], chain')
    BY <1>2, <2>1
  <2> QED
    BY <1>1, <1>2, <2>2 DEF ChainInv
<1>4. OpenerInv'
  BY <1>0, <1>1, <1>2 DEF OpenerInv
<1>5. \A op \in OperationsBefore(net, file.step + 1, 1) : Executed(net, op, file.contracts, chain')
  BY <1>1, <1>2, ChainMoves
<1>6. running /\ doomed =>
        \A j \in 1 .. Len(Program[net][step + 1]) :
          Held(net, step + 1, j, file.contracts, chain) =>
            Held(net, step + 1, j, file.contracts, chain')
  BY <1>1, <1>2, ChainMoves
<1>7. \A x \in Contracts : file.contracts[x] <= Len(chain'.made[x]) /\ book[x] <= Len(chain'.made[x])
  BY <1>1, <1>2, ChainMoves
<1>8. CASE waiting /\ Len(mempool) = 1
  <2>1. /\ waiting' = FALSE /\ pc' = pc + 1 /\ running
        /\ pc \in 1 .. Len(Program[net][step + 1]) /\ book' \in [Contracts -> Nat]
        /\ \A x \in Contracts : book'[x] <= Len(chain'.made[x])
        /\ \A x \in Contracts : x \notin DeployedBy(Operations[net][step + 1]) => book'[x] = book[x]
        /\ \A o \in OperationsBefore(net, step + 1, pc + 1) : Executed(net, o, book', chain')
    BY <1>8, OwnMined
  <2>2. pc \in Nat \ {0} /\ pc' \in Nat \ {0} /\ pc' > 1
    BY <1>0, <2>1 DEF Typed
  <2>3. Typed'
    BY <1>0, <1>1, <1>2, <1>7, <2>1, <2>2 DEF Typed
  <2>4. WaitInv'
    BY <2>1 DEF WaitInv
  <2>5. mempool' = << >>
    BY <1>2, <1>8
  <2>6. RunInv'
    BY <1>0, <1>1, <2>1, <2>2, <2>5 DEF RunInv
  <2>7. DoneInv'
    BY <1>1, <1>5, <2>1 DEF DoneInv
  <2>8. ReachInv'
    BY <1>0, <1>1, <1>8, <2>1 DEF ReachInv
  <2>9. DoomInv'
    <3> SUFFICES ASSUME doomed
                 PROVE  DoomInv'
      BY <1>1 DEF DoomInv
    <3>1. PICK j \in 1 .. Len(Program[net][step + 1]) :
            /\ j > pc /\ Held(net, step + 1, j, file.contracts, chain)
      BY <1>0, <1>8, <2>1 DEF DoomInv
    <3>2. Held(net, step + 1, j, file.contracts, chain') /\ j >= pc'
      BY <1>6, <2>1, <2>2, <3>1
    <3> QED
      BY <1>0, <1>1, <2>1, <3>2 DEF DoomInv
  <2> QED
    BY <1>3, <1>4, <2>3, <2>4, <2>6, <2>7, <2>8, <2>9 DEF SetUpInv
<1>9. CASE ~(waiting /\ Len(mempool) = 1)
  <2>1. waiting' = waiting /\ pc' = pc /\ book' = book
    BY <1>9 DEF Mine, Confirm
  <2>2. Typed'
    BY <1>0, <1>1, <1>2, <1>7, <2>1 DEF Typed
  <2>3. WaitInv'
    <3> SUFFICES ASSUME waiting
                 PROVE  WaitInv'
      BY <2>1 DEF WaitInv
    <3> DEFINE op == Program[net][step + 1][pc]
               tx == mempool[Len(mempool)]
    <3>1. /\ running /\ pc \in 1 .. Len(Program[net][step + 1]) /\ tx = Transaction(op, book)
      BY <1>0 DEF WaitInv
    <3>2. Succeeds(chain', tx) \/ Executed(net, op, book, chain')
      BY <1>9, StaleMined
    <3> HIDE DEF op, tx
    <3>3. mempool' # << >> /\ mempool'[Len(mempool')] = tx
      <4>1. Len(mempool') \in 1 .. Len(mempool') /\ Len(mempool') + 1 = Len(mempool)
        BY <1>2, <1>9
      <4> QED
        BY <1>2, <4>1 DEF tx
    <3> QED
      BY <1>1, <2>1, <3>1, <3>2, <3>3 DEF WaitInv, op
  <2>4. RunInv'
    <3>1. ASSUME running, pc > 1
          PROVE  mempool' = << >> \/ (waiting /\ Len(mempool') = 1)
      BY <1>0, <1>2, <1>9, <3>1 DEF RunInv
    <3> QED
      BY <1>0, <1>1, <2>1, <3>1 DEF RunInv
  <2>5. DoneInv'
    <3>1. running => \A o \in OperationsBefore(net, step + 1, pc) : Executed(net, o, book, chain')
      BY <1>1, <1>2, ChainMoves
    <3> QED
      BY <1>1, <1>5, <2>1, <3>1 DEF DoneInv
  <2>6. ReachInv'
    BY <1>0, <1>1, <2>1 DEF ReachInv
  <2>7. DoomInv'
    <3> SUFFICES ASSUME running, doomed
                 PROVE  DoomInv'
      BY <1>1 DEF DoomInv
    <3>1. PICK j \in 1 .. Len(Program[net][step + 1]) :
            /\ j >= pc /\ (waiting => j > pc)
            /\ Held(net, step + 1, j, file.contracts, chain)
      BY <1>0 DEF DoomInv
    <3>2. Held(net, step + 1, j, file.contracts, chain')
      BY <1>6, <3>1
    <3> QED
      BY <1>0, <1>1, <2>1, <3>1, <3>2 DEF DoomInv
  <2> QED
    BY <1>3, <1>4, <2>2, <2>3, <2>4, <2>5, <2>6, <2>7 DEF SetUpInv
<1> QED
  BY <1>8, <1>9

(***************************************************************************)
(* The theorems.                                                           *)
(***************************************************************************)
LEMMA NextSetUpInv == SetUpInv /\ [DeployNext]_deployVars => SetUpInv'
<1> SUFFICES ASSUME SetUpInv, [DeployNext]_deployVars
             PROVE  SetUpInv'
  OBVIOUS
<1>1. ASSUME NEW reset \in BOOLEAN, NEW last \in LastSteps, StartRun(reset, last)
      PROVE  SetUpInv'
  BY <1>1, StartRunSetUpInv
<1>2. CASE Broadcast
  BY <1>2, BroadcastSetUpInv
<1>3. CASE Fail \/ Crash
  BY <1>3, StopSetUpInv
<1>4. CASE SaveStep
  BY <1>4, SaveStepSetUpInv
<1>5. CASE Mine
  BY <1>5, MineSetUpInv
<1>6. ASSUME NEW gov, ClaimGovernance(gov)
      PROVE  SetUpInv'
  BY <1>6, ClaimGovernanceSetUpInv
<1>7. CASE UNCHANGED deployVars
  BY <1>7 DEF deployVars, scriptVars, SetUpInv, Typed, ChainInv, WaitInv, RunInv, DoneInv, OpenerInv,
              ReachInv, DoomInv
<1> QED
  BY <1>1, <1>2, <1>3, <1>4, <1>5, <1>6, <1>7 DEF DeployNext, Script

LEMMA Invariance == DeploySpec => []SetUpInv
<1>1. DeployInit => SetUpInv
  BY InitSetUpInv
<1> QED
  BY <1>1, NextSetUpInv, PTL DEF DeploySpec

\* What the runs check follows: the types, what the file vouches for as long as
\* the deployer governs, the wiring of what is listed, and where the script stops.
LEMMA SetUpInvIsSafe == SetUpInv => StepsDoneWhileGoverning
<1> SUFFICES ASSUME SetUpInv
             PROVE  StepsDoneWhileGoverning
  OBVIOUS
<1>0. Typed /\ ChainInv /\ WaitInv /\ DoneInv /\ ReachInv
  BY DEF SetUpInv
<1>1. net \in Nets /\ IsChain(chain) /\ Sound(net, chain) /\ DOMAIN chain.made = Contracts
  BY <1>0 DEF Typed, ChainInv, IsChain
<1>2. DeployTypeOK
  <2>1. IsBook(file.contracts) /\ IsBook(book)
    <3>1. \A x \in Contracts : Len(chain.made[x]) \in Nat
      BY <1>1 DEF IsChain
    <3>2. /\ DOMAIN file.contracts = Contracts /\ DOMAIN book = Contracts
          /\ \A x \in Contracts : /\ file.contracts[x] \in 0 .. Len(chain.made[x])
                                  /\ book[x] \in 0 .. Len(chain.made[x])
      BY <1>0, <3>1 DEF Typed
    <3> QED
      BY <1>1, <3>2 DEF IsBook
  <2>2. /\ \A r \in chain.registered : Exists(chain, Data, r[1]) /\ Exists(chain, r[2], r[3])
        /\ \A gov \in chain.offered \cup chain.claimed : Exists(chain, gov[1], gov[2])
    BY <1>1 DEF Sound, Wired
  <2>3. \A i \in DOMAIN mempool : mempool[i].op.on \in DOMAIN chain.made
    <3>1. DOMAIN mempool = 1 .. Len(mempool)
      BY <1>0 DEF Typed
    <3> QED
      BY <1>0, <1>1, <3>1 DEF ChainInv, Sent, GoodTx, IsOperation
  <2>4. waiting => running /\ mempool # << >>
    BY <1>0 DEF WaitInv
  <2> QED
    BY <1>0, <1>1, <2>1, <2>2, <2>3, <2>4 DEF DeployTypeOK, Typed
<1>3. StopsShort
  BY <1>0 DEF ReachInv, StopsShort
<1>4. ListedForgeIsWired
  BY <1>1 DEF Sound, Wired, ListedForgeIsWired
<1>5. ASSUME ~GovernanceGone
      PROVE  StepsDone
  <2> SUFFICES ASSUME NEW s \in 0 .. file.step, NEW op \in Operations[net][s]
               PROVE  OnChain(op)
    BY DEF StepsDone
  <2>1. file.step + 1 \in 0 .. NUMBER_OF_STEPS + 1 /\ 1 \in Nat /\ s \in 0 .. (file.step + 1) - 1
    <3>1. file.step \in -1 .. NUMBER_OF_STEPS
      BY <1>0 DEF Typed
    <3> QED
      BY <3>1 DEF NUMBER_OF_STEPS
  <2>2. op \in OperationsBefore(net, file.step + 1, 1)
    BY <1>1, <2>1, BeforeIs
  <2>3. Executed(net, op, file.contracts, chain)
    BY <1>0, <2>2 DEF DoneInv
  <2>4. IsOperation(op)
    <3>1. s \in 0 .. NUMBER_OF_STEPS
      BY <1>0 DEF Typed, NUMBER_OF_STEPS
    <3>2. op \in OperationsOf(net)
      BY <1>1, <3>1, OperationsAre
    <3> QED
      BY <1>1, <3>2, OperationsAre DEF OpsAreOrdered
  <2>5. \A gov, n : onlyGovernance(chain, gov, n)
    BY <1>5 DEF GovernanceGone, onlyGovernance
  <2>6. op.kind \in Kinds /\ Exists(chain, op.on, file.contracts[op.on])
    BY <2>3, <2>4 DEF IsOperation, Executed
  <2>7. CASE op.kind = "deploy"
    BY <2>3, <2>6, <2>7 DEF Executed, OnChain
  <2>8. CASE op.kind = "initialize"
    BY <2>3, <2>6, <2>8 DEF Executed, OnChain
  <2>9. CASE op.kind = "add"
    BY <2>3, <2>5, <2>6, <2>9 DEF Executed, OnChain
  <2>10. CASE op.kind = "set"
    BY <2>3, <2>5, <2>6, <2>10 DEF Executed, OnChain
  <2>11. CASE op.kind = "transfer"
    BY <2>3, <2>6, <2>11 DEF Executed, OnChain
  <2> QED
    BY <2>6, <2>7, <2>8, <2>9, <2>10, <2>11 DEF Kinds
<1> QED
  BY <1>2, <1>3, <1>4, <1>5 DEF StepsDoneWhileGoverning

\* However often the script is started, killed, given a LAST_STEP or RESET, and
\* wherever claimGovernance overtakes it, the file only vouches for steps that
\* are done on the chain as long as the deployer governs; whatever forge is
\* listed is wired; and no run gets past step 16, or past step 4 on Avalanche.
THEOREM DeploymentIsSafe == DeploySpec => []StepsDoneWhileGoverning
BY Invariance, SetUpInvIsSafe, PTL

\* Only saving a step writes the file.
LEMMA DoomedStep ==
  SetUpInv /\ [DeployNext]_deployVars =>
    [doomed /\ doomed' => file' = file]_deployVars
<1> SUFFICES ASSUME SetUpInv, [DeployNext]_deployVars, doomed, doomed'
             PROVE  file' = file
  OBVIOUS
<1>1. ~SaveStep
  <2>1. CASE running
    BY <2>1, DoomedSavesNothing
  <2>2. CASE ~running
    BY <2>2 DEF SaveStep
  <2> QED
    BY <2>1, <2>2
<1>2. ASSUME NEW reset, NEW last, StartRun(reset, last)
      PROVE  file' = file
  BY <1>2 DEF StartRun
<1>3. CASE Broadcast \/ Fail \/ Crash \/ Mine
  BY <1>3 DEF Broadcast, Fail, Crash, Mine
<1>4. ASSUME NEW gov, ClaimGovernance(gov)
      PROVE  file' = file
  BY <1>4 DEF ClaimGovernance
<1>5. CASE UNCHANGED deployVars
  BY <1>5 DEF deployVars
<1> QED
  BY <1>1, <1>2, <1>3, <1>4, <1>5 DEF DeployNext, Script

\* A run that resumes at a step whose one-shot call is spent never writes the
\* file: it takes a RESET to get past that step.
THEOREM DoomedRunsSaveNothing == DeploySpec => StuckUntilReset
BY Invariance, DoomedStep, PTL DEF DeploySpec, StuckUntilReset

-----------------------------------------------------------------------------
(***************************************************************************)
(* The pausing manager.                                                    *)
(***************************************************************************)
(* The status of a target depends on scopes of the register only. *)
LEMMA ScopesOfTarget ==
    ASSUME NEW t \in Target
    PROVE  ScopesOf(t) \subseteq Scope
<1>1. CASE t \in YieldContract
  <2>1. PICK f \in ForgeId, a \in Asset, e \in Expiry : t = <<"yieldContract", f, a, e>>
    BY <1>1 DEF YieldContract
  <2>2. ScopesOf(t) = {<<"forge", f>>, <<"forgeAsset", f, a>>, <<"forgeAssetExpiry", f, a, e>>}
    BY <2>1 DEF ScopesOf, YieldContractScopes
  <2>3. <<"forge", f>> \in Scope
    BY DEF Scope
  <2>4. <<"forgeAsset", f, a>> \in Scope
    BY DEF Scope
  <2>5. <<"forgeAssetExpiry", f, a, e>> \in Scope
    BY DEF Scope
  <2> QED BY <2>2, <2>3, <2>4, <2>5
<1>2. CASE t \in MarketOfFactory
  <2>1. PICK id \in FactoryId, m \in Market : t = <<"ofFactory", id, m>>
    BY <1>2 DEF MarketOfFactory
  <2>2. ScopesOf(t) = {<<"marketFactory", id>>, <<"market", id, m>>}
    BY <2>1 DEF ScopesOf, MarketScopes
  <2>3. <<"marketFactory", id>> \in Scope
    BY DEF Scope
  <2>4. <<"market", id, m>> \in Scope
    BY DEF Scope
  <2> QED BY <2>2, <2>3, <2>4
<1>3. CASE t \in {"mining"} \X LiqMining
  <2>1. PICK l \in LiqMining : t = <<"mining", l>>
    BY <1>3
  <2>2. ScopesOf(t) = {<<"liqMining", l>>}
    BY <2>1 DEF ScopesOf
  <2>3. <<"liqMining", l>> \in Scope
    BY DEF Scope
  <2> QED BY <2>2, <2>3
<1> QED BY <1>1, <1>2, <1>3 DEF Target

(* The operations of the contract, without the kind of target they are for. *)
WriteStep == \E caller \in Address, s \in Scope, b \in BOOLEAN :
                SetPaused(caller, s, b) \/ SetLocked(caller, s)

CheckStep == \E t \in Target : CheckStatus(t)

AdminStep == \E caller \in Address :
    \/ \E admin \in Address, b \in BOOLEAN : SetPausingAdmin(caller, admin, b)
    \/ \E k \in Kind, h \in Handler : RequestHandlerChange(caller, k, h)
    \/ \E k \in Kind : LockHandlerPermanently(caller, k)
    \/ LockPausingManagerPermanently(caller)

ApplyStep == \E k \in Kind : ApplyHandlerChange(k)

(* Every setter of the contract writes one scope. *)
LEMMA FlagSteps ==
    ASSUME NEW caller \in Address,
           ForgeFlag(caller) \/ MarketFlag(caller) \/ LiqMiningFlag(caller)
    PROVE  WriteStep
<1>1. CASE ForgeFlag(caller)
  <2>1. PICK f \in ForgeId, b \in BOOLEAN :
          \/ SetForgePaused(caller, f, b)
          \/ SetForgeLocked(caller, f)
          \/ \E a \in Asset : \/ SetForgeAssetPaused(caller, f, a, b)
                              \/ SetForgeAssetLocked(caller, f, a)
          \/ \E a \in Asset, e \in Expiry : \/ SetForgeAssetExpiryPaused(caller, f, a, e, b)
                                            \/ SetForgeAssetExpiryLocked(caller, f, a, e)
    BY <1>1 DEF ForgeFlag
  <2>2. CASE SetForgePaused(caller, f, b) \/ SetForgeLocked(caller, f)
    <3>1. <<"forge", f>> \in Scope
      BY DEF Scope
    <3> QED BY <2>2, <3>1 DEF WriteStep, SetForgePaused, SetForgeLocked
  <2>3. ASSUME NEW a \in Asset,
               SetForgeAssetPaused(caller, f, a, b) \/ SetForgeAssetLocked(caller, f, a)
        PROVE  WriteStep
    <3>1. <<"forgeAsset", f, a>> \in Scope
      BY DEF Scope
    <3> QED BY <2>3, <3>1 DEF WriteStep, SetForgeAssetPaused, SetForgeAssetLocked
  <2>4. ASSUME NEW a \in Asset, NEW e \in Expiry,
               \/ SetForgeAssetExpiryPaused(caller, f, a, e, b)
               \/ SetForgeAssetExpiryLocked(caller, f, a, e)
        PROVE  WriteStep
    <3>1. <<"forgeAssetExpiry", f, a, e>> \in Scope
      BY DEF Scope
    <3> QED BY <2>4, <3>1 DEF WriteStep, SetForgeAssetExpiryPaused, SetForgeAssetExpiryLocked
  <2> QED BY <2>1, <2>2, <2>3, <2>4
<1>2. CASE MarketFlag(caller)
  <2>1. PICK id \in FactoryId, b \in BOOLEAN :
          \/ SetMarketFactoryPaused(caller, id, b)
          \/ SetMarketFactoryLocked(caller, id)
          \/ \E m \in Market : \/ SetMarketPaused(caller, id, m, b)
                               \/ SetMarketLocked(caller, id, m)
    BY <1>2 DEF MarketFlag
  <2>2. CASE SetMarketFactoryPaused(caller, id, b) \/ SetMarketFactoryLocked(caller, id)
    <3>1. <<"marketFactory", id>> \in Scope
      BY DEF Scope
    <3> QED BY <2>2, <3>1 DEF WriteStep, SetMarketFactoryPaused, SetMarketFactoryLocked
  <2>3. ASSUME NEW m \in Market,
               SetMarketPaused(caller, id, m, b) \/ SetMarketLocked(caller, id, m)
        PROVE  WriteStep
    <3>1. <<"market", id, m>> \in Scope
      BY DEF Scope
    <3> QED BY <2>3, <3>1 DEF WriteStep, SetMarketPaused, SetMarketLocked
  <2> QED BY <2>1, <2>2, <2>3
<1>3. CASE LiqMiningFlag(caller)
  <2>1. PICK l \in LiqMining, b \in BOOLEAN :
          SetLiqMiningPaused(caller, l, b) \/ SetLiqMiningLocked(caller, l)
    BY <1>3 DEF LiqMiningFlag
  <2>2. <<"liqMining", l>> \in Scope
    BY DEF Scope
  <2> QED BY <2>1, <2>2 DEF WriteStep, SetLiqMiningPaused, SetLiqMiningLocked
<1> QED BY <1>1, <1>2, <1>3

(* Every check of the contract asks about one target. *)
LEMMA CheckSteps == Check => CheckStep
<1>1. ASSUME NEW f \in ForgeId, NEW a \in Asset, NEW e \in Expiry,
             CheckYieldContractStatus(f, a, e)
      PROVE  CheckStep
  <2>1. <<"yieldContract", f, a, e>> \in Target
    BY DEF Target, YieldContract
  <2> QED BY <1>1, <2>1 DEF CheckStep, CheckYieldContractStatus
<1>2. ASSUME NEW id \in FactoryId, NEW m \in Market, CheckMarketStatus(id, m)
      PROVE  CheckStep
  <2>1. <<"ofFactory", id, m>> \in Target
    BY DEF Target, MarketOfFactory
  <2> QED BY <1>2, <2>1 DEF CheckStep, CheckMarketStatus
<1>3. ASSUME NEW l \in LiqMining, CheckLiqMiningStatus(l)
      PROVE  CheckStep
  <2>1. <<"mining", l>> \in Target
    BY DEF Target
  <2> QED BY <1>3, <2>1 DEF CheckStep, CheckLiqMiningStatus
<1> QED BY <1>1, <1>2, <1>3 DEF Check

(* The five forms of a step. *)
LEMMA NextSteps == Next => Tick \/ WriteStep \/ CheckStep \/ AdminStep \/ ApplyStep
<1>1. ASSUME NEW caller \in Address, Admin(caller)
      PROVE  AdminStep
  BY <1>1 DEF Admin, AdminStep, Kind, RequestForgeHandlerChange,
     RequestMarketHandlerChange, RequestLiqMiningHandlerChange,
     LockForgeHandlerPermanently, LockMarketHandlerPermanently,
     LockLiqMiningHandlerPermanently
<1>2. Apply => ApplyStep
  BY DEF Apply, ApplyStep, Kind, ApplyForgeHandlerChange, ApplyMarketHandlerChange,
     ApplyLiqMiningHandlerChange
<1> QED BY <1>1, <1>2, FlagSteps, CheckSteps DEF Next

-----------------------------------------------------------------------------
(***************************************************************************)
(* Type correctness.                                                       *)
(***************************************************************************)
USE GovernanceAssumption, HandlerAssumption, TimeAssumption

LEMMA TypeInit == Init => TypeOK
<1> SUFFICES ASSUME Init PROVE TypeOK
  OBVIOUS
<1>1. now \in 1..MaxTime /\ lastUpdated \in 1..MaxTime
  BY DEF Init
<1>2. pausedAt \in [Scope -> BOOLEAN] /\ lockedAt \in [Scope -> BOOLEAN]
  BY DEF Init
<1>3. cachedStatus \in [Target -> [timestamp : 0..MaxTime, status : Status]]
  <2>1. [timestamp |-> 0, status |-> [locked |-> FALSE, paused |-> FALSE]]
           \in [timestamp : 0..MaxTime, status : Status]
    BY DEF Status
  <2> QED BY <2>1 DEF Init
<1>4. answers \in [Target -> Status]
  BY DEF Init, Status
<1>5. handlers \in [Kind -> [handler : Handler,
                             pendingHandler : Handler \cup {NoHandler},
                             timelockDeadline : Nat]]
  BY DEF Init
<1>6. /\ isPausingAdmin \in [Address -> BOOLEAN]
      /\ handlerLocked \in [Kind -> BOOLEAN]
  BY DEF Init
<1>7. requestedAt \in [Kind -> 0..MaxTime] /\ asked \subseteq Target
  BY DEF Init
<1>8. permLocked \in BOOLEAN
  BY Zenon DEF Init
<1> QED BY <1>1, <1>2, <1>3, <1>4, <1>5, <1>6, <1>7, <1>8 DEF TypeOK

LEMMA FreshStatusType == \A t : FreshStatus(t) \in Status
BY DEF FreshStatus, Status, IsLocked, IsPaused

LEMMA TypeWrite == TypeOK /\ WriteStep => TypeOK'
<1> SUFFICES ASSUME TypeOK,
                    NEW caller \in Address, NEW s \in Scope, NEW b \in BOOLEAN,
                    SetPaused(caller, s, b) \/ SetLocked(caller, s)
             PROVE  TypeOK'
  BY DEF WriteStep
<1>1. CASE SetPaused(caller, s, b)
  BY <1>1 DEF SetPaused, UpdateSomeStatus, TypeOK, statusVars, handlerVars
<1>2. CASE SetLocked(caller, s)
  BY <1>2 DEF SetLocked, UpdateSomeStatus, TypeOK, statusVars, handlerVars
<1> QED BY <1>1, <1>2

LEMMA TypeCheck == TypeOK /\ CheckStep => TypeOK'
<1> SUFFICES ASSUME TypeOK, NEW t \in Target, CheckStatus(t)
             PROVE  TypeOK'
  BY DEF CheckStep
<1>1. ReportedStatus(t) \in Status
  BY FreshStatusType DEF ReportedStatus, TypeOK
<1>2. cachedStatus' \in [Target -> [timestamp : 0..MaxTime, status : Status]]
  <2>1. [timestamp |-> now, status |-> FreshStatus(t)] \in [timestamp : 0..MaxTime, status : Status]
    BY FreshStatusType DEF TypeOK
  <2> QED BY <2>1 DEF CheckStatus, TypeOK
<1> QED BY <1>1, <1>2 DEF CheckStatus, TypeOK, flagVars, handlerVars

LEMMA TypeAdmin == TypeOK /\ AdminStep => TypeOK'
<1> SUFFICES ASSUME TypeOK, NEW caller \in Address,
                    \/ \E admin \in Address, b \in BOOLEAN : SetPausingAdmin(caller, admin, b)
                    \/ \E k \in Kind, h \in Handler : RequestHandlerChange(caller, k, h)
                    \/ \E k \in Kind : LockHandlerPermanently(caller, k)
                    \/ LockPausingManagerPermanently(caller)
             PROVE  TypeOK'
  BY DEF AdminStep
<1>1. ASSUME NEW admin \in Address, NEW b \in BOOLEAN, SetPausingAdmin(caller, admin, b)
      PROVE  TypeOK'
  BY <1>1 DEF SetPausingAdmin, TypeOK, flagVars, statusVars, handlerVars
<1>2. ASSUME NEW k \in Kind, NEW h \in Handler, RequestHandlerChange(caller, k, h)
      PROVE  TypeOK'
  BY <1>2 DEF RequestHandlerChange, TypeOK, flagVars, statusVars
<1>3. ASSUME NEW k \in Kind, LockHandlerPermanently(caller, k)
      PROVE  TypeOK'
  BY <1>3 DEF LockHandlerPermanently, TypeOK, flagVars, statusVars
<1>4. CASE LockPausingManagerPermanently(caller)
  BY <1>4 DEF LockPausingManagerPermanently, TypeOK, flagVars, statusVars, handlerVars
<1> QED BY <1>1, <1>2, <1>3, <1>4

LEMMA TypeApply == TypeOK /\ ApplyStep => TypeOK'
<1> SUFFICES ASSUME TypeOK, NEW k \in Kind, ApplyHandlerChange(k)
             PROVE  TypeOK'
  BY DEF ApplyStep
<1>1. handlers[k].pendingHandler \in Handler
  BY DEF ApplyHandlerChange, TypeOK
<1>2. Never \in Nat
  BY DEF Never
<1> QED BY <1>1, <1>2 DEF ApplyHandlerChange, TypeOK, flagVars, statusVars

LEMMA TypeStep == TypeOK /\ [Next]_vars => TypeOK'
<1>1. TypeOK /\ Tick => TypeOK'
  BY DEF Tick, TypeOK, flagVars, statusVars, handlerVars
<1>2. TypeOK /\ UNCHANGED vars => TypeOK'
  BY DEF TypeOK, vars, flagVars, statusVars, handlerVars
<1> QED BY <1>1, <1>2, NextSteps, TypeWrite, TypeCheck, TypeAdmin, TypeApply

(* Every reachable state is well typed, for any set of contracts and any   *)
(* timelock: in particular a pending handler is a handler or address(0).   *)
THEOREM TypeCorrect == Spec => []TypeOK
BY TypeInit, TypeStep, PTL DEF Spec

-----------------------------------------------------------------------------
(***************************************************************************)
(* The cache.  A cache entry is never younger than the clock, nor is the   *)
(* last write; hence a write at the current time makes every entry         *)
(* unusable, and an entry that is usable was written after the last write. *)
(***************************************************************************)
ClockInv ==
    /\ lastUpdated <= now
    /\ \A t \in Target : cachedStatus[t].timestamp <= now

(* What a target was told is still so when it was told that it is locked. *)
ToldLocked == \A t \in Target : answers[t].locked => IsLocked(t)

IInv == TypeOK /\ ClockInv /\ CacheIsCoherent /\ ToldLocked

LEMMA ReportIsFresh ==
    ASSUME CacheIsCoherent, NEW t \in Target
    PROVE  ReportedStatus(t) = FreshStatus(t)
BY DEF CacheIsCoherent, ReportedStatus

LEMMA IInvInit == Init => IInv
<1> SUFFICES ASSUME Init PROVE IInv
  OBVIOUS
<1>1. TypeOK
  BY TypeInit
<1>2. \A t \in Target : cachedStatus[t].timestamp = 0 /\ ~answers[t].locked
  BY DEF Init
<1>3. lastUpdated = now /\ now >= 1
  BY DEF Init
<1>4. ClockInv
  BY <1>1, <1>2, <1>3 DEF ClockInv, TypeOK
<1>5. \A t \in Target : ~CacheUsable(t)
  BY <1>2, <1>3, <1>1 DEF CacheUsable, TypeOK
<1> QED BY <1>1, <1>2, <1>4, <1>5 DEF IInv, CacheIsCoherent, ToldLocked

LEMMA IInvWrite == IInv /\ TypeOK' /\ WriteStep => IInv'
<1> SUFFICES ASSUME IInv, TypeOK',
                    NEW caller \in Address, NEW s \in Scope, NEW b \in BOOLEAN,
                    SetPaused(caller, s, b) \/ SetLocked(caller, s)
             PROVE  IInv'
  BY DEF WriteStep
<1>1. /\ lastUpdated' = now
      /\ UNCHANGED <<now, cachedStatus, answers>>
  BY DEF SetPaused, SetLocked, UpdateSomeStatus, statusVars
<1>2. \A r \in Scope : lockedAt[r] => lockedAt'[r]
  BY DEF SetPaused, SetLocked, IInv, TypeOK
<1>3. ClockInv'
  BY <1>1 DEF ClockInv, IInv, TypeOK
<1>4. \A t \in Target : ~CacheUsable(t)'
  <2> TAKE t \in Target
  <2>1. /\ cachedStatus[t].timestamp \in Nat
        /\ cachedStatus[t].timestamp <= now
        /\ now \in Nat
    BY DEF IInv, TypeOK, ClockInv
  <2> QED BY <1>1, <2>1 DEF CacheUsable
<1>5. ToldLocked'
  <2>1. ASSUME NEW t \in Target, IsLocked(t)
        PROVE  IsLocked(t)'
    <3>1. PICK r \in ScopesOf(t) : lockedAt[r]
      BY <2>1 DEF IsLocked
    <3>2. lockedAt'[r]
      BY <1>2, <3>1, ScopesOfTarget
    <3> QED BY <3>2 DEF IsLocked
  <2> QED BY <1>1, <2>1 DEF ToldLocked, IInv
<1> QED BY <1>3, <1>4, <1>5 DEF IInv, CacheIsCoherent

LEMMA IInvCheck == IInv /\ TypeOK' /\ CheckStep => IInv'
<1> SUFFICES ASSUME IInv, TypeOK', NEW t \in Target, CheckStatus(t)
             PROVE  IInv'
  BY DEF CheckStep
<1>1. UNCHANGED <<now, pausedAt, lockedAt, lastUpdated>>
  BY DEF CheckStatus, flagVars
<1>2. \A u \in Target : FreshStatus(u)' = FreshStatus(u) /\ IsLocked(u)' = IsLocked(u)
  BY <1>1 DEF FreshStatus, IsLocked, IsPaused
<1>3. \A u \in Target : \/ cachedStatus'[u] = cachedStatus[u]
                        \/ cachedStatus'[u] = [timestamp |-> now, status |-> FreshStatus(u)]
  BY DEF CheckStatus, IInv, TypeOK
<1>4. ClockInv'
  <2>1. now \in Int
    BY DEF IInv, TypeOK
  <2>2. \A u \in Target : \/ cachedStatus'[u].timestamp = cachedStatus[u].timestamp
                          \/ cachedStatus'[u].timestamp = now
    <3> TAKE u \in Target
    <3>1. CASE cachedStatus'[u] = cachedStatus[u]
      BY <3>1
    <3>2. CASE cachedStatus'[u] = [timestamp |-> now, status |-> FreshStatus(u)]
      BY <3>2
    <3> QED BY <1>3, <3>1, <3>2
  <2> QED BY <1>1, <2>1, <2>2 DEF ClockInv, IInv
<1>5. CacheIsCoherent'
  <2> SUFFICES ASSUME NEW u \in Target, CacheUsable(u)'
               PROVE  cachedStatus'[u].status = FreshStatus(u)'
    BY DEF CacheIsCoherent
  <2>1. CASE cachedStatus'[u] = cachedStatus[u]
    <3>1. CacheUsable(u)
      BY <1>1, <2>1 DEF CacheUsable
    <3> QED BY <1>2, <2>1, <3>1 DEF CacheIsCoherent, IInv
  <2>2. CASE cachedStatus'[u] = [timestamp |-> now, status |-> FreshStatus(u)]
    BY <1>2, <2>2
  <2> QED BY <1>3, <2>1, <2>2
<1>6. ToldLocked'
  <2>1. \A u \in Target : answers'[u] = answers[u] \/ answers'[u] = FreshStatus(u)
    BY ReportIsFresh DEF CheckStatus, IInv, TypeOK
  <2>2. \A u : FreshStatus(u).locked = IsLocked(u)
    BY DEF FreshStatus
  <2> QED BY <1>2, <2>1, <2>2 DEF ToldLocked, IInv
<1> QED BY <1>4, <1>5, <1>6 DEF IInv

(* Steps that write neither a flag nor the cache. *)
LEMMA IInvOther ==
    ASSUME IInv, TypeOK', UNCHANGED <<flagVars, statusVars>>, now <= now'
    PROVE  IInv'
<1>1. UNCHANGED <<pausedAt, lockedAt, lastUpdated, cachedStatus, answers>>
  BY DEF flagVars, statusVars
<1>2. ClockInv'
  <2>1. now \in Int /\ now' \in Int /\ lastUpdated \in Int
    BY DEF IInv, TypeOK
  <2>2. \A t \in Target : cachedStatus[t].timestamp \in Int
    BY DEF IInv, TypeOK
  <2> QED BY <1>1, <2>1, <2>2 DEF ClockInv, IInv
<1>3. CacheIsCoherent'
  BY <1>1 DEF CacheIsCoherent, CacheUsable, FreshStatus, IsLocked, IsPaused, IInv
<1>4. ToldLocked'
  BY <1>1 DEF ToldLocked, IsLocked, IInv
<1> QED BY <1>2, <1>3, <1>4 DEF IInv

LEMMA IInvStep == IInv /\ [Next]_vars => IInv'
<1> SUFFICES ASSUME IInv, [Next]_vars PROVE IInv'
  OBVIOUS
<1>1. TypeOK'
  BY TypeStep DEF IInv
<1>2. now \in Nat
  BY DEF IInv, TypeOK
<1>3. CASE Tick
  BY <1>1, <1>2, <1>3, IInvOther DEF Tick
<1>4. CASE WriteStep
  BY <1>1, <1>4, IInvWrite
<1>5. CASE CheckStep
  BY <1>1, <1>5, IInvCheck
<1>6. CASE AdminStep
  <2>1. UNCHANGED <<now, flagVars, statusVars>>
    BY <1>6 DEF AdminStep, SetPausingAdmin, RequestHandlerChange,
       LockHandlerPermanently, LockPausingManagerPermanently
  <2> QED BY <1>1, <1>2, <2>1, IInvOther
<1>7. CASE ApplyStep
  <2>1. UNCHANGED <<now, flagVars, statusVars>>
    BY <1>7 DEF ApplyStep, ApplyHandlerChange
  <2> QED BY <1>1, <1>2, <2>1, IInvOther
<1>8. CASE UNCHANGED vars
  <2>1. UNCHANGED <<now, flagVars, statusVars>>
    BY <1>8 DEF vars
  <2> QED BY <1>1, <1>2, <2>1, IInvOther
<1> QED BY <1>3, <1>4, <1>5, <1>6, <1>7, <1>8, NextSteps

THEOREM InvariantHolds == Spec => []IInv
BY IInvInit, IInvStep, PTL DEF Spec

(* For every set of forges, markets and mining contracts, and any order of *)
(* writes and checks within and across blocks, a cache entry that is used  *)
(* equals the status computed from the flags.                              *)
THEOREM CacheCoherence == Spec => []CacheIsCoherent
BY InvariantHolds, PTL DEF IInv

(* A contract that was once told it is in emergency mode is told so, and   *)
(* that it is paused, for ever after.                                      *)
THEOREM EmergencyIsPermanent == Spec => []EmergencyIsForever
<1>1. IInv => EmergencyIsForever
  <2> SUFFICES ASSUME IInv, NEW t \in Target, answers[t].locked
               PROVE  ReportedStatus(t).locked /\ ReportedStatus(t).paused
    BY DEF EmergencyIsForever
  <2>1. IsLocked(t)
    BY DEF IInv, ToldLocked
  <2>2. ReportedStatus(t) = FreshStatus(t)
    BY ReportIsFresh DEF IInv
  <2>3. FreshStatus(t).locked /\ FreshStatus(t).paused
    <3>1. /\ FreshStatus(t).locked = IsLocked(t)
          /\ FreshStatus(t).paused = (IsLocked(t) \/ IsPaused(t))
      BY DEF FreshStatus
    <3> QED BY <2>1, <3>1, Zenon
  <2> QED BY <2>2, <2>3
<1> QED BY <1>1, InvariantHolds, PTL

(* Once the manager is locked permanently, no step changes the answer of   *)
(* any check.                                                              *)
THEOREM PermLockIsFinal == Spec => PermLockFreezesStatus
<1>1. IInv /\ IInv' /\ [Next]_vars =>
        [permLocked => \A t \in Target : ReportedStatus(t)' = ReportedStatus(t)]_vars
  <2> SUFFICES ASSUME IInv, IInv', Next, permLocked, NEW t \in Target
               PROVE  ReportedStatus(t)' = ReportedStatus(t)
    OBVIOUS
  <2>1. UNCHANGED <<pausedAt, lockedAt>>
    <3>1. ~WriteStep
      BY DEF WriteStep, SetPaused, SetLocked, NotPermLocked
    <3>2. CASE Tick
      BY <3>2 DEF Tick, flagVars
    <3>3. CASE CheckStep
      BY <3>3 DEF CheckStep, CheckStatus, flagVars
    <3>4. CASE AdminStep
      BY <3>4 DEF AdminStep, SetPausingAdmin, RequestHandlerChange,
         LockHandlerPermanently, LockPausingManagerPermanently, flagVars
    <3>5. CASE ApplyStep
      BY <3>5 DEF ApplyStep, ApplyHandlerChange, flagVars
    <3> QED BY <3>1, <3>2, <3>3, <3>4, <3>5, NextSteps
  <2>2. FreshStatus(t)' = FreshStatus(t)
    BY <2>1 DEF FreshStatus, IsLocked, IsPaused
  <2>3. ReportedStatus(t) = FreshStatus(t)
    BY ReportIsFresh DEF IInv
  <2>4. ReportedStatus(t)' = FreshStatus(t)'
    <3>1. CacheUsable(t)' => cachedStatus'[t].status = FreshStatus(t)'
      BY DEF IInv, CacheIsCoherent
    <3> QED BY <3>1 DEF ReportedStatus
  <2> QED BY <2>2, <2>3, <2>4
<1> QED BY <1>1, InvariantHolds, PTL DEF Spec, PermLockFreezesStatus

-----------------------------------------------------------------------------
(***************************************************************************)
(* The timelock of the handlers.  The deadline of a pending handler is     *)
(* always the one set by the request that named it last.                   *)
(***************************************************************************)
DeadlineInv == \A k \in Kind : handlers[k].pendingHandler # NoHandler =>
                  handlers[k].timelockDeadline = requestedAt[k] + TIMELOCK

LEMMA DeadlineStep == TypeOK /\ DeadlineInv /\ [Next]_vars => DeadlineInv'
<1> SUFFICES ASSUME TypeOK, DeadlineInv, [Next]_vars PROVE DeadlineInv'
  OBVIOUS
<1>1. CASE UNCHANGED <<handlers, requestedAt>>
  BY <1>1 DEF DeadlineInv
<1>2. ASSUME NEW caller \in Address, NEW k \in Kind, NEW h \in Handler,
             RequestHandlerChange(caller, k, h)
      PROVE  DeadlineInv'
  <2>1. requestedAt'[k] = now /\ handlers'[k].timelockDeadline = now + TIMELOCK
    BY <1>2 DEF RequestHandlerChange, TypeOK
  <2>2. \A j \in Kind \ {k} : handlers'[j] = handlers[j] /\ requestedAt'[j] = requestedAt[j]
    BY <1>2 DEF RequestHandlerChange, TypeOK
  <2> QED BY <2>1, <2>2 DEF DeadlineInv
<1>3. ASSUME NEW k \in Kind, ApplyHandlerChange(k)
      PROVE  DeadlineInv'
  <2>1. handlers'[k].pendingHandler = NoHandler
    BY <1>3 DEF ApplyHandlerChange, TypeOK
  <2>2. \A j \in Kind \ {k} : handlers'[j] = handlers[j] /\ requestedAt'[j] = requestedAt[j]
    BY <1>3 DEF ApplyHandlerChange, TypeOK
  <2> QED BY <2>1, <2>2 DEF DeadlineInv
<1>4. CASE Tick \/ WriteStep \/ CheckStep \/ UNCHANGED vars
  BY <1>1, <1>4 DEF Tick, WriteStep, SetPaused, SetLocked, CheckStep, CheckStatus,
     vars, handlerVars
<1>5. CASE AdminStep
  BY <1>1, <1>2, <1>5 DEF AdminStep, SetPausingAdmin, LockHandlerPermanently,
     LockPausingManagerPermanently, handlerVars
<1>6. CASE ApplyStep
  BY <1>3, <1>6 DEF ApplyStep
<1> QED BY <1>4, <1>5, <1>6, NextSteps

(* For any timelock, an emergency handler changes only to the one named    *)
(* last, and only after that request is older than the timelock.           *)
THEOREM HandlerTimelock == Spec => HandlerChangeIsTimelocked
<1>1. Init => DeadlineInv
  BY DEF Init, DeadlineInv
<1>2. TypeOK /\ DeadlineInv /\ [Next]_vars =>
        [\A k \in Kind : handlers'[k].handler # handlers[k].handler =>
            /\ handlers'[k].handler = handlers[k].pendingHandler
            /\ now > requestedAt[k] + TIMELOCK]_vars
  <2> SUFFICES ASSUME TypeOK, DeadlineInv, Next, NEW k \in Kind,
                      handlers'[k].handler # handlers[k].handler
               PROVE  /\ handlers'[k].handler = handlers[k].pendingHandler
                      /\ now > requestedAt[k] + TIMELOCK
    OBVIOUS
  <2>1. CASE Tick \/ WriteStep \/ CheckStep
    BY <2>1 DEF Tick, WriteStep, SetPaused, SetLocked, CheckStep, CheckStatus, handlerVars
  <2>2. CASE AdminStep
    <3>1. ASSUME NEW caller \in Address, NEW j \in Kind, NEW h \in Handler,
                 RequestHandlerChange(caller, j, h)
          PROVE  FALSE
      BY <3>1 DEF RequestHandlerChange, TypeOK
    <3> QED BY <2>2, <3>1 DEF AdminStep, SetPausingAdmin, LockHandlerPermanently,
           LockPausingManagerPermanently, handlerVars
  <2>3. ASSUME NEW j \in Kind, ApplyHandlerChange(j)
        PROVE  /\ handlers'[k].handler = handlers[k].pendingHandler
               /\ now > requestedAt[k] + TIMELOCK
    <3>1. j = k
      BY <2>3 DEF ApplyHandlerChange, TypeOK
    <3>2. handlers'[k].handler = handlers[k].pendingHandler
      BY <2>3, <3>1 DEF ApplyHandlerChange, TypeOK
    <3>3. handlers[k].timelockDeadline = requestedAt[k] + TIMELOCK
      BY <2>3, <3>1 DEF ApplyHandlerChange, DeadlineInv
    <3> QED BY <2>3, <3>1, <3>2, <3>3 DEF ApplyHandlerChange
  <2> QED BY <2>1, <2>2, <2>3, NextSteps DEF ApplyStep
<1> QED BY <1>1, <1>2, DeadlineStep, TypeCorrect, PTL DEF Spec, HandlerChangeIsTimelocked

-----------------------------------------------------------------------------
(***************************************************************************)
(* PausingManager implements PauseRegister: the mapping forgets the clock, *)
(* the cache, the administrators and the handlers.                         *)
(***************************************************************************)
LEMMA RegisterStatus == \A t : Register!StatusOf(t) = FreshStatus(t)
BY DEF Register!StatusOf, FreshStatus, IsLocked, IsPaused

LEMMA RegisterStep ==
    IInv /\ [Next]_vars => [Register!RegisterNext]_(Register!registerVars)
<1> SUFFICES ASSUME IInv, [Next]_vars
             PROVE  Register!RegisterNext \/ UNCHANGED Register!registerVars
  OBVIOUS
<1>1. CASE Tick \/ ApplyStep \/ UNCHANGED vars
  BY <1>1 DEF Tick, ApplyStep, ApplyHandlerChange, vars, flagVars, statusVars,
     Register!registerVars
<1>2. CASE WriteStep
  <2>1. PICK caller \in Address, s \in Scope, b \in BOOLEAN :
           SetPaused(caller, s, b) \/ SetLocked(caller, s)
    BY <1>2 DEF WriteStep
  <2>2. /\ ~permLocked
        /\ \/ pausedAt' = [pausedAt EXCEPT ![s] = b] /\ UNCHANGED lockedAt
           \/ lockedAt' = [lockedAt EXCEPT ![s] = TRUE] /\ UNCHANGED pausedAt
        /\ asked' = {}
        /\ UNCHANGED <<permLocked, answers>>
    BY <2>1 DEF SetPaused, SetLocked, NotPermLocked, UpdateSomeStatus, statusVars
  <2>3. Register!WriteFlag
    BY <2>2 DEF Register!WriteFlag
  <2> QED BY <2>3 DEF Register!RegisterNext
<1>3. CASE CheckStep
  <2>1. PICK t \in Target : CheckStatus(t)
    BY <1>3 DEF CheckStep
  <2>2. ReportedStatus(t) = Register!StatusOf(t)
    BY ReportIsFresh, RegisterStatus DEF IInv
  <2>3. Register!Ask(t)
    BY <2>1, <2>2 DEF CheckStatus, Register!Ask, flagVars
  <2> QED BY <2>3 DEF Register!RegisterNext
<1>4. CASE AdminStep
  <2>1. PICK caller \in Address :
          \/ \E admin \in Address, b \in BOOLEAN : SetPausingAdmin(caller, admin, b)
          \/ \E k \in Kind, h \in Handler : RequestHandlerChange(caller, k, h)
          \/ \E k \in Kind : LockHandlerPermanently(caller, k)
          \/ LockPausingManagerPermanently(caller)
    BY <1>4 DEF AdminStep
  <2>2. CASE LockPausingManagerPermanently(caller)
    BY <2>2 DEF LockPausingManagerPermanently, NotPermLocked, flagVars, statusVars,
       Register!RegisterNext, Register!Freeze
  <2>3. CASE ~LockPausingManagerPermanently(caller)
    BY <2>1, <2>3 DEF SetPausingAdmin, RequestHandlerChange, LockHandlerPermanently,
       flagVars, statusVars, Register!registerVars
  <2> QED BY <2>2, <2>3
<1> QED BY <1>1, <1>2, <1>3, <1>4, NextSteps

(* Whatever forge, market or mining contract asks, it is answered as if    *)
(* there were no cache.                                                    *)
THEOREM ImplementsRegister == Spec => RegisterSpec
<1>1. Init => Register!RegisterInit
  BY DEF Init, Register!RegisterInit, Register!Free
<1> QED BY <1>1, RegisterStep, InvariantHolds, PTL DEF Spec, RegisterSpec, Register!RegisterSpec
=============================================================================
