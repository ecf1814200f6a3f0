----------------------- MODULE PaymentRequestProofs -----------------------
(***************************************************************************)
(* Theorems about module PaymentRequest, for any amounts, limits of        *)
(* servers and number of schemes before a core.                            *)
(*                                                                         *)
(* The parsers recur on the text without its first scheme.  What they      *)
(* return is stated without recursion by WithAmountMeaning and             *)
(* WithoutAmountMeaning, the rest of the proofs uses those.                *)
(***************************************************************************)
EXTENDS PaymentRequest, FiniteSetTheorems, SequenceTheorems, TLAPS

-----------------------------------------------------------------------------
(* Texts.                                                                  *)

(* A text has finitely many schemes.                                       *)
LEMMA SchemesTyped ==
  ASSUME NEW t \in Texts
  PROVE  /\ t.core \in Cores /\ t.schemes \in Seq(Schemes)
         /\ Len(t.schemes) \in 0..MaxSchemes /\ MaxSchemes \in Nat
         /\ t = [schemes |-> t.schemes, core |-> t.core]
<1>1. PICK m \in 0..MaxSchemes : t.schemes \in [1..m -> Schemes]
  BY DEF Texts, SeqOf
<1>2. MaxSchemes \in Nat
  BY RequestConstants
<1>3. t.schemes \in Seq(Schemes) /\ Len(t.schemes) = m
  BY <1>1, <1>2
<1> QED
  BY <1>1, <1>2, <1>3 DEF Texts

(* Without its first scheme a text is a shorter text.                      *)
LEMMA Stripped ==
  ASSUME NEW t \in Texts, t.schemes # <<>>
  PROVE  /\ Strip(t) \in Texts /\ Strip(t).core = t.core
         /\ Strip(t).schemes = Tail(t.schemes)
         /\ Len(Strip(t).schemes) = Len(t.schemes) - 1
         /\ \A i \in 1..(Len(t.schemes) - 1) : Strip(t).schemes[i] = t.schemes[i + 1]
<1>1. /\ t.core \in Cores /\ t.schemes \in Seq(Schemes)
      /\ Len(t.schemes) \in 0..MaxSchemes /\ MaxSchemes \in Nat
      /\ t = [schemes |-> t.schemes, core |-> t.core]
  BY SchemesTyped
<1>2. Strip(t) = [schemes |-> Tail(t.schemes), core |-> t.core]
  BY <1>1 DEF Strip
<1>3. /\ Tail(t.schemes) \in Seq(Schemes)
      /\ Len(Tail(t.schemes)) = Len(t.schemes) - 1
      /\ \A i \in 1..(Len(t.schemes) - 1) : Tail(t.schemes)[i] = t.schemes[i + 1]
  BY <1>1, HeadTailProperties
<1>4. Len(t.schemes) - 1 \in 0..MaxSchemes
  BY <1>1, <1>3, LenProperties
<1>5. Tail(t.schemes) \in [1..(Len(t.schemes) - 1) -> Schemes]
  BY <1>3, LenProperties
<1>6. Strip(t) \in Texts
  <2>1. Tail(t.schemes) \in SeqOf(Schemes, MaxSchemes)
    <3> DEFINE n == Len(t.schemes) - 1
    <3>1. n \in 0..MaxSchemes /\ Tail(t.schemes) \in [1..n -> Schemes]
      BY <1>4, <1>5
    <3> HIDE DEF n
    <3> QED
      BY <3>1 DEF SeqOf
  <2> QED
    BY <1>1, <1>2, <2>1 DEF Texts
<1> QED
  BY <1>2, <1>3, <1>6

(* Every scheme of the text is one of these.                               *)
Passes(t, S) == \A i \in 1..Len(t.schemes) : t.schemes[i] \in S

(* Passes, by the first scheme.                                            *)
LEMMA PassesFirst ==
  ASSUME NEW t \in Texts, NEW S
  PROVE  /\ t.schemes = <<>> => Passes(t, S)
         /\ t.schemes # <<>> =>
              (Passes(t, S) <=> Head(t.schemes) \in S /\ Passes(Strip(t), S))
<1>1. t.schemes \in Seq(Schemes) /\ Len(t.schemes) \in Nat
  BY SchemesTyped
<1>2. CASE t.schemes = <<>>
  BY <1>2 DEF Passes
<1>3. CASE t.schemes # <<>>
  <2>1. /\ Len(Strip(t).schemes) = Len(t.schemes) - 1
        /\ \A i \in 1..(Len(t.schemes) - 1) : Strip(t).schemes[i] = t.schemes[i + 1]
    BY <1>3, Stripped
  <2>2. Head(t.schemes) = t.schemes[1] /\ 1 \in 1..Len(t.schemes)
    BY <1>1, <1>3
  <2>3. ASSUME Passes(t, S) PROVE Head(t.schemes) \in S /\ Passes(Strip(t), S)
    BY <1>1, <2>1, <2>2, <2>3 DEF Passes
  <2>4. ASSUME Head(t.schemes) \in S, Passes(Strip(t), S), NEW i \in 1..Len(t.schemes)
        PROVE  t.schemes[i] \in S
    <3>1. CASE i = 1
      BY <2>2, <2>4, <3>1
    <3>2. CASE i # 1
      <4>1. i - 1 \in 1..(Len(t.schemes) - 1) /\ (i - 1) + 1 = i
        BY <1>1, <3>2
      <4> QED
        BY <2>1, <2>4, <4>1 DEF Passes
    <3> QED
      BY <3>1, <3>2
  <2> QED
    BY <1>3, <2>3, <2>4 DEF Passes
<1> QED
  BY <1>2, <1>3

-----------------------------------------------------------------------------
(* The recursion of both parsers: schemes of S are taken off; a core alone *)
(* means what `meaning` says, anything else nothing.                       *)
Strips(f, S, meaning) ==
  f = [t \in Texts |->
         IF t.schemes # <<>> /\ Head(t.schemes) \in S THEN f[Strip(t)]
         ELSE IF t.schemes = <<>> THEN meaning[t.core] ELSE NULL]

Meant(t, S, meaning) == IF Passes(t, S) THEN meaning[t.core] ELSE NULL

(* The recursion has a solution.                                           *)
LEMMA StripsExists ==
  ASSUME NEW S, NEW meaning
  PROVE  Strips([t \in Texts |-> Meant(t, S, meaning)], S, meaning)
<1> DEFINE g == [t \in Texts |-> Meant(t, S, meaning)]
<1>1. ASSUME NEW t \in Texts
      PROVE  g[t] = IF t.schemes # <<>> /\ Head(t.schemes) \in S THEN g[Strip(t)]
                    ELSE IF t.schemes = <<>> THEN meaning[t.core] ELSE NULL
  <2>1. CASE t.schemes = <<>>
    BY <2>1, PassesFirst DEF Meant
  <2>2. CASE t.schemes # <<>>
    <3>1. Strip(t) \in Texts /\ Strip(t).core = t.core
      BY <2>2, Stripped
    <3>2. Passes(t, S) <=> Head(t.schemes) \in S /\ Passes(Strip(t), S)
      BY <2>2, PassesFirst
    <3> QED
      BY <2>2, <3>1, <3>2 DEF Meant
  <2> QED
    BY <2>1, <2>2
<1> HIDE DEF g
<1>2. g = [t \in Texts |-> g[t]]
  BY DEF g
<1>3. Strips(g, S, meaning)
  BY <1>1, <1>2 DEF Strips
<1> QED
  BY <1>3 DEF g

(* Of the texts with some property one has the fewest schemes.             *)
LEMMA ShortestText ==
  ASSUME NEW B \in SUBSET Texts, B # {}
  PROVE  \E t \in B : \A s \in B : ~(Len(s.schemes) < Len(t.schemes))
<1> DEFINE M == 1..MaxSchemes
           Sizes == {1..Len(t.schemes) : t \in B}
<1>1. \A t \in B : Len(t.schemes) \in 0..MaxSchemes /\ MaxSchemes \in Nat
  BY SchemesTyped
<1>2. Sizes \subseteq SUBSET M /\ Sizes # {} /\ IsFiniteSet(M)
  <2>1. Sizes # {}
    OBVIOUS
  <2>2. \A t \in B : 1..Len(t.schemes) \subseteq M
    BY <1>1
  <2>3. Sizes \subseteq SUBSET M
    <3> HIDE DEF M
    <3> QED
      BY <2>2
  <2>4. IsFiniteSet(M)
    BY RequestConstants, FS_Interval
  <2> QED
    BY <2>1, <2>3, <2>4
<1>3. IsWellFoundedOn(StrictSubsetOrdering(M), SUBSET M)
  BY <1>2, FS_StrictSubsetOrderingWellFounded, FS_FiniteSubsetsOfFinite
<1>4. PICK T \in Sizes : \A U \in Sizes : ~(<<U, T>> \in StrictSubsetOrdering(M))
  <2> HIDE DEF Sizes, M
  <2> QED
    BY <1>2, <1>3, WFMin, Zenon
<1>5. PICK t \in B : T = 1..Len(t.schemes)
  OBVIOUS
<1>6. ASSUME NEW s \in B, Len(s.schemes) < Len(t.schemes) PROVE FALSE
  <2> DEFINE U == 1..Len(s.schemes)
  <2>1. U \in Sizes /\ U \subseteq T /\ U # T
    <3>1. Len(t.schemes) \in T /\ Len(t.schemes) \notin U
      BY <1>1, <1>5, <1>6
    <3>2. U \subseteq T
      BY <1>1, <1>5, <1>6
    <3> QED
      BY <3>1, <3>2
  <2>2. U \in SUBSET M /\ T \in SUBSET M
    BY <1>2, <2>1
  <2> HIDE DEF U, M, Sizes
  <2> QED
    BY <1>4, <2>1, <2>2 DEF StrictSubsetOrdering
<1> QED
  BY <1>6

(* It has no other solution.                                               *)
LEMMA StripsMeaning ==
  ASSUME NEW S, NEW meaning, NEW f, Strips(f, S, meaning), NEW t \in Texts
  PROVE  f[t] = Meant(t, S, meaning)
<1> DEFINE B == {s \in Texts : f[s] # Meant(s, S, meaning)}
<1>1. \A s \in Texts :
        f[s] = IF s.schemes # <<>> /\ Head(s.schemes) \in S THEN f[Strip(s)]
               ELSE IF s.schemes = <<>> THEN meaning[s.core] ELSE NULL
  BY Zenon DEF Strips
<1>2. ASSUME B # {} PROVE FALSE
  <2>1. PICK s \in B : \A r \in B : ~(Len(r.schemes) < Len(s.schemes))
    <3>1. B \in SUBSET Texts
      OBVIOUS
    <3> HIDE DEF B
    <3> QED
      BY <1>2, <3>1, ShortestText
  <2>2. s \in Texts /\ f[s] # Meant(s, S, meaning)
    BY <2>1
  <2>3. CASE s.schemes = <<>>
    BY <1>1, <2>2, <2>3, PassesFirst DEF Meant
  <2>4. CASE s.schemes # <<>>
    <3>1. /\ Strip(s) \in Texts /\ Strip(s).core = s.core
          /\ Len(Strip(s).schemes) = Len(s.schemes) - 1 /\ Len(s.schemes) \in Nat
      BY <2>2, <2>4, Stripped, SchemesTyped
    <3>2. Strip(s) \notin B
      <4>1. Len(Strip(s).schemes) < Len(s.schemes)
        BY <3>1
      <4> HIDE DEF B
      <4> QED
        BY <2>1, <4>1
    <3>3. f[Strip(s)] = Meant(Strip(s), S, meaning)
      BY <3>1, <3>2
    <3>4. Passes(s, S) <=> Head(s.schemes) \in S /\ Passes(Strip(s), S)
      BY <2>2, <2>4, PassesFirst
    <3> QED
      BY <1>1, <2>2, <2>4, <3>1, <3>3, <3>4 DEF Meant
  <2> QED
    BY <2>3, <2>4
<1> QED
  BY <1>2

-----------------------------------------------------------------------------
(* What the parsers return.                                                *)

WithAmountOf == [c \in Cores |->
  IF c.kind \in {"bolt11", "bolt12"} /\ HasAmount(c)
    THEN [kind |-> c.kind, amount |-> c.amount, asks |-> c.amount] ELSE NULL]

WithoutAmountOf == [c \in Cores |-> IF c.kind # "junk" /\ LeavesAmountOpen(c) THEN c ELSE NULL]

OpenSchemes == {"lightning", "lnurl", "bitcoin"}

(* parse_with_amount accepts invoices and offers with an amount, behind    *)
(* any number of "lightning:" (puncture-payment-request/src/lib.rs         *)
(* parse_with_amount).                                                     *)
LEMMA WithAmountMeaning ==
  ASSUME NEW t \in Texts
  PROVE  parse_with_amount[t] = Meant(t, {"lightning"}, WithAmountOf)
<1> DEFINE Body(f) == [s \in Texts |->
             IF StartsWith(s, "lightning") THEN f[Strip(s)]
             ELSE IF /\ s.schemes = <<>>
                     /\ s.core.kind \in {"bolt11", "bolt12"}
                     /\ HasAmount(s.core)
                  THEN [kind |-> s.core.kind, amount |-> s.core.amount,
                        asks |-> s.core.amount]
                  ELSE NULL]
<1>1. parse_with_amount = CHOOSE f : f = Body(f)
  BY Zenon DEF parse_with_amount
<1>2. \A f : f = Body(f) <=> Strips(f, {"lightning"}, WithAmountOf)
  <2>1. ASSUME NEW f
        PROVE  Body(f) = [s \in Texts |->
                 IF s.schemes # <<>> /\ Head(s.schemes) \in {"lightning"} THEN f[Strip(s)]
                 ELSE IF s.schemes = <<>> THEN WithAmountOf[s.core] ELSE NULL]
    <3>1. \A s \in Texts : s.core \in Cores
      BY SchemesTyped
    <3> QED
      BY <3>1 DEF StartsWith, WithAmountOf
  <2> HIDE DEF Body
  <2> QED
    BY <2>1, Zenon DEF Strips
<1> HIDE DEF Body
<1>3. Strips(parse_with_amount, {"lightning"}, WithAmountOf)
  <2>1. \E f : Strips(f, {"lightning"}, WithAmountOf)
    BY StripsExists, Zenon
  <2>2. \E f : f = Body(f)
    BY <1>2, <2>1, Zenon
  <2>3. (CHOOSE f : f = Body(f)) = Body(CHOOSE f : f = Body(f))
    BY <2>2, Zenon
  <2> QED
    BY <1>1, <1>2, <2>3, Zenon
<1> QED
  BY <1>3, StripsMeaning

(* parse_without_amount accepts what leaves its amount open, behind any    *)
(* mix of three schemes (puncture-payment-request/src/lib.rs               *)
(* parse_without_amount).                                                  *)
LEMMA WithoutAmountMeaning ==
  ASSUME NEW t \in Texts
  PROVE  parse_without_amount[t] = Meant(t, OpenSchemes, WithoutAmountOf)
<1> DEFINE Body(f) == [t_1 \in Texts |->
             IF \E s \in {"lightning", "lnurl", "bitcoin"} : StartsWith(t_1, s)
             THEN f[Strip(t_1)]
             ELSE IF /\ t_1.schemes = <<>>
                     /\ t_1.core.kind # "junk"
                     /\ LeavesAmountOpen(t_1.core)
                  THEN t_1.core
                  ELSE NULL]
<1>1. parse_without_amount = CHOOSE f : f = Body(f)
  BY Zenon DEF parse_without_amount
<1>2. \A f : f = Body(f) <=> Strips(f, OpenSchemes, WithoutAmountOf)
  <2>1. ASSUME NEW f
        PROVE  Body(f) = [s \in Texts |->
                 IF s.schemes # <<>> /\ Head(s.schemes) \in OpenSchemes THEN f[Strip(s)]
                 ELSE IF s.schemes = <<>> THEN WithoutAmountOf[s.core] ELSE NULL]
    <3>1. \A s \in Texts : s.core \in Cores
      BY SchemesTyped
    <3>2. \A s \in Texts :
            (\E x \in {"lightning", "lnurl", "bitcoin"} : StartsWith(s, x))
              <=> s.schemes # <<>> /\ Head(s.schemes) \in OpenSchemes
      BY DEF StartsWith, OpenSchemes
    <3> QED
      BY <3>1, <3>2 DEF WithoutAmountOf
  <2> HIDE DEF Body
  <2> QED
    BY <2>1, Zenon DEF Strips
<1> HIDE DEF Body
<1>3. Strips(parse_without_amount, OpenSchemes, WithoutAmountOf)
  <2>1. \E f : Strips(f, OpenSchemes, WithoutAmountOf)
    BY StripsExists, Zenon
  <2>2. \E f : f = Body(f)
    BY <1>2, <2>1, Zenon
  <2>3. (CHOOSE f : f = Body(f)) = Body(CHOOSE f : f = Body(f))
    BY <2>2, Zenon
  <2> QED
    BY <1>1, <1>2, <2>3, Zenon
<1> QED
  BY <1>3, StripsMeaning

(* What either parser accepts, by the core.                                *)
LEMMA Accepted ==
  ASSUME NEW t \in Texts
  PROVE  /\ parse_with_amount[t] # NULL =>
              /\ t.core.kind \in {"bolt11", "bolt12"} /\ t.core.amount \in Amounts
              /\ parse_with_amount[t] = [kind |-> t.core.kind, amount |-> t.core.amount,
                                         asks |-> t.core.amount]
         /\ parse_without_amount[t] # NULL =>
              /\ t.core.kind # "junk" /\ t.core.amount = NoAmount
              /\ parse_without_amount[t] = t.core
<1>1. t.core \in Cores
  BY SchemesTyped
<1>2. parse_with_amount[t] # NULL => parse_with_amount[t] = WithAmountOf[t.core]
  BY WithAmountMeaning DEF Meant
<1>3. parse_without_amount[t] # NULL => parse_without_amount[t] = WithoutAmountOf[t.core]
  BY WithoutAmountMeaning DEF Meant
<1> QED
  BY <1>1, <1>2, <1>3 DEF WithAmountOf, WithoutAmountOf, HasAmount, LeavesAmountOpen

(* Behind "lightning:" a core is refused by both only if nothing can be    *)
(* made of it.                                                             *)
LEMMA Refused ==
  ASSUME NEW t \in Texts, \A i \in 1..Len(t.schemes) : t.schemes[i] = "lightning"
  PROVE  (parse_with_amount[t] = NULL /\ parse_without_amount[t] = NULL)
           <=> (t.core.kind = "junk" \/ t.core.amount = Currency)
<1>1. t.core \in Cores /\ Amounts \subseteq Nat
  BY SchemesTyped, RequestConstants
<1>2. Passes(t, {"lightning"}) /\ Passes(t, OpenSchemes)
  BY DEF Passes, OpenSchemes
<1>3. /\ parse_with_amount[t] = WithAmountOf[t.core]
      /\ parse_without_amount[t] = WithoutAmountOf[t.core]
  BY <1>2, WithAmountMeaning, WithoutAmountMeaning DEF Meant
<1>4. t.core # NULL
  BY <1>1, NullIsNoRequest
<1>5. parse_without_amount[t] = NULL <=> ~(t.core.kind # "junk" /\ t.core.amount = NoAmount)
  BY <1>1, <1>3, <1>4 DEF WithoutAmountOf, LeavesAmountOpen
<1>6. parse_with_amount[t] = NULL
        <=> ~(t.core.kind \in {"bolt11", "bolt12"} /\ t.core.amount \in Amounts)
  <2>1. ASSUME t.core.kind \in {"bolt11", "bolt12"}, t.core.amount \in Amounts
        PROVE  [kind |-> t.core.kind, amount |-> t.core.amount,
                asks |-> t.core.amount] # NULL
    <3>1. [kind |-> t.core.kind, amount |-> t.core.amount,
           asks |-> t.core.amount] \in Ready
      BY <1>1, <2>1 DEF Ready
    <3> QED
      BY <3>1, NullIsNoRequest
  <2> QED
    BY <1>1, <1>3, <2>1 DEF WithAmountOf, HasAmount
<1>7. /\ t.core.amount \in Amounts \/ t.core.amount = NoAmount \/ t.core.amount = Currency
      /\ t.core.amount \in Amounts \/ t.core.amount = Currency
           => t.core.kind \in {"bolt11", "bolt12"}
  BY <1>1 DEF Cores, NoAmount, Currency
<1>8. NoAmount # Currency /\ NoAmount \notin Amounts /\ Currency \notin Amounts
  BY <1>1 DEF NoAmount, Currency
<1> QED
  BY <1>5, <1>6, <1>7, <1>8

-----------------------------------------------------------------------------
(* The inductive invariant.                                                *)

(* What the user agreed to.                                                *)
Agreed == IF entered = NoAmount THEN text.core.amount ELSE entered

(* Request r carries amount a; an on-chain one lost at most the part of a  *)
(* satoshi and asks for nothing.                                           *)
Carries(r, a) ==
  IF r.kind = "onchain"
    THEN amount_msat(r) \in (a - 999)..a /\ r.asks = NoAmount
    ELSE amount_msat(r) = a

(* An amount is entered only for a request that left it open, only an      *)
(* LNURL or an address of one is resolved by requests, a ready request     *)
(* carries what was agreed, and nothing is paid before its stage, or less  *)
(* than is asked for.                                                      *)
StagesSound ==
  /\ stage = "scanned" => entered = NoAmount
  /\ stage \in {"resolving", "fetched"} => entered \in Amounts
  /\ stage \in {"scanned", "resolving", "fetched"} => ready = NULL
  /\ stage = "ready" => ready \in Ready
  /\ ready \in Ready => Carries(ready, Agreed)
  /\ IF stage = "paid"
       THEN ready \in Ready /\ paid = amount_msat(ready) /\ ready.asks <= paid
       ELSE paid = NoAmount

RequestInv == TypeOK /\ StagesSound

(* The amounts of requests that resolve makes without a server.            *)
LEMMA AmountKept ==
  ASSUME NEW core \in Cores, NEW a \in Amounts,
         core.kind \in {"bolt11", "bolt12", "address"}
  PROVE  WithAmount(core, a) \in Ready /\ Carries(WithAmount(core, a), a)
<1>1. a \in Nat
  BY RequestConstants
<1>2. a \div 1000 \in Nat /\ (a \div 1000) * 1000 \in (a - 999)..a
  BY <1>1
<1>3. CASE core.kind = "address"
  <2>1. WithAmount(core, a)
          = [kind |-> "onchain", amount |-> a \div 1000, asks |-> NoAmount]
    BY <1>3 DEF WithAmount, WholeSats
  <2> QED
    BY <1>2, <2>1 DEF Ready, Carries, amount_msat
<1>4. CASE core.kind \in {"bolt11", "bolt12"}
  <2>1. WithAmount(core, a) = [kind |-> core.kind, amount |-> a, asks |-> NoAmount]
    BY <1>4 DEF WithAmount
  <2> QED
    BY <1>1, <1>4, <2>1 DEF Ready, Carries, amount_msat
<1> QED
  BY <1>3, <1>4

(* Any step that makes a request ready with what was agreed.               *)
LEMMA ReadyStep ==
  ASSUME RequestInv, stage \in {"scanned", "fetched"}, stage' = "ready",
         entered' \in Amounts \cup {NoAmount},
         ready' \in Ready, Carries(ready', Agreed'), UNCHANGED <<text, server, paid>>
  PROVE  RequestInv'
<1>1. TypeOK'
  BY DEF RequestInv, TypeOK, Stages
<1>2. StagesSound'
  <2>1. paid' = NoAmount
    BY DEF RequestInv, StagesSound
  <2> QED
    BY <2>1 DEF StagesSound, Carries, amount_msat
<1> QED
  BY <1>1, <1>2 DEF RequestInv

(* A request that is complete keeps its own amount.                        *)
LEMMA CompleteStep == RequestInv /\ Complete => RequestInv'
<1> SUFFICES ASSUME RequestInv, Complete PROVE RequestInv'
  OBVIOUS
<1>1. /\ text \in Texts /\ entered = NoAmount /\ stage = "scanned"
      /\ UNCHANGED <<text, entered, server, paid>> /\ stage' = "ready"
      /\ ready' = parse_with_amount[text] /\ parse_with_amount[text] # NULL
  BY DEF RequestInv, TypeOK, StagesSound, Complete
<1>2. /\ text.core.kind \in {"bolt11", "bolt12"} /\ text.core.amount \in Amounts
      /\ ready' = [kind |-> text.core.kind, amount |-> text.core.amount,
                   asks |-> text.core.amount]
  BY <1>1, Accepted
<1>3. ready' \in Ready /\ amount_msat(ready') = text.core.amount
  BY <1>2, RequestConstants DEF Ready, amount_msat
<1>4. Carries(ready', Agreed')
  BY <1>1, <1>2, <1>3 DEF Carries, Agreed
<1> QED
  BY <1>1, <1>3, <1>4, ReadyStep

(* The user enters an amount.                                              *)
LEMMA ResolveStep ==
  ASSUME RequestInv, NEW a \in Amounts, resolve(a) PROVE RequestInv'
<1> DEFINE core == parse_without_amount[text]
<1>1. /\ ready = NULL /\ paid = NoAmount /\ stage = "scanned" /\ core # NULL
      /\ entered' = a /\ UNCHANGED <<text, server, paid>> /\ text \in Texts
  BY DEF RequestInv, TypeOK, StagesSound, resolve
<1>2. core = text.core /\ core \in Cores /\ core.kind # "junk"
  BY <1>1, Accepted, SchemesTyped
<1>3. a # NoAmount /\ Agreed' = a
  BY <1>1, RequestConstants DEF Agreed, NoAmount
<1>4. CASE core.kind \in {"lnurl", "ln_address"}
  <2>1. stage' = "resolving" /\ UNCHANGED ready
    BY <1>4 DEF resolve
  <2>2. ready' \notin Ready
    BY <1>1, <2>1, NullIsNoRequest
  <2>3. TypeOK'
    BY <1>1, <2>1 DEF RequestInv, TypeOK, Stages
  <2>4. StagesSound'
    BY <1>1, <2>1, <2>2 DEF StagesSound
  <2> QED
    BY <2>3, <2>4 DEF RequestInv
<1>5. CASE core.kind \notin {"lnurl", "ln_address"}
  <2>1. stage' = "ready" /\ ready' = WithAmount(core, a)
    BY <1>5 DEF resolve
  <2>2. core.kind \in {"bolt11", "bolt12", "address"}
    BY <1>2, <1>5 DEF Cores
  <2> QED
    BY <1>1, <1>2, <1>3, <2>1, <2>2, AmountKept, ReadyStep
<1> QED
  BY <1>4, <1>5

(* The invoice of an LNURL is taken with the amount entered, whatever it   *)
(* asks for.                                                               *)
LEMMA InvoiceStep ==
  ASSUME RequestInv, NEW b \in Amounts \cup {NoAmount}, fetch_invoice(b)
  PROVE  RequestInv'
<1>1. /\ entered \in Amounts /\ entered' = entered /\ UNCHANGED <<text, server, paid>>
      /\ ready' = [kind |-> "bolt11", amount |-> entered, asks |-> b]
      /\ stage = "fetched" /\ stage' = "ready"
  BY DEF RequestInv, StagesSound, fetch_invoice
<1>2. entered \in Nat /\ Agreed' = entered
  BY <1>1, RequestConstants DEF Agreed, NoAmount
<1>3. ready' \in Ready /\ Carries(ready', Agreed')
  BY <1>1, <1>2 DEF Ready, Carries, amount_msat
<1> QED
  BY <1>1, <1>3, ReadyStep

(* The daemon pays a request, unless it asks for more than it carries.     *)
LEMMA SendStep == ASSUME RequestInv, send PROVE RequestInv'
<1>1. /\ ready \in Ready /\ ready' = ready /\ Carries(ready, Agreed) /\ Agreed' = Agreed
      /\ paid' = amount_msat(ready) /\ stage' = "paid" /\ UNCHANGED <<text, entered, server>>
      /\ ready.kind # "onchain" => ~(ready.asks > ready.amount)
  BY DEF RequestInv, StagesSound, send, AsksMore, Agreed
<1>2. /\ ready.amount \in Nat /\ amount_msat(ready) \in Nat
      /\ ready.asks \in Nat \cup {NoAmount}
  <2>1. ready.amount \in Nat /\ ready.asks \in Nat \cup {NoAmount}
    BY <1>1, RequestConstants DEF Ready
  <2>2. ready.amount * 1000 \in Nat
    BY <2>1
  <2> QED
    BY <2>1, <2>2 DEF amount_msat
<1>3. ready.asks <= amount_msat(ready)
  <2>1. CASE ready.kind = "onchain"
    BY <1>1, <1>2, <2>1 DEF Carries, NoAmount
  <2>2. CASE ready.kind # "onchain"
    <3>1. amount_msat(ready) = ready.amount
      BY <2>2 DEF amount_msat
    <3> QED
      BY <1>1, <1>2, <2>2, <3>1 DEF NoAmount
  <2> QED
    BY <2>1, <2>2
<1>4. TypeOK'
  BY <1>1, <1>2 DEF RequestInv, TypeOK, Stages
<1>5. StagesSound'
  BY <1>1, <1>3 DEF StagesSound
<1> QED
  BY <1>4, <1>5 DEF RequestInv

(* Steps that end a request or await an answer make nothing ready.         *)
LEMMA NothingReadyStep ==
  ASSUME RequestInv,
         \/ Unknown \/ fetch_fails \/ send_fails
         \/ \E s \in [min_sendable : Sendable, max_sendable : Sendable] : fetch_limits(s)
         \/ UNCHANGED vars
  PROVE  RequestInv'
<1>1. /\ UNCHANGED <<text, entered, ready, paid>> /\ Agreed' = Agreed
      /\ server' \in [min_sendable : Sendable, max_sendable : Sendable] \cup {NULL}
      /\ \/ stage # "paid" /\ stage' = "refused"
         \/ UNCHANGED stage
         \/ stage = "resolving" /\ stage' = "fetched"
  BY DEF RequestInv, TypeOK, Unknown, fetch_fails, send_fails, fetch_limits, vars, Agreed
<1>2. TypeOK'
  BY <1>1 DEF RequestInv, TypeOK, Stages
<1>3. StagesSound'
  BY <1>1 DEF RequestInv, StagesSound
<1> QED
  BY <1>2, <1>3 DEF RequestInv

(* RequestInv is an invariant, and what is paid is what was agreed.        *)
LEMMA RequestInvariant == Spec => []RequestInv
<1>1. Init => RequestInv
  <2> SUFFICES ASSUME Init PROVE RequestInv
    OBVIOUS
  <2>1. ready \notin Ready
    BY NullIsNoRequest DEF Init
  <2> QED
    BY <2>1 DEF Init, RequestInv, TypeOK, Stages, StagesSound
<1>2. RequestInv /\ [Next]_vars => RequestInv'
  <2> SUFFICES ASSUME RequestInv, [Next]_vars PROVE RequestInv'
    OBVIOUS
  <2> QED
    BY CompleteStep, ResolveStep, InvoiceStep, SendStep, NothingReadyStep, Zenon DEF Next
<1> QED
  BY <1>1, <1>2, PTL DEF Spec

(* Every stage of a request has the shape it should; a request that is     *)
(* ready has an amount that can be paid (Bolt11PaymentRequest and the      *)
(* other two structures of puncture-payment-request/src/lib.rs).           *)
THEOREM RequestTypes == Spec => []TypeOK
BY RequestInvariant, PTL DEF RequestInv

(* What the daemon pays for a request is the amount of the request or the  *)
(* one the user entered, less at most the part of a satoshi that is lost   *)
(* on-chain, whatever the invoice an LNURL server sends asks for; and it   *)
(* is never less than that (resolve_endpoint, bolt11_send, onchain_send).  *)
THEOREM AlwaysPaysWhatWasAgreed == Spec => []PaysWhatWasAgreed
<1>1. RequestInv => PaysWhatWasAgreed
  BY DEF RequestInv, TypeOK, StagesSound, PaysWhatWasAgreed, Carries, Agreed
<1> QED
  BY <1>1, RequestInvariant, PTL

(* The parsers never both accept a text, and of the cores behind           *)
(* "lightning:" one of them accepts every one that can be paid             *)
(* (parse_with_amount, parse_without_amount).                              *)
THEOREM ParsersAlwaysPartition == Spec => []ParsersPartition
<1>1. RequestInv => ParsersPartition
  <2> SUFFICES ASSUME text \in Texts PROVE ParsersPartition
    BY DEF RequestInv, TypeOK
  <2>1. parse_with_amount[text] = NULL \/ parse_without_amount[text] = NULL
    <3>1. NoAmount \notin Amounts
      BY RequestConstants DEF NoAmount
    <3> QED
      BY <3>1, Accepted
  <2> QED
    BY <2>1, Refused DEF ParsersPartition
<1> QED
  BY <1>1, RequestInvariant, PTL
=============================================================================
