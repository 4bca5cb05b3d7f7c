---------------------------- MODULE GrantProofs ----------------------------
(***************************************************************************)
(* Proofs about GrantWebhook and GrantController: the webhook admits the   *)
(* lists that the types allow and no others, for lists of any length, and  *)
(* the reconciler grants what the admitted objects ask for, and reports    *)
(* success only when that is done.                                         *)
(***************************************************************************)
EXTENDS GrantController, SqlReconcilerProofs, WellFoundedInduction

-----------------------------------------------------------------------------
(* Induction over the natural numbers, said of a set, from the library's   *)
(* theorem that every set of numbers has a least one.                      *)
LEMMA SetInduction ==
  ASSUME NEW S, 0 \in S, \A n \in Nat : n \in S => n + 1 \in S
  PROVE  Nat \subseteq S
<1> DEFINE T == Nat \ S
<1>1. SUFFICES ASSUME T # {} PROVE FALSE
  OBVIOUS
<1> DEFINE R == OpToRel(<, Nat)
<1>2. \E x \in T : \A y \in T : ~ (<<y, x>> \in R)
  <2>1. T \subseteq Nat
    OBVIOUS
  <2>2. IsWellFoundedOn(R, Nat)
    BY NatLessThanWellFounded
  <2> HIDE DEF R, T
  <2> QED
    BY <1>1, <2>1, <2>2, WFMin
<1>3. \A x, y \in Nat : <<y, x>> \in R <=> y < x
  BY DEF OpToRel
<1> HIDE DEF R
<1>4. PICK x \in T : \A y \in T : ~ (y < x)
  BY <1>2, <1>3
<1>5. x \in Nat /\ x # 0 /\ x - 1 \in Nat /\ x - 1 < x /\ x = (x - 1) + 1
  BY <1>4
<1> QED
  BY <1>4, <1>5

-----------------------------------------------------------------------------
(* The webhook.                                                            *)

Error == {"", "invalid", "duplicate"}

LoopResult == [error: Error, wanted: SUBSET Privilege, hasAll: BOOLEAN]

NoTurnYet == [error |-> "", wanted |-> {}, hasAll |-> FALSE]

(* A turn of the loop ends in a result.                                    *)
LEMMA CheckType ==
  ASSUME NEW t \in ObjectTypes, NEW r \in LoopResult, NEW p \in Privilege
  PROVE  /\ Check(t, r, p) \in LoopResult
         /\ Check(t, r, p).error = "" <=>
              r.error = "" /\ p \in ValidPrivileges[t] /\ p \notin r.wanted
         /\ Check(t, r, p).error = "" =>
              /\ Check(t, r, p).wanted = r.wanted \cup {p}
              /\ Check(t, r, p).hasAll <=> (r.hasAll \/ p = "ALL")
<1>1. CASE r.error # ""
  <2>1. Check(t, r, p) = r
    BY <1>1, Zenon DEF Check
  <2> QED
    BY <1>1, <2>1
<1>2. CASE r.error = "" /\ p \notin ValidPrivileges[t]
  <2>1. Check(t, r, p) = [r EXCEPT !.error = "invalid"]
    BY <1>2, Zenon DEF Check
  <2> QED
    BY <1>2, <2>1 DEF LoopResult, Error
<1>3. CASE r.error = "" /\ p \in ValidPrivileges[t] /\ p \in r.wanted
  <2>1. Check(t, r, p) = [r EXCEPT !.error = "duplicate"]
    BY <1>3, Zenon DEF Check
  <2> QED
    BY <1>3, <2>1 DEF LoopResult, Error
<1>4. CASE r.error = "" /\ p \in ValidPrivileges[t] /\ p \notin r.wanted
  <2> DEFINE h == r.hasAll \/ p = "ALL"
  <2>1. Check(t, r, p) = [r EXCEPT !.wanted = @ \cup {p}, !.hasAll = h]
    BY <1>4, Zenon DEF Check
  <2>2. h \in BOOLEAN /\ (h <=> (r.hasAll \/ p = "ALL"))
    OBVIOUS
  <2> HIDE DEF h
  <2>3. Check(t, r, p) =
          [error |-> r.error, wanted |-> r.wanted \cup {p}, hasAll |-> h]
    BY <2>1 DEF LoopResult
  <2>4. /\ Check(t, r, p).error = r.error
        /\ Check(t, r, p).wanted = r.wanted \cup {p}
        /\ Check(t, r, p).hasAll = h
    BY <2>3
  <2>5. r.error \in Error /\ r.wanted \cup {p} \in SUBSET Privilege
    BY DEF LoopResult
  <2>6. Check(t, r, p) \in LoopResult
    BY <2>2, <2>3, <2>5 DEF LoopResult
  <2> QED
    BY <1>4, <2>2, <2>4, <2>6
<1> QED
  BY <1>1, <1>2, <1>3, <1>4

(* The loop over a list of any length is defined: after each turn its      *)
(* result is that of Check on the result before it.                        *)
LEMMA LoopDefined ==
  ASSUME NEW list \in Seq(Privilege), NEW t
  PROVE  Loop(list, t) = [i \in 0 .. Len(list) |->
            IF i = 0 THEN NoTurnYet ELSE Check(t, Loop(list, t)[i - 1], list[i])]
<1> DEFINE turns(f, n) == [i \in 0 .. n |->
              IF i = 0 THEN NoTurnYet ELSE Check(t, f[i - 1], list[i])]
           S == {n \in Nat : \E f : f = turns(f, n)}
<1>1. 0 \in S
  <2> DEFINE f == [i \in 0 .. 0 |-> NoTurnYet]
  <2>1. f = turns(f, 0)
    OBVIOUS
  <2> HIDE DEF f
  <2> QED
    BY <2>1
<1>2. ASSUME NEW n \in Nat, n \in S
      PROVE  n + 1 \in S
  <2>1. PICK f : f = turns(f, n)
    BY <1>2
  <2> DEFINE last == Check(t, f[n], list[n + 1])
             g == [i \in 0 .. (n + 1) |-> IF i <= n THEN f[i] ELSE last]
  <2>2. ASSUME NEW i \in 0 .. (n + 1)
        PROVE  g[i] = IF i = 0 THEN NoTurnYet ELSE Check(t, g[i - 1], list[i])
    <3>1. CASE i = 0
      <4>1. g[i] = f[0] /\ f[0] = NoTurnYet
        BY <2>1, <3>1
      <4> QED
        BY <3>1, <4>1
    <3>2. CASE i \in 1 .. n
      <4>1. g[i] = f[i] /\ g[i - 1] = f[i - 1]
        BY <3>2
      <4>2. f[i] = Check(t, f[i - 1], list[i])
        BY <2>1, <3>2
      <4> QED
        BY <3>2, <4>1, <4>2
    <3>3. CASE i = n + 1
      <4>1. g[i] = last /\ g[i - 1] = f[n]
        BY <3>3
      <4> QED
        BY <3>3, <4>1
    <3> QED
      BY <3>1, <3>2, <3>3
  <2>3. g = turns(g, n + 1)
    <3>1. g = [i \in 0 .. (n + 1) |-> g[i]]
      OBVIOUS
    <3> HIDE DEF g
    <3> QED
      BY <2>2, <3>1
  <2> HIDE DEF g
  <2>4. n + 1 \in Nat
    OBVIOUS
  <2> HIDE DEF turns
  <2>5. \E e : e = turns(e, n + 1)
    BY <2>3, Zenon
  <2> QED
    BY <2>4, <2>5, Zenon
<1>3. Len(list) \in S
  <2> HIDE DEF S
  <2>1. Nat \subseteq S
    BY <1>1, <1>2, SetInduction
  <2> QED
    BY <2>1
<1>4. \E f : f = turns(f, Len(list))
  BY <1>3
<1>5. Loop(list, t) = CHOOSE f : f = turns(f, Len(list))
  BY DEF Loop, NoTurnYet
<1> QED
  BY <1>4, <1>5

(* The first i privileges of a list are what the webhook wants them to be. *)
Fine(list, t, i) ==
  /\ \A j \in 1 .. i : list[j] \in ValidPrivileges[t]
  /\ \A j, k \in 1 .. i : list[j] = list[k] => j = k

(* What the result r of i turns says of the list.                          *)
Says(r, list, t, i) ==
  /\ r \in LoopResult
  /\ r.error = "" <=> Fine(list, t, i)
  /\ r.error = "" => r.wanted = {list[j] : j \in 1 .. i}
  /\ r.error = "" => (r.hasAll <=> "ALL" \in r.wanted)

(* If it says what it should, it does so after the next turn.              *)
LEMMA TurnMeaning ==
  ASSUME NEW list \in Seq(Privilege), NEW t \in ObjectTypes,
         NEW n \in Nat, n + 1 \in 1 .. Len(list),
         NEW r, Says(r, list, t, n)
  PROVE  Says(Check(t, r, list[n + 1]), list, t, n + 1)
<1> DEFINE p == list[n + 1]
           next == Check(t, r, p)
<1>1. r \in LoopResult /\ p \in Privilege
  <2>1. r \in LoopResult
    BY Zenon DEF Says
  <2>2. p \in Privilege
    OBVIOUS
  <2> QED
    BY <2>1, <2>2
<1>2. /\ next \in LoopResult
      /\ next.error = "" <=> r.error = "" /\ p \in ValidPrivileges[t] /\ p \notin r.wanted
      /\ next.error = "" => next.wanted = r.wanted \cup {p}
      /\ next.error = "" => (next.hasAll <=> (r.hasAll \/ p = "ALL"))
  <2> HIDE DEF p
  <2>1. /\ Check(t, r, p) \in LoopResult
        /\ Check(t, r, p).error = "" <=>
             r.error = "" /\ p \in ValidPrivileges[t] /\ p \notin r.wanted
        /\ Check(t, r, p).error = "" =>
             /\ Check(t, r, p).wanted = r.wanted \cup {p}
             /\ Check(t, r, p).hasAll <=> (r.hasAll \/ p = "ALL")
    BY <1>1, CheckType, Zenon
  <2> QED
    BY <2>1
<1>3. {list[j] : j \in 1 .. (n + 1)} = {list[j] : j \in 1 .. n} \cup {p}
  OBVIOUS
<1>4. Fine(list, t, n + 1) <=>
        /\ Fine(list, t, n)
        /\ p \in ValidPrivileges[t]
        /\ p \notin {list[j] : j \in 1 .. n}
  <2>1. \A j \in 1 .. (n + 1) : j \in 1 .. n \/ j = n + 1
    OBVIOUS
  <2>2. ASSUME Fine(list, t, n + 1)
        PROVE  /\ Fine(list, t, n)
               /\ p \in ValidPrivileges[t]
               /\ p \notin {list[j] : j \in 1 .. n}
    <3>1. 1 .. n \subseteq 1 .. (n + 1) /\ n + 1 \in 1 .. (n + 1)
      OBVIOUS
    <3>2. Fine(list, t, n) /\ p \in ValidPrivileges[t]
      BY <2>2, <3>1 DEF Fine
    <3>3. ASSUME NEW j \in 1 .. n
          PROVE  list[j] # p
      <4>1. j # n + 1
        OBVIOUS
      <4> QED
        BY <2>2, <3>1, <4>1 DEF Fine
    <3> QED
      BY <3>2, <3>3
  <2>3. ASSUME Fine(list, t, n), p \in ValidPrivileges[t],
               p \notin {list[j] : j \in 1 .. n}
        PROVE  Fine(list, t, n + 1)
    BY <2>1, <2>3 DEF Fine
  <2> QED
    BY <2>2, <2>3
<1> HIDE DEF next, p
<1>5. /\ r.error = "" <=> Fine(list, t, n)
      /\ r.error = "" => r.wanted = {list[j] : j \in 1 .. n}
      /\ r.error = "" => (r.hasAll <=> "ALL" \in r.wanted)
  BY DEF Says
<1>6. next.error = "" <=> Fine(list, t, n + 1)
  BY <1>2, <1>4, <1>5
<1>7. next.error = "" => next.wanted = {list[j] : j \in 1 .. (n + 1)}
  BY <1>2, <1>3, <1>5
<1>8. next.error = "" => (next.hasAll <=> "ALL" \in next.wanted)
  BY <1>2, <1>5
<1> QED
  BY <1>2, <1>6, <1>7, <1>8 DEF Says, next, p

(* The loop stops without an error exactly at lists that are fine, and has *)
(* then seen what they hold.                                               *)
LEMMA LoopMeaning ==
  ASSUME NEW list \in Seq(Privilege), NEW t \in ObjectTypes
  PROVE  Says(Loop(list, t)[Len(list)], list, t, Len(list))
<1> DEFINE L == Loop(list, t)
           S == {i \in Nat : i <= Len(list) => Says(L[i], list, t, i)}
<1>1. Len(list) \in Nat
  OBVIOUS
<1>2. \A i \in 0 .. Len(list) :
        L[i] = IF i = 0 THEN NoTurnYet ELSE Check(t, L[i - 1], list[i])
  <2> HIDE DEF L
  <2>1. L = [i \in 0 .. Len(list) |->
               IF i = 0 THEN NoTurnYet ELSE Check(t, L[i - 1], list[i])]
    BY LoopDefined DEF L
  <2> QED
    BY <2>1
<1> HIDE DEF L
<1>3. 0 \in S
  <2>1. /\ NoTurnYet \in LoopResult /\ NoTurnYet.error = ""
        /\ NoTurnYet.wanted = {} /\ NoTurnYet.hasAll = FALSE
    BY DEF NoTurnYet, LoopResult, Error
  <2>2. Fine(list, t, 0) /\ {list[j] : j \in 1 .. 0} = {}
    BY DEF Fine
  <2>3. Says(NoTurnYet, list, t, 0)
    BY <2>1, <2>2 DEF Says
  <2>4. L[0] = NoTurnYet
    BY <1>1, <1>2
  <2> QED
    BY <2>3, <2>4
<1>4. ASSUME NEW n \in Nat, n \in S
      PROVE  n + 1 \in S
  <2> SUFFICES ASSUME n + 1 <= Len(list)
               PROVE  Says(L[n + 1], list, t, n + 1)
    OBVIOUS
  <2>1. n + 1 \in 1 .. Len(list) /\ n <= Len(list)
    BY <1>1
  <2>2. Says(L[n], list, t, n)
    BY <1>4, <2>1
  <2>3. L[n + 1] = Check(t, L[n], list[n + 1])
    <3>1. n + 1 \in 0 .. Len(list) /\ n + 1 # 0 /\ (n + 1) - 1 = n
      BY <2>1
    <3>2. L[n + 1] = Check(t, L[(n + 1) - 1], list[n + 1])
      BY <1>2, <3>1
    <3> QED
      BY <3>1, <3>2
  <2> QED
    BY <2>1, <2>2, <2>3, TurnMeaning
<1>5. Nat \subseteq S
  <2> HIDE DEF S
  <2> QED
    BY <1>3, <1>4, SetInduction
<1>6. Says(L[Len(list)], list, t, Len(list))
  BY <1>1, <1>5
<1> QED
  BY <1>6 DEF L

(* The webhook has no complaint about a list exactly if the list is well   *)
(* formed: known privileges, none twice, ALL by itself.                    *)
LEMMA ValidatorCorrect ==
  ASSUME NEW list \in Seq(Privilege), NEW t \in ObjectTypes
  PROVE  LET used == {list[i] : i \in 1 .. Len(list)}
         IN ValidatePrivilegesForType(list, t) = "" <=>
              /\ used \subseteq ValidPrivileges[t]
              /\ \A i, j \in 1 .. Len(list) : list[i] = list[j] => i = j
              /\ "ALL" \in used => used = {"ALL"}
<1> DEFINE n == Len(list)
           used == {list[i] : i \in 1 .. n}
           r == Loop(list, t)[n]
<1>1. n \in Nat
  OBVIOUS
<1>2. /\ r.error = "" <=> Fine(list, t, n)
      /\ r.error = "" => (r.hasAll <=> "ALL" \in used)
  <2>1. Says(r, list, t, n)
    BY LoopMeaning
  <2> HIDE DEF r
  <2> QED
    BY <2>1 DEF Says
<1>3. ValidatePrivilegesForType(list, t) = "" <=> r.error = "" /\ ~(r.hasAll /\ n > 1)
  BY DEF ValidatePrivilegesForType
<1>4. Fine(list, t, n) <=> /\ used \subseteq ValidPrivileges[t]
                           /\ \A i, j \in 1 .. n : list[i] = list[j] => i = j
  BY <1>1 DEF Fine
<1>5. ASSUME Fine(list, t, n), "ALL" \in used
      PROVE  n > 1 <=> used # {"ALL"}
  <2>1. PICK i \in 1 .. n : list[i] = "ALL"
    BY <1>5
  <2>2. CASE n > 1
    <3>1. PICK j \in 1 .. n : j # i
      BY <1>1, <2>2
    <3>2. list[j] # "ALL"
      BY <1>5, <2>1, <3>1 DEF Fine
    <3> QED
      BY <2>2, <3>2
  <2>3. CASE ~(n > 1)
    <3>1. \A j \in 1 .. n : j = i
      BY <1>1, <2>3
    <3> QED
      BY <2>1, <2>3, <3>1
  <2> QED
    BY <2>2, <2>3
<1> HIDE DEF n, used, r
<1>6. ValidatePrivilegesForType(list, t) = "" <=>
        Fine(list, t, n) /\ ("ALL" \in used => used = {"ALL"})
  BY <1>2, <1>3, <1>5
<1> QED
  BY <1>4, <1>6 DEF n, used

(* The webhook admits a spec exactly if its lists are well formed.         *)
THEOREM WebhookCorrect ==
  \A s \in GrantSpec : Admitted(s) <=> WellFormed(s)
<1> SUFFICES ASSUME NEW s \in GrantSpec PROVE Admitted(s) <=> WellFormed(s)
  OBVIOUS
<1>1. \A t \in ObjectTypes : s.privileges[t] \in Seq(Privilege)
  BY DEF GrantSpec
<1> QED
  BY <1>1, ValidatorCorrect DEF Admitted, WellFormed

-----------------------------------------------------------------------------
(* Operators of GrantController.                                           *)

AdmittedSpecs == {s \in UNION {SpecsOf[r] : r \in Resources} : WellFormed(s)}

Invariants == TypeOK /\ CopiesWithin(AdmittedSpecs) /\ GrantInv

(* The worker's object has a grant's spec.                                 *)
LEMMA GrantSpecType ==
  ASSUME ReconcilerTypeOK
  PROVE  /\ obj.spec \in GrantSpec
         /\ obj.spec.role \in Roles
         /\ \A t \in ObjectTypes : /\ obj.spec.objects[t] \subseteq Identifiers
                                   /\ obj.spec.privileges[t] \in Seq(Privilege)
<1>1. PICK r \in Resources : obj.spec \in SpecsOf[r]
  BY ObjectFields DEF ReconcilerTypeOK
<1>2. obj.spec \in GrantSpec
  BY <1>1, GrantAssumption
<1> QED
  BY <1>2 DEF GrantSpec

(* What a role is given are privileges of the relation's kind.             *)
LEMMA GivenKind ==
  ASSUME NEW id \in Identifiers, NEW P
  PROVE  /\ Given(id, P) \subseteq KindPrivileges(KindOf[id])
         /\ KindPrivileges(KindOf[id]) \subseteq Privilege
         /\ KindOf[id] # "none" =>
              KindOf[id] \in {"table", "sequence"} /\ KindOf[id] \in ObjectTypes
<1>1. KindOf[id] \in {"table", "sequence", "none"}
  BY GrantAssumption
<1>2. KindOf[id] # "none" => KindOf[id] \in ObjectTypes
  BY <1>1 DEF ObjectTypes
<1>3. KindPrivileges(KindOf[id]) \subseteq Privilege
  BY <1>1, <1>2 DEF KindPrivileges, Privilege
<1> QED
  BY <1>1, <1>2, <1>3 DEF Given

(* An empty list and ALL stand for all privileges.                         *)
LEMMA PrivilegesMeaning ==
  ASSUME NEW s \in GrantSpec, NEW t \in ObjectTypes
  PROVE  /\ s.privileges[t] \in {<<>>, <<"ALL">>} => Privileges(s, t) = {"ALL"}
         /\ s.privileges[t] \notin {<<>>, <<"ALL">>} =>
              /\ Privileges(s, t) = AskedFor(s, t)
              /\ Privileges(s, t) = {s.privileges[t][i] : i \in 1 .. Len(s.privileges[t])}
<1> DEFINE list == s.privileges[t]
<1>1. list \in Seq(Privilege)
  BY DEF GrantSpec
<1>2. ToSet(list) = {list[i] : i \in 1 .. Len(list)}
  BY <1>1 DEF ToSet
<1>3. CASE list = <<>>
  BY <1>3 DEF Privileges
<1>4. CASE list = <<"ALL">>
  <2>1. ToSet(<<"ALL">>) = {"ALL"}
    BY DEF ToSet
  <2> QED
    BY <1>4, <2>1 DEF Privileges
<1>5. CASE list \notin {<<>>, <<"ALL">>}
  BY <1>2, <1>5 DEF Privileges, AskedFor
<1> QED
  BY <1>3, <1>4, <1>5

(* What a list asks for on a relation of its kind is in the statement.     *)
LEMMA AskedIsGiven ==
  ASSUME NEW s \in GrantSpec, NEW t \in ObjectTypes, NEW id \in Identifiers
  PROVE  AskedFor(s, t) \cap KindPrivileges(KindOf[id]) \subseteq Given(id, Privileges(s, t))
<1>1. CASE s.privileges[t] \in {<<>>, <<"ALL">>}
  BY <1>1, PrivilegesMeaning DEF Given
<1>2. CASE s.privileges[t] \notin {<<>>, <<"ALL">>}
  BY <1>2, PrivilegesMeaning DEF Given
<1> QED
  BY <1>1, <1>2

(* A well-formed list of which nothing but ALL is left is ALL itself.      *)
LEMMA AllAlone ==
  ASSUME NEW list \in Seq(Privilege),
         \A i, j \in 1 .. Len(list) : list[i] = list[j] => i = j,
         {list[i] : i \in 1 .. Len(list)} = {"ALL"}
  PROVE  list = <<"ALL">>
<1>1. Len(list) \in Nat /\ \A i \in 1 .. Len(list) : list[i] = "ALL"
  OBVIOUS
<1>2. Len(list) # 0
  OBVIOUS
<1>3. Len(list) = 1
  <2>1. PICK n \in Nat : n = Len(list)
    BY <1>1
  <2>2. ~(n > 1)
    BY <1>1, <2>1
  <2>3. n # 0
    BY <1>2, <2>1
  <2>4. n = 1
    BY <2>2, <2>3
  <2> QED
    BY <2>1, <2>4
<1> QED
  BY <1>1, <1>3

(* Nothing but what the list asks for is in the statement, if relations    *)
(* are not mistaken for something else.                                    *)
LEMMA GivenIsAsked ==
  ASSUME NoNamesakes, NEW r \in Resources, NEW s \in SpecsOf[r], WellFormed(s),
         NEW t \in ObjectTypes, NEW id \in s.objects[t], id \in Identifiers,
         KindOf[id] # "none"
  PROVE  t \in {"table", "sequence"} /\ Given(id, Privileges(s, t)) \subseteq AskedFor(s, t)
<1>1. s \in GrantSpec
  BY GrantAssumption
<1>2. t \in {"table", "sequence"}
  BY DEF NoNamesakes
<1>3. CASE s.privileges[t] \in {<<>>, <<"ALL">>}
  <2>1. KindOf[id] = t
    BY <1>3 DEF NoNamesakes
  <2>2. KindPrivileges(t) \subseteq ValidPrivileges[t]
    BY DEF KindPrivileges
  <2>3. AskedFor(s, t) = ValidPrivileges[t]
    BY <1>3 DEF AskedFor
  <2> QED
    BY <1>2, <2>1, <2>2, <2>3, GivenKind
<1>4. CASE s.privileges[t] \notin {<<>>, <<"ALL">>}
  <2>1. /\ Privileges(s, t) = AskedFor(s, t)
        /\ Privileges(s, t) = {s.privileges[t][i] : i \in 1 .. Len(s.privileges[t])}
    BY <1>1, <1>4, PrivilegesMeaning
  <2>2. /\ s.privileges[t] \in Seq(Privilege)
        /\ \A i, j \in 1 .. Len(s.privileges[t]) :
             s.privileges[t][i] = s.privileges[t][j] => i = j
    BY <1>1 DEF WellFormed, GrantSpec
  <2>3. Privileges(s, t) # {"ALL"}
    BY <1>4, <2>1, <2>2, AllAlone
  <2> QED
    BY <1>2, <2>1, <2>3 DEF Given
<1> QED
  BY <1>3, <1>4

-----------------------------------------------------------------------------
(* Steps.                                                                  *)

(* What a role holds it keeps while the relation is there.                 *)
LEMMA HoldsOn ==
  ASSUME NEW s, NEW t, NEW id, Holds(s, t, id),
         \A g \in granted : g.id = id => g \in granted'
  PROVE  Holds(s, t, id)'
BY DEF Holds

(* A step after which the worker has no statement to go on with.           *)
LEMMA NothingLeft ==
  ASSUME Invariants, ReconcilerTypeOK', CopiesWithin(AdmittedSpecs)',
         pc' \in {"idle", "connect", "succeeded"}, left' = {},
         UNCHANGED relations, granted' \subseteq Grant
  PROVE  Invariants'
BY DEF Invariants, TypeOK, GrantInv, CopiesWithin, AdmittedSpecs

(* A step that takes nothing from the worker or the database.              *)
LEMMA Elsewhere ==
  ASSUME Invariants, ReconcilerTypeOK', CopiesWithin(AdmittedSpecs)',
         UNCHANGED <<pc, obj, left>>,
         relations' \subseteq Identifiers, granted' \subseteq Grant,
         \A id \in relations' : KindOf[id] # "none",
         \A id \in relations \ Droppable :
           id \in relations' /\ \A g \in granted : g.id = id => g \in granted'
  PROVE  Invariants'
<1>1. /\ TypeOK /\ GrantInv
      /\ \A t \in ObjectTypes : obj.spec.objects[t] \subseteq Identifiers
  BY GrantSpecType DEF Invariants, TypeOK
<1>2. TypeOK'
  BY <1>1 DEF TypeOK
<1>3. ASSUME pc = "grant", NEW t \in ObjectTypes, NEW id \in obj.spec.objects[t] \ Droppable
      PROVE  <<t, id>> \in left \/ (id \in relations' /\ Holds(obj.spec, t, id)')
  BY <1>1, <1>3, HoldsOn DEF GrantInv
<1>4. GrantInv'
  BY <1>1, <1>3 DEF GrantInv, Holds
<1> QED
  BY <1>2, <1>4 DEF Invariants

(* The steps of SqlReconciler that say nothing of the database.            *)
LEMMA GrantSharedSteps ==
  ASSUME Invariants,
         \/ Succeed /\ UNCHANGED grantVars
         \/ Around /\ UNCHANGED grantVars
         \/ (CallFails \/ Crash) /\ Stop /\ UNCHANGED <<relations, granted>>
         \/ \E r \in Resources :
              (Begin(r) \/ \E s \in SpecsOf[r] : Submit(r, s)) /\ UNCHANGED grantVars
  PROVE  Invariants'
<1>1. /\ TypeOK /\ ReconcilerTypeOK /\ CopiesWithin(AdmittedSpecs) /\ GrantInv
      /\ granted \subseteq Grant /\ relations \subseteq Identifiers
  BY DEF Invariants, TypeOK
<1>2. ASSUME pc # "grant"
      PROVE  left = {}
  BY <1>1, <1>2 DEF TypeOK
<1>3. CASE Succeed /\ UNCHANGED grantVars
  <2>1. /\ ReconcilerTypeOK' /\ CopiesWithin(AdmittedSpecs)'
        /\ pc = "succeeded" /\ pc' = "idle"
    BY <1>1, <1>3, SucceedStep
  <2> QED
    BY <1>1, <1>2, <1>3, <2>1, NothingLeft DEF grantVars
<1>4. ASSUME UNCHANGED grantVars, UNCHANGED <<pc, obj>>,
             ReconcilerTypeOK', CopiesWithin(AdmittedSpecs)'
      PROVE  Invariants'
  BY <1>1, <1>4, Elsewhere DEF grantVars, GrantInv
<1>5. CASE Around /\ UNCHANGED grantVars
  <2>1. ReconcilerTypeOK' /\ CopiesWithin(AdmittedSpecs)' /\ UNCHANGED <<pc, obj>>
    BY <1>1, <1>5, AroundStep
  <2> QED
    BY <1>4, <1>5, <2>1
<1>6. CASE (CallFails \/ Crash) /\ Stop /\ UNCHANGED <<relations, granted>>
  <2>1. ReconcilerTypeOK' /\ CopiesWithin(AdmittedSpecs)' /\ pc' = "idle"
    BY <1>1, <1>6, FailureStep
  <2> QED
    BY <1>1, <1>6, <2>1, NothingLeft DEF Stop
<1>7. ASSUME NEW r \in Resources, Begin(r), UNCHANGED grantVars
      PROVE  Invariants'
  <2>1. /\ ReconcilerTypeOK' /\ CopiesWithin(AdmittedSpecs)'
        /\ pc = "idle" /\ pc' \in {"idle", "connect"}
    BY <1>1, <1>7, BeginStep
  <2> QED
    BY <1>1, <1>2, <1>7, <2>1, NothingLeft DEF grantVars
<1>8. ASSUME NEW r \in Resources, NEW s \in SpecsOf[r], Submit(r, s), UNCHANGED grantVars
      PROVE  Invariants'
  <2>1. s \in AdmittedSpecs
    BY <1>8, WebhookCorrect, GrantAssumption DEF Submit, AdmittedSpecs
  <2>2. ReconcilerTypeOK' /\ CopiesWithin(AdmittedSpecs)' /\ UNCHANGED <<pc, obj>>
    BY <1>1, <1>8, <2>1, UserStep DEF Submit
  <2> QED
    BY <1>4, <1>8, <2>2
<1> QED
  BY <1>3, <1>5, <1>6, <1>7, <1>8

(* The worker turns to the first statement.                                *)
LEMMA StartStep ==
  ASSUME Invariants, Start
  PROVE  Invariants'
<1>1. /\ TypeOK /\ ReconcilerTypeOK /\ CopiesWithin(AdmittedSpecs) /\ GrantInv
      /\ granted \subseteq Grant /\ relations \subseteq Identifiers
  BY DEF Invariants, TypeOK
<1>2. /\ ReconcilerTypeOK' /\ CopiesWithin(AdmittedSpecs)'
      /\ pc = "connect"
      /\ \/ access /\ pc' = "grant" /\ obj' = obj
         \/ ~access /\ pc' = "idle"
  BY <1>1, ConnectStep DEF Start
<1>3. CASE ~access
  BY <1>1, <1>2, <1>3, NothingLeft DEF Start
<1>4. CASE access
  <2>1. /\ pc' = "grant" /\ obj' = obj /\ left' = Statements(obj.spec)
        /\ relations' = relations /\ granted' = granted
    BY <1>2, <1>4 DEF Start
  <2>2. \A t \in ObjectTypes : obj.spec.objects[t] \subseteq Identifiers
    BY <1>1, GrantSpecType
  <2>3. /\ Statements(obj.spec) \subseteq ObjectTypes \X Identifiers
        /\ \A t \in ObjectTypes : \A id \in obj.spec.objects[t] :
             <<t, id>> \in Statements(obj.spec)
    BY <2>2 DEF Statements
  <2>4. TypeOK'
    BY <1>1, <1>2, <2>1, <2>3 DEF TypeOK
  <2>5. GrantInv'
    BY <1>1, <1>2, <2>1, <2>3 DEF GrantInv
  <2> QED
    BY <1>2, <2>4, <2>5 DEF Invariants
<1> QED
  BY <1>3, <1>4

(* All statements are done.                                                *)
LEMMA FinishStep ==
  ASSUME Invariants, Finish
  PROVE  Invariants'
<1>1. /\ TypeOK /\ ReconcilerTypeOK /\ CopiesWithin(AdmittedSpecs)
      /\ granted \subseteq Grant
  BY DEF Invariants, TypeOK
<1>2. /\ pc = "grant" /\ pc' = "succeeded" /\ left' = {} /\ obj' = obj
      /\ UNCHANGED <<store, watch, cache, queue, access, edits, faults, relations, granted>>
  BY DEF Finish, grantVars
<1>3. ApiTypeOK' /\ obj' \in Object /\ CopiesWithin(AdmittedSpecs)'
  BY <1>1, <1>2, StepWithCopy
<1>4. ReconcilerTypeOK'
  BY <1>1, <1>2, <1>3 DEF ReconcilerTypeOK
<1> QED
  BY <1>1, <1>2, <1>3, <1>4, NothingLeft

(* A statement gives the role what the list asks for, or ends it all.      *)
LEMMA GrantStep ==
  ASSUME Invariants, NEW t \in ObjectTypes, NEW id \in Identifiers, GrantNext(t, id)
  PROVE  Invariants'
<1> DEFINE given == {[role |-> obj.spec.role, id |-> id, privilege |-> p] :
                       p \in Given(id, Privileges(obj.spec, t))}
<1>1. /\ TypeOK /\ ReconcilerTypeOK /\ CopiesWithin(AdmittedSpecs) /\ GrantInv
      /\ granted \subseteq Grant /\ relations \subseteq Identifiers
      /\ obj.spec \in GrantSpec /\ obj.spec.role \in Roles
      /\ \A q \in ObjectTypes : obj.spec.objects[q] \subseteq Identifiers
  BY GrantSpecType DEF Invariants, TypeOK
<1>2. /\ pc = "grant" /\ <<t, id>> \in left
      /\ UNCHANGED <<store, watch, cache, access, edits, relations>>
  BY DEF GrantNext
<1>3. granted \cup given \subseteq Grant
  BY <1>1, GivenKind DEF Grant
<1>4. CASE ~GrantAccepted(id, Privileges(obj.spec, t))
  <2>1. Rejected /\ Stop /\ granted' = granted
    BY <1>4 DEF GrantNext
  <2>2. ReconcilerTypeOK' /\ CopiesWithin(AdmittedSpecs)' /\ pc' = "idle"
    BY <1>1, <1>2, <2>1, RejectedStep
  <2> QED
    BY <1>1, <1>2, <2>1, <2>2, NothingLeft DEF Stop
<1>5. CASE GrantAccepted(id, Privileges(obj.spec, t))
  <2>1. granted' = granted \cup given
    BY <1>5 DEF GrantNext
  <2>2. CASE faults < MaxFaults /\ faults' = faults + 1 /\ Requeue /\ Stop
    <3>1. Reply("grant")
      BY <2>2 DEF Reply
    <3>2. ReconcilerTypeOK' /\ CopiesWithin(AdmittedSpecs)' /\ pc' = "idle"
      BY <1>1, <1>2, <2>2, <3>1, ReplyStep DEF Requeue
    <3> QED
      BY <1>2, <1>3, <2>1, <2>2, <3>2, NothingLeft DEF Stop
  <2>3. CASE left' = left \ {<<t, id>>} /\ UNCHANGED <<pc, obj, queue, faults>>
    <3>1. Reply("grant")
      BY <1>2, <2>3 DEF Reply
    <3>2. ReconcilerTypeOK' /\ CopiesWithin(AdmittedSpecs)'
      BY <1>1, <1>2, <3>1, ReplyStep
    <3>3. TypeOK'
      BY <1>1, <1>2, <1>3, <2>1, <2>3, <3>2 DEF TypeOK
    <3>4. Holds(obj.spec, t, id)'
      <4>1. AskedFor(obj.spec, t) \cap KindPrivileges(KindOf[id])
              \subseteq Given(id, Privileges(obj.spec, t))
        BY <1>1, AskedIsGiven
      <4> QED
        BY <2>1, <2>3, <4>1 DEF Holds
    <3>5. ASSUME NEW u \in ObjectTypes, NEW other \in obj.spec.objects[u] \ Droppable
          PROVE  <<u, other>> \in left' \/ (other \in relations' /\ Holds(obj.spec, u, other)')
      <4>1. CASE <<u, other>> = <<t, id>>
        <5>1. id \in relations'
          BY <1>2, <1>5 DEF GrantAccepted
        <5>2. u = t /\ other = id
          BY <4>1
        <5>3. Holds(obj.spec, u, other)'
          BY <3>4, <5>2 DEF Holds
        <5> QED
          BY <5>1, <5>2, <5>3
      <4>2. CASE <<u, other>> \in left /\ <<u, other>> # <<t, id>>
        BY <2>3, <4>2
      <4>3. CASE other \in relations /\ Holds(obj.spec, u, other)
        BY <1>2, <2>1, <2>3, <4>3 DEF Holds
      <4> QED
        BY <1>1, <1>2, <4>1, <4>2, <4>3 DEF GrantInv
    <3>6. GrantInv'
      BY <1>1, <1>2, <2>3, <3>5 DEF GrantInv, Holds
    <3> QED
      BY <3>2, <3>3, <3>6 DEF Invariants
  <2> QED
    BY <1>5, <2>2, <2>3 DEF GrantNext
<1> QED
  BY <1>4, <1>5

(* Relations come and go.                                                  *)
LEMMA RelationStep ==
  ASSUME Invariants, NEW id \in Identifiers, CreateRelation(id) \/ DropRelation(id)
  PROVE  Invariants'
<1>1. /\ TypeOK /\ ReconcilerTypeOK /\ CopiesWithin(AdmittedSpecs) /\ GrantInv
      /\ granted \subseteq Grant /\ relations \subseteq Identifiers
  BY DEF Invariants, TypeOK
<1>2. /\ UNCHANGED <<store, watch, cache, queue, pc, obj, access, edits, left>>
      /\ faults' \in 0 .. MaxFaults
  <2>1. CASE CreateRelation(id)
    BY <1>1, <2>1 DEF CreateRelation, ReconcilerTypeOK
  <2>2. CASE DropRelation(id)
    BY <1>1, <2>2, FaultType DEF DropRelation
  <2> QED
    BY <2>1, <2>2
<1>3. ReconcilerTypeOK' /\ CopiesWithin(AdmittedSpecs)'
  <2>1. ApiTypeOK' /\ obj' \in Object /\ CopiesWithin(AdmittedSpecs)'
    BY <1>1, <1>2, StepWithCopy
  <2> QED
    BY <1>1, <1>2, <2>1 DEF ReconcilerTypeOK
<1>4. CASE CreateRelation(id)
  BY <1>1, <1>2, <1>3, <1>4, Elsewhere DEF CreateRelation, GrantInv
<1>5. CASE DropRelation(id)
  <2>1. /\ id \in Droppable /\ relations' = relations \ {id}
        /\ granted' = {g \in granted : g.id # id}
    BY <1>5 DEF DropRelation
  <2> QED
    BY <1>1, <1>2, <1>3, <2>1, Elsewhere DEF GrantInv
<1> QED
  BY <1>4, <1>5

(* At first nothing is there and nothing is granted.                       *)
LEMMA GrantInit == Init => Invariants
<1> SUFFICES ASSUME Init PROVE Invariants
  OBVIOUS
<1>1. ReconcilerTypeOK /\ CopiesWithin(AdmittedSpecs) /\ pc = "idle" /\ ~obj.present
  BY ReconcilerInitType, NoRequestType DEF Init, ReconcilerInit
<1> QED
  BY <1>1 DEF Init, Invariants, TypeOK, GrantInv

(* No step violates the invariants.                                        *)
LEMMA GrantNextInv == Invariants /\ [Next]_vars => Invariants'
<1> SUFFICES ASSUME Invariants, [Next]_vars PROVE Invariants'
  OBVIOUS
<1>1. CASE Worker
  BY <1>1, StartStep, FinishStep, GrantStep, GrantSharedSteps DEF Worker
<1>2. ASSUME NEW id \in Identifiers, CreateRelation(id) \/ DropRelation(id)
      PROVE  Invariants'
  BY <1>2, RelationStep
<1>3. CASE \/ Around /\ UNCHANGED grantVars
           \/ (CallFails \/ Crash) /\ Stop /\ UNCHANGED <<relations, granted>>
           \/ \E r \in Resources :
                (Begin(r) \/ \E s \in SpecsOf[r] : Submit(r, s)) /\ UNCHANGED grantVars
  BY <1>3, GrantSharedSteps
<1>4. CASE UNCHANGED vars
  BY <1>4 DEF vars, grantVars, Invariants, TypeOK, ReconcilerTypeOK, ApiTypeOK,
              CopiesWithin, GrantInv, Holds
<1> QED
  BY <1>1, <1>2, <1>3, <1>4 DEF Next

(* The types of the grant reconciler's variables and of its environment's. *)
THEOREM GrantTypes == Spec => []TypeOK
<1>1. Invariants => TypeOK
  BY DEF Invariants
<1> QED
  BY <1>1, GrantInit, GrantNextInv, PTL DEF Spec

(* The worker's progress: what it has done of its object is done.          *)
THEOREM GrantProgress == Spec => []GrantInv
<1>1. Invariants => GrantInv
  BY DEF Invariants
<1> QED
  BY <1>1, GrantInit, GrantNextInv, PTL DEF Spec

(* Only objects with well-formed lists get past the webhook, and all of    *)
(* them do.                                                                *)
THEOREM Admission == Spec => []OnlyWellFormed
<1>1. Invariants => OnlyWellFormed
  BY WebhookCorrect, GrantAssumption
     DEF Invariants, CopiesWithin, AdmittedSpecs, OnlyWellFormed
<1> QED
  BY <1>1, GrantInit, GrantNextInv, PTL DEF Spec

-----------------------------------------------------------------------------
(* Success is reported with the step Finish only, when GrantInv says that  *)
(* there is nothing left of what the object asks for.                      *)
THEOREM SuccessGranted == Spec => SuccessMeansGranted
<1>1. Invariants /\ [Next]_vars =>
        [pc' = "succeeded" /\ pc # "succeeded" =>
           \A t \in ObjectTypes : \A id \in obj.spec.objects[t] \ Droppable :
             id \in relations /\ Holds(obj.spec, t, id)]_vars
  <2> SUFFICES ASSUME Invariants, [Next]_vars, pc' = "succeeded", pc # "succeeded",
                      NEW t \in ObjectTypes, NEW id \in obj.spec.objects[t] \ Droppable
               PROVE  id \in relations /\ Holds(obj.spec, t, id)
    OBVIOUS
  <2>1. TypeOK /\ ReconcilerTypeOK /\ CopiesWithin(AdmittedSpecs) /\ GrantInv
    BY DEF Invariants, TypeOK
  <2>2. Finish
    <3>1. ~Start
      BY <2>1, ConnectStep DEF Start
    <3>2. ~Succeed
      BY <2>1, SucceedStep
    <3>3. \A u \in ObjectTypes, other \in Identifiers : ~GrantNext(u, other)
      BY DEF GrantNext, Rejected, Requeue
    <3>4. /\ \A other \in Identifiers : ~CreateRelation(other) /\ ~DropRelation(other)
          /\ ~UNCHANGED vars
      BY DEF CreateRelation, DropRelation, vars
    <3>5. ~Around
      BY <2>1, AroundStep
    <3>6. ~CallFails /\ ~Crash
      BY <2>1, FailureStep
    <3>7. ASSUME NEW r \in Resources PROVE ~Begin(r)
      BY <2>1, <3>7, BeginStep
    <3>8. ASSUME NEW r \in Resources, NEW s \in SpecsOf[r] PROVE ~Submit(r, s)
      BY DEF Submit, UserCreate, UserEdit, UserWrite
    <3> QED
      BY <3>1, <3>2, <3>3, <3>4, <3>5, <3>6, <3>7, <3>8 DEF Next, Worker
  <2> QED
    BY <2>1, <2>2 DEF Finish, GrantInv
<1> QED
  BY <1>1, GrantInit, GrantNextInv, PTL DEF Spec, SuccessMeansGranted

(* If no relation has the name of a database, schema or function that an   *)
(* object lists, and lists with all privileges have relations of their     *)
(* kind only, then nobody is given what no admitted object asked for.      *)
THEOREM AsAsked ==
  ASSUME NoNamesakes
  PROVE  Spec => GrantedAsAsked
<1>1. Invariants /\ [Next]_vars =>
        [\A g \in granted' \ granted :
           /\ WellFormed(obj.spec)
           /\ g.role = obj.spec.role
           /\ \E t \in {"table", "sequence"} :
                g.id \in obj.spec.objects[t] /\ g.privilege \in AskedFor(obj.spec, t)]_vars
  <2> SUFFICES ASSUME Invariants, [Next]_vars, NEW g \in granted' \ granted
               PROVE  /\ WellFormed(obj.spec)
                      /\ g.role = obj.spec.role
                      /\ \E t \in {"table", "sequence"} :
                           /\ g.id \in obj.spec.objects[t]
                           /\ g.privilege \in AskedFor(obj.spec, t)
    OBVIOUS
  <2>1. TypeOK /\ ReconcilerTypeOK /\ GrantInv
    BY DEF Invariants, TypeOK
  <2>2. granted' # granted
    OBVIOUS
  <2>3. PICK t \in ObjectTypes : \E id \in Identifiers : GrantNext(t, id)
    <3>1. ~UNCHANGED grantVars /\ ~UNCHANGED vars /\ ~UNCHANGED <<relations, granted>>
      BY <2>2 DEF grantVars, vars
    <3>2. ~Start /\ ~Finish
      BY <2>2 DEF Start, Finish, grantVars
    <3>3. \A id \in Identifiers : ~CreateRelation(id) /\ ~DropRelation(id)
      BY <2>2 DEF CreateRelation, DropRelation
    <3> QED
      BY <3>1, <3>2, <3>3 DEF Next, Worker
  <2>4. PICK id \in Identifiers : GrantNext(t, id)
    BY <2>3
  <2>5. /\ pc = "grant" /\ <<t, id>> \in left
        /\ GrantAccepted(id, Privileges(obj.spec, t))
        /\ granted' = granted \cup
             {[role |-> obj.spec.role, id |-> id, privilege |-> p] :
                p \in Given(id, Privileges(obj.spec, t))}
    BY <2>2, <2>4 DEF GrantNext
  <2>6. PICK p \in Given(id, Privileges(obj.spec, t)) :
          g = [role |-> obj.spec.role, id |-> id, privilege |-> p]
    BY <2>5
  <2>7. g.role = obj.spec.role /\ g.id = id /\ g.privilege = p
    BY <2>6
  <2>8. /\ WellFormed(obj.spec) /\ id \in obj.spec.objects[t] /\ KindOf[id] # "none"
    <3>1. <<t, id>> \in Statements(obj.spec) /\ WellFormed(obj.spec)
      BY <2>1, <2>5 DEF GrantInv
    <3>2. id \in relations
      BY <2>5 DEF GrantAccepted
    <3> QED
      BY <2>1, <3>1, <3>2 DEF Statements, GrantInv
  <2>9. PICK r \in Resources : obj.spec \in SpecsOf[r]
    BY <2>1, ObjectFields DEF ReconcilerTypeOK
  <2>10. /\ t \in {"table", "sequence"}
         /\ Given(id, Privileges(obj.spec, t)) \subseteq AskedFor(obj.spec, t)
    BY <2>8, <2>9, GivenIsAsked
  <2> QED
    BY <2>6, <2>7, <2>8, <2>10
<1> QED
  BY <1>1, GrantInit, GrantNextInv, PTL DEF Spec, GrantedAsAsked

=============================================================================
