----------------------- MODULE TokenValidationProofs ------------------------
(* Proofs about TokenValidation, for any rules, requests and probes, on    *)
(* top of the invariant of the rows: what a sequence of rules makes of the *)
(* claims and of the user's fields, by induction over the scripts, and what*)
(* the issuer makes of both, then which tokens are accepted and which email*)
(* a profile shows.                                                        *)
EXTENDS TokenValidation, ManagementRowsProofs

(* f is the sequence of users that the first k scripts make one after the  *)
(* other.                                                                  *)
Running(f, user, rules, k) ==
    f = [i \in 0..k |->
           IF i = 0 THEN user
           ELSE IF \E j \in 1..(i - 1) : rules[j].throws THEN f[i - 1]
           ELSE runRule(f[i - 1], rules[i])]

LEMMA RunningExists ==
    ASSUME NEW user, NEW rules, NEW n \in Nat
    PROVE  \E f : Running(f, user, rules, n)
<1> DEFINE After(x, i) == IF \E j \in 1..(i - 1) : rules[j].throws THEN x
                          ELSE runRule(x, rules[i])
           Runs(f, k) == f = [i \in 0..k |-> IF i = 0 THEN user ELSE After(f[i - 1], i)]
           S == {k \in 0..n : \E f : Runs(f, k)}
<1> HIDE DEF After
<1>1. 0 \in S
  <2>1. Runs([i \in 0..0 |-> user], 0)
    OBVIOUS
  <2> HIDE DEF Runs
  <2> QED
    BY <2>1
<1>2. ASSUME NEW k \in 0..n, k \in S, k < n PROVE k + 1 \in S
  <2>1. PICK f : Runs(f, k)
    BY <1>2
  <2> DEFINE g == [i \in 0..k + 1 |-> IF i = k + 1 THEN After(f[k], k + 1) ELSE f[i]]
  <2>2. \A i \in 0..k : f[i] = IF i = 0 THEN user ELSE After(f[i - 1], i)
    BY <2>1, Zenon
  <2>3. \A i \in 0..k + 1 : g[i] = IF i = 0 THEN user ELSE After(g[i - 1], i)
    BY <2>2
  <2>4. Runs(g, k + 1)
    BY <2>3
  <2>5. k + 1 \in 0..n
    BY <1>2
  <2> HIDE DEF g
  <2> QED
    BY <2>4, <2>5
<1>3. n \in S
  <2> HIDE DEF S
  <2> QED
    BY <1>1, <1>2, Induction
<1>4. PICK f : Runs(f, n)
  BY <1>3
<1>5. Running(f, user, rules, n)
  BY <1>4, Zenon DEF Running, After
<1> QED
  BY <1>5

(* Run is what the scripts make one after the other, up to the first that  *)
(* throws.                                                                 *)
LEMMA RunSteps ==
    ASSUME NEW user, NEW rules, Len(rules) \in Nat
    PROVE  \E f : /\ f[0] = user /\ Run(user, rules) = f[Len(rules)]
                  /\ \A i \in 1..Len(rules) :
                       f[i] = IF Reached(rules, i) THEN runRule(f[i - 1], rules[i])
                              ELSE f[i - 1]
<1> DEFINE n == Len(rules)
           after[i \in 0..n] ==
             IF i = 0 THEN user
             ELSE IF \E j \in 1..(i - 1) : rules[j].throws THEN after[i - 1]
             ELSE runRule(after[i - 1], rules[i])
<1>1. \E f : Running(f, user, rules, n)
  BY RunningExists
<1>2. Running(after, user, rules, n)
  BY <1>1, Zenon DEF Running
<1>3. Run(user, rules) = after[n]
  BY Zenon DEF Run
<1> HIDE DEF after
<1>4. \A i \in 0..n :
        after[i] = IF i = 0 THEN user
                   ELSE IF \E j \in 1..(i - 1) : rules[j].throws THEN after[i - 1]
                   ELSE runRule(after[i - 1], rules[i])
  BY <1>2, Zenon DEF Running
<1> HIDE DEF n
<1>5. n \in Nat
  BY DEF n
<1>6. after[0] = user
  BY <1>4, <1>5
<1>7. \A i \in 1..n : i \in 0..n /\ i # 0
  BY <1>5
<1>8. \A i \in 1..n : after[i] = IF Reached(rules, i) THEN runRule(after[i - 1], rules[i])
                                 ELSE after[i - 1]
  BY <1>4, <1>7, Zenon DEF Reached
<1> QED
  BY <1>3, <1>6, <1>8, Zenon DEF n

(* One more script: which hand the user back, and which claims count.      *)
LEMMA HandedBackStep ==
    ASSUME NEW rules, NEW n \in Nat
    PROVE  HandedBack(rules, n + 1) <=>
             /\ ~Returns(rules, n + 1, "other")
             /\ HandedBack(rules, n) \/ Returns(rules, n + 1, "user")
<1> DEFINE User(j) == Returns(rules, j, "user")
           Other(j) == Returns(rules, j, "other")
<1>1. /\ HandedBack(rules, n) <=> \E j \in 1..n : User(j) /\ \A k \in j..n : ~Other(k)
      /\ HandedBack(rules, n + 1) <=>
           \E j \in 1..(n + 1) : User(j) /\ \A k \in j..(n + 1) : ~Other(k)
  BY DEF HandedBack
<1> HIDE DEF User, Other
<1>2. HandedBack(rules, n + 1) <=> ~Other(n + 1) /\ (HandedBack(rules, n) \/ User(n + 1))
  <2>1. ASSUME HandedBack(rules, n + 1)
        PROVE  ~Other(n + 1) /\ (HandedBack(rules, n) \/ User(n + 1))
    <3>1. PICK j \in 1..(n + 1) : User(j) /\ \A k \in j..(n + 1) : ~Other(k)
      BY <1>1, <2>1
    <3>2. ~Other(n + 1)
      BY <3>1
    <3>3. j # n + 1 => j \in 1..n /\ j..n \subseteq j..(n + 1)
      BY <3>1
    <3> QED
      BY <1>1, <3>1, <3>2, <3>3
  <2>2. ASSUME ~Other(n + 1), User(n + 1) PROVE HandedBack(rules, n + 1)
    <3>1. n + 1 \in 1..(n + 1) /\ (n + 1)..(n + 1) = {n + 1}
      OBVIOUS
    <3> QED
      BY <1>1, <2>2, <3>1
  <2>3. ASSUME ~Other(n + 1), HandedBack(rules, n) PROVE HandedBack(rules, n + 1)
    <3>1. PICK j \in 1..n : User(j) /\ \A k \in j..n : ~Other(k)
      BY <1>1, <2>3
    <3>2. j \in 1..(n + 1) /\ \A k \in j..(n + 1) : k = n + 1 \/ k \in j..n
      OBVIOUS
    <3> QED
      BY <1>1, <2>3, <3>1, <3>2
  <2> QED
    BY <2>1, <2>2, <2>3
<1> QED
  BY <1>2 DEF User, Other

LEMMA CountingStep ==
    ASSUME NEW rules, NEW n \in Nat, NEW c
    PROVE  Counting(rules, n + 1, c) =
             IF Returns(rules, n + 1, "other") THEN {}
             ELSE Counting(rules, n, c) \cup
                  {i \in {n + 1} : /\ c \in DOMAIN rules[i].set
                                   /\ Reached(rules, i) /\ HandedBack(rules, i)}
<1> DEFINE P(i) == c \in DOMAIN rules[i].set /\ Reached(rules, i) /\ HandedBack(rules, i)
           Other(j) == Returns(rules, j, "other")
<1>1. /\ Counting(rules, n, c) = {i \in 1..n : P(i) /\ \A k \in i..n : ~Other(k)}
      /\ Counting(rules, n + 1, c) =
           {i \in 1..(n + 1) : P(i) /\ \A k \in i..(n + 1) : ~Other(k)}
  BY DEF Counting
<1> HIDE DEF P, Other
<1>2. CASE Other(n + 1)
  <2>1. \A i \in 1..(n + 1) : n + 1 \in i..(n + 1)
    OBVIOUS
  <2>2. Counting(rules, n + 1, c) = {}
    BY <1>1, <1>2, <2>1
  <2> QED
    BY <1>2, <2>2 DEF Other
<1>3. CASE ~Other(n + 1)
  <2>1. \A i \in 1..n : (\A k \in i..(n + 1) : ~Other(k)) <=> \A k \in i..n : ~Other(k)
    <3>1. \A i \in 1..n : i..(n + 1) = (i..n) \cup {n + 1}
      OBVIOUS
    <3> QED
      BY <1>3, <3>1
  <2>2. \A k \in (n + 1)..(n + 1) : ~Other(k)
    BY <1>3
  <2>3. 1..(n + 1) = (1..n) \cup {n + 1}
    OBVIOUS
  <2>4. Counting(rules, n + 1, c) = Counting(rules, n, c) \cup {i \in {n + 1} : P(i)}
    BY <1>1, <2>1, <2>2, <2>3
  <2> QED
    BY <1>3, <2>4 DEF P, Other
<1> QED
  BY <1>2, <1>3

(* The same for the fields, which script i assigns itself or does not.     *)
AssignedBy(rules, i, f) ==
    {j \in {i} : /\ f \in DOMAIN rules[j].fields
                 /\ Returns(rules, j, "user") \/ Returns(rules, j, "other")}
LEMMA AssigningStep ==
    ASSUME NEW rules, NEW n \in Nat, NEW f
    PROVE  Assigning(rules, n + 1, f) =
             IF Returns(rules, n + 1, "other") THEN AssignedBy(rules, n + 1, f)
             ELSE Assigning(rules, n, f) \cup AssignedBy(rules, n + 1, f)
<1> DEFINE P(i) == /\ f \in DOMAIN rules[i].fields
                   /\ Returns(rules, i, "user") \/ Returns(rules, i, "other")
           Other(j) == Returns(rules, j, "other")
           here == AssignedBy(rules, n + 1, f)
<1>0. here = {i \in {n + 1} : P(i)}
  BY Zenon DEF AssignedBy
<1>1. /\ Assigning(rules, n, f) = {i \in 1..n : P(i) /\ \A k \in (i + 1)..n : ~Other(k)}
      /\ Assigning(rules, n + 1, f) =
           {i \in 1..(n + 1) : P(i) /\ \A k \in (i + 1)..(n + 1) : ~Other(k)}
  BY DEF Assigning
<1> HIDE DEF P, Other
<1>2. 1..(n + 1) = (1..n) \cup {n + 1} /\ (n + 1 + 1)..(n + 1) = {}
  OBVIOUS
<1>3. CASE Other(n + 1)
  <2>1. \A i \in 1..n : n + 1 \in (i + 1)..(n + 1)
    OBVIOUS
  <2>2. Assigning(rules, n + 1, f) = here
    BY <1>0, <1>1, <1>2, <1>3, <2>1
  <2> QED
    BY <1>3, <2>2 DEF P, Other
<1>4. CASE ~Other(n + 1)
  <2>1. \A i \in 1..n : (\A k \in (i + 1)..(n + 1) : ~Other(k))
                        <=> \A k \in (i + 1)..n : ~Other(k)
    <3>1. \A i \in 1..n : (i + 1)..(n + 1) = ((i + 1)..n) \cup {n + 1}
      OBVIOUS
    <3> QED
      BY <1>4, <3>1
  <2>2. Assigning(rules, n + 1, f) = Assigning(rules, n, f) \cup here
    BY <1>0, <1>1, <1>2, <2>1
  <2> QED
    BY <1>4, <2>2 DEF P, Other
<1> QED
  BY <1>3, <1>4

(* What the first n scripts made of a new user: the claims that its map    *)
(* holds are those that count, its fields are the row's where no script    *)
(* counts, and it is shared once it was handed back.                       *)
FieldNames == {"email", "name", "nickname"}
Explains(claims, rules, n, c) ==
    /\ Counting(rules, n, c) = {} => c \notin DOMAIN claims
    /\ Counting(rules, n, c) # {} =>
         /\ c \in DOMAIN claims
         /\ \E m \in Counting(rules, n, c) :
              /\ \A j \in Counting(rules, n, c) : j <= m
              /\ claims[c] = rules[m].set[c]
Leaves(fields, row, rules, n, f) ==
    /\ Assigning(rules, n, f) = {} =>
         fields[f] = IF \E k \in 1..n : Returns(rules, k, "other") THEN Blank ELSE row[f]
    /\ Assigning(rules, n, f) # {} =>
         \E m \in Assigning(rules, n, f) :
             /\ \A j \in Assigning(rules, n, f) : j <= m
             /\ fields[f] = rules[m].fields[f]
Explained(user, row, rules, n) ==
    /\ \E fields, shared, claims :
         /\ user = [fields |-> fields, shared |-> shared, claims |-> claims]
         /\ fields = [f \in FieldNames |-> fields[f]]
    /\ user.shared = HandedBack(rules, n)
    /\ \A c : Explains(user.claims, rules, n, c)
    /\ \A f \in FieldNames : Leaves(user.fields, row, rules, n, f)

(* One more script, for a field: handed back with the user it is merged    *)
(* into the fields, in another object into empty ones.                     *)
LEMMA ScriptAssigns ==
    ASSUME NEW rules, NEW n \in Nat, NEW fields, NEW row, NEW f \in FieldNames,
           Leaves(fields, row, rules, n, f), DOMAIN fields = FieldNames
    PROVE  /\ Returns(rules, n + 1, "user") /\ ~Returns(rules, n + 1, "other") =>
                Leaves(Merge(fields, rules[n + 1].fields), row, rules, n + 1, f)
           /\ Returns(rules, n + 1, "other") =>
                Leaves(Merge(NoFields, rules[n + 1].fields), row, rules, n + 1, f)
           /\ ~Returns(rules, n + 1, "user") /\ ~Returns(rules, n + 1, "other") =>
                Leaves(fields, row, rules, n + 1, f)
<1> DEFINE before == Assigning(rules, n, f)
           since == Assigning(rules, n + 1, f)
           set == rules[n + 1].fields
           user == Returns(rules, n + 1, "user")
           other == Returns(rules, n + 1, "other")
           Dropped(k) == \E j \in 1..k : Returns(rules, j, "other")
           here == AssignedBy(rules, n + 1, f)
<1>1. since = IF other THEN here ELSE before \cup here
  BY AssigningStep
<1>2. here = IF f \in DOMAIN set /\ (user \/ other) THEN {n + 1} ELSE {}
  BY DEF AssignedBy
<1>3. before \subseteq 1..n
  BY DEF Assigning
<1>4. Dropped(n + 1) <=> Dropped(n) \/ other
  <2>1. 1..(n + 1) = (1..n) \cup {n + 1}
    OBVIOUS
  <2> QED
    BY <2>1
<1>5. /\ before = {} => fields[f] = IF Dropped(n) THEN Blank ELSE row[f]
      /\ before # {} => \E m \in before : /\ \A j \in before : j <= m
                                          /\ fields[f] = rules[m].fields[f]
  BY DEF Leaves
<1>6. /\ Merge(fields, set)[f] = IF f \in DOMAIN set THEN set[f] ELSE fields[f]
      /\ Merge(NoFields, set)[f] = IF f \in DOMAIN set THEN set[f] ELSE Blank
  BY DEF Merge, NoFields, FieldNames
<1> DEFINE Left(x) ==
             /\ since = {} => x = IF Dropped(n + 1) THEN Blank ELSE row[f]
             /\ since # {} => \E m \in since : /\ \A j \in since : j <= m
                                              /\ x = rules[m].fields[f]
<1>7. \A g : Left(g[f]) => Leaves(g, row, rules, n + 1, f)
  BY Zenon DEF Leaves
<1>8. set[f] = rules[n + 1].fields[f]
  OBVIOUS
<1> HIDE DEF before, since, here, Dropped, user, other, set
<1>9. CASE f \in DOMAIN set /\ (user \/ other)
  <2>1. n + 1 \in since /\ \A j \in since : j <= n + 1
    BY <1>1, <1>2, <1>3, <1>9
  <2>2. Left(set[f])
    BY <1>8, <2>1
  <2>3. /\ user /\ ~other => Left(Merge(fields, set)[f])
        /\ other => Left(Merge(NoFields, set)[f])
    BY <1>6, <1>9, <2>2, Zenon
  <2> HIDE DEF Left
  <2> QED
    BY <1>7, <1>9, <2>3, Zenon DEF user, other, set
<1>10. CASE ~(f \in DOMAIN set /\ (user \/ other))
  <2>1. since = IF other THEN {} ELSE before
    BY <1>1, <1>2, <1>10
  <2>2. ~other => Left(fields[f])
    BY <1>4, <1>5, <2>1
  <2>3. other => Left(Blank)
    BY <1>4, <2>1
  <2>4. /\ user /\ ~other => Left(Merge(fields, set)[f])
        /\ other => Left(Merge(NoFields, set)[f])
    <3>1. user /\ ~other => Merge(fields, set)[f] = fields[f]
      BY <1>6, <1>10, Zenon
    <3>2. other => Merge(NoFields, set)[f] = Blank
      BY <1>6, <1>10, Zenon
    <3> HIDE DEF Left
    <3> QED
      BY <2>2, <2>3, <3>1, <3>2, Zenon
  <2> HIDE DEF Left
  <2> QED
    BY <1>7, <2>2, <2>4, Zenon DEF user, other, set
<1> QED
  BY <1>9, <1>10

(* A script that counts adds its claims, one that does not changes nothing.*)
LEMMA ScriptCounts ==
    ASSUME NEW rules, NEW n \in Nat, NEW claims, NEW c,
           Explains(claims, rules, n, c), ~Returns(rules, n + 1, "other")
    PROVE  /\ Reached(rules, n + 1) /\ HandedBack(rules, n + 1) =>
                Explains(mergeClaims(claims, rules[n + 1].set), rules, n + 1, c)
           /\ ~(Reached(rules, n + 1) /\ HandedBack(rules, n + 1)) =>
                Explains(claims, rules, n + 1, c)
<1> DEFINE before == Counting(rules, n, c)
           since == Counting(rules, n + 1, c)
           add == mergeClaims(claims, rules[n + 1].set)
           Counts == Reached(rules, n + 1) /\ HandedBack(rules, n + 1)
           here == {i \in {n + 1} : /\ c \in DOMAIN rules[i].set
                                    /\ Reached(rules, i) /\ HandedBack(rules, i)}
<1>0. since = before \cup here
  BY CountingStep, ZenonT(30)
<1>1. /\ c \in DOMAIN rules[n + 1].set /\ Counts => since = before \cup {n + 1}
      /\ ~(c \in DOMAIN rules[n + 1].set /\ Counts) => since = before
  <2>1. /\ c \in DOMAIN rules[n + 1].set /\ Counts => here = {n + 1}
        /\ ~(c \in DOMAIN rules[n + 1].set /\ Counts) => here = {}
    OBVIOUS
  <2> HIDE DEF here, before, since
  <2> QED
    BY <1>0, <2>1
<1>2. before \subseteq 1..n
  BY DEF Counting
<1>3. /\ DOMAIN add = DOMAIN claims \cup DOMAIN rules[n + 1].set
      /\ c \in DOMAIN rules[n + 1].set => add[c] = rules[n + 1].set[c]
      /\ c \in DOMAIN claims \ DOMAIN rules[n + 1].set => add[c] = claims[c]
  BY DEF mergeClaims
<1>4. /\ before = {} => c \notin DOMAIN claims
      /\ before # {} => /\ c \in DOMAIN claims
                      /\ \E m \in before : /\ \A j \in before : j <= m
                                         /\ claims[c] = rules[m].set[c]
  BY DEF Explains
<1> HIDE DEF before, since, add
<1>5. ASSUME Counts
      PROVE  /\ since = {} => c \notin DOMAIN add
             /\ since # {} => /\ c \in DOMAIN add
                             /\ \E m \in since : /\ \A j \in since : j <= m
                                                /\ add[c] = rules[m].set[c]
  <2>1. CASE c \in DOMAIN rules[n + 1].set
    <3>1. since = before \cup {n + 1}
      BY <1>1, <1>5, <2>1
    <3>2. \A j \in since : j <= n + 1
      BY <1>2, <3>1
    <3> QED
      BY <1>3, <2>1, <3>1, <3>2
  <2>2. CASE c \notin DOMAIN rules[n + 1].set
    BY <1>1, <1>3, <1>4, <2>2
  <2> QED
    BY <2>1, <2>2
<1>6. ASSUME ~Counts
      PROVE  /\ since = {} => c \notin DOMAIN claims
             /\ since # {} => /\ c \in DOMAIN claims
                             /\ \E m \in since : /\ \A j \in since : j <= m
                                                /\ claims[c] = rules[m].set[c]
  BY <1>1, <1>4, <1>6
<1> QED
  BY <1>5, <1>6 DEF before, since, add, Explains

(* runRule and Run's early return, one script further.                     *)
LEMMA RuleExplained ==
    ASSUME NEW rules, NEW n \in Nat, NEW user, NEW row, Explained(user, row, rules, n),
           rules[n + 1].throws \in BOOLEAN,
           rules[n + 1].back \in {"user", "other", "none"}
    PROVE  Explained(IF Reached(rules, n + 1) THEN runRule(user, rules[n + 1])
                     ELSE user, row, rules, n + 1)
<1> DEFINE rule == rules[n + 1]
           add == mergeClaims(user.claims, rule.set)
           merged == Merge(user.fields, rule.fields)
           fresh == Merge(NoFields, rule.fields)
<1>0. PICK fields, shared, claims :
        /\ user = [fields |-> fields, shared |-> shared, claims |-> claims]
        /\ fields = [f \in FieldNames |-> fields[f]]
  BY DEF Explained
<1>1. /\ shared = HandedBack(rules, n) /\ user.claims = claims /\ user.fields = fields
      /\ \A c : Explains(claims, rules, n, c)
      /\ \A f \in FieldNames : Leaves(fields, row, rules, n, f)
      /\ DOMAIN fields = FieldNames
  BY <1>0 DEF Explained
<1>2. HandedBack(rules, n) \in BOOLEAN /\ HandedBack(rules, n + 1) \in BOOLEAN
  BY DEF HandedBack
<1>3. \A b : Returns(rules, n + 1, b) <=> Reached(rules, n + 1) /\ ~rule.throws /\ rule.back = b
  BY DEF Returns
<1>4. ASSUME NEW g, NEW s, NEW k, s = HandedBack(rules, n + 1),
             g = [f \in FieldNames |-> g[f]],
             \A c : Explains(k, rules, n + 1, c),
             \A f \in FieldNames : Leaves(g, row, rules, n + 1, f)
      PROVE  Explained([fields |-> g, shared |-> s, claims |-> k], row, rules, n + 1)
  <2> DEFINE x == [fields |-> g, shared |-> s, claims |-> k]
  <2>1. x.fields = g /\ x.shared = s /\ x.claims = k
    OBVIOUS
  <2>2. \E a, b, d : /\ x = [fields |-> a, shared |-> b, claims |-> d]
                     /\ a = [f \in FieldNames |-> a[f]]
    <3>1. x = [fields |-> g, shared |-> s, claims |-> k]
      OBVIOUS
    <3> HIDE DEF x
    <3> QED
      BY <1>4, <3>1
  <2> HIDE DEF x
  <2>3. Explained(x, row, rules, n + 1)
    BY <1>4, <2>1, <2>2 DEF Explained
  <2> QED
    BY <2>3 DEF x
<1>m. /\ merged = [f \in FieldNames |-> merged[f]]
      /\ fresh = [f \in FieldNames |-> fresh[f]]
  BY <1>1 DEF Merge, NoFields, FieldNames
<1> HIDE DEF add, merged, fresh
<1>5. CASE ~Reached(rules, n + 1)
  <2>1. ~Returns(rules, n + 1, "other") /\ ~Returns(rules, n + 1, "user")
    BY <1>3, <1>5
  <2>2. HandedBack(rules, n + 1) = HandedBack(rules, n)
    BY <1>2, <2>1, HandedBackStep
  <2>3. /\ \A c : Explains(claims, rules, n + 1, c)
        /\ \A f \in FieldNames : Leaves(fields, row, rules, n + 1, f)
    BY <1>1, <1>5, <2>1, ScriptCounts, ScriptAssigns
  <2>4. Explained(user, row, rules, n + 1)
    BY <1>0, <1>1, <1>4, <2>2, <2>3
  <2> QED
    BY <1>5, <2>4
<1>6. CASE Reached(rules, n + 1) /\ (rule.throws \/ rule.back = "none")
  <2>1. ~Returns(rules, n + 1, "other") /\ ~Returns(rules, n + 1, "user")
    BY <1>3, <1>6
  <2>2. HandedBack(rules, n + 1) = HandedBack(rules, n)
    BY <1>2, <2>1, HandedBackStep
  <2> DEFINE k == IF shared THEN add ELSE claims
  <2>3. \A c : Explains(k, rules, n + 1, c)
    BY <1>1, <1>2, <1>6, <2>1, <2>2, ScriptCounts DEF add
  <2>4. \A f \in FieldNames : Leaves(fields, row, rules, n + 1, f)
    BY <1>1, <2>1, ScriptAssigns
  <2>5. runRule(user, rule) = [user EXCEPT !.claims = k]
    BY <1>0, <1>6 DEF runRule, add
  <2> HIDE DEF k
  <2>6. runRule(user, rule) = [fields |-> fields, shared |-> shared, claims |-> k]
    BY <1>0, <2>5
  <2> QED
    BY <1>0, <1>1, <1>4, <1>6, <2>2, <2>3, <2>4, <2>6
<1>7. CASE Reached(rules, n + 1) /\ ~rule.throws /\ rule.back = "user"
  <2>1. ~Returns(rules, n + 1, "other") /\ Returns(rules, n + 1, "user")
    BY <1>3, <1>7
  <2>2. HandedBack(rules, n + 1) = TRUE
    BY <1>2, <2>1, HandedBackStep
  <2>3. \A c : Explains(add, rules, n + 1, c)
    BY <1>1, <1>7, <2>1, <2>2, ScriptCounts DEF add
  <2>4. \A f \in FieldNames : Leaves(merged, row, rules, n + 1, f)
    BY <1>1, <2>1, ScriptAssigns DEF merged
  <2>5. runRule(user, rule) = [fields |-> merged, shared |-> TRUE, claims |-> add]
    BY <1>7 DEF runRule, add, merged
  <2> QED
    BY <1>4, <1>7, <1>m, <2>2, <2>3, <2>4, <2>5
<1>8. CASE Reached(rules, n + 1) /\ ~rule.throws /\ rule.back = "other"
  <2>1. Returns(rules, n + 1, "other")
    BY <1>3, <1>8
  <2>2. HandedBack(rules, n + 1) = FALSE
    BY <1>2, <2>1, HandedBackStep
  <2>3. \A c : Explains(<< >>, rules, n + 1, c)
    <3>1. \A c : Counting(rules, n + 1, c) = {}
      BY <2>1, CountingStep
    <3>2. DOMAIN << >> = {}
      OBVIOUS
    <3> QED
      BY <3>1, <3>2 DEF Explains
  <2>4. \A f \in FieldNames : Leaves(fresh, row, rules, n + 1, f)
    BY <1>1, <2>1, ScriptAssigns DEF fresh
  <2>5. runRule(user, rule) = [fields |-> fresh, shared |-> FALSE, claims |-> << >>]
    BY <1>8 DEF runRule, NewUser, fresh
  <2> QED
    BY <1>4, <1>8, <1>m, <2>2, <2>3, <2>4, <2>5
<1> QED
  BY <1>5, <1>6, <1>7, <1>8

(* A new user is the row, with no claims.                                  *)
LEMMA NewExplained ==
    ASSUME NEW row, row = [f \in FieldNames |-> row[f]], NEW rules
    PROVE  Explained(NewUser(row), row, rules, 0)
<1>1. HandedBack(rules, 0) = FALSE /\ \A c : Counting(rules, 0, c) = {}
  BY DEF HandedBack, Counting
<1>2. \A f : Assigning(rules, 0, f) = {} /\ ~\E k \in 1..0 : Returns(rules, k, "other")
  BY DEF Assigning
<1>3. \A c : Explains(<< >>, rules, 0, c)
  <2>1. DOMAIN << >> = {}
    OBVIOUS
  <2> QED
    BY <1>1, <2>1 DEF Explains
<1>4. \A f \in FieldNames : Leaves(row, row, rules, 0, f)
  BY <1>2, Zenon DEF Leaves
<1> DEFINE x == [fields |-> row, shared |-> FALSE, claims |-> << >>]
<1>5. x.fields = row /\ x.shared = FALSE /\ x.claims = << >>
  OBVIOUS
<1>6. \E a, b, d : /\ x = [fields |-> a, shared |-> b, claims |-> d]
                   /\ a = [f \in FieldNames |-> a[f]]
  <2>1. x = [fields |-> row, shared |-> FALSE, claims |-> << >>]
    OBVIOUS
  <2> HIDE DEF x
  <2> QED
    BY <2>1
<1> HIDE DEF x
<1>7. Explained(x, row, rules, 0)
  BY <1>1, <1>3, <1>4, <1>5, <1>6 DEF Explained
<1> QED
  BY <1>7 DEF x, NewUser

(* The claims and fields that a run of the rules leaves in a new user are  *)
(* exactly those that count, each with the value of the last script that   *)
(* counts.                                                                 *)
LEMMA RunExplained ==
    ASSUME NEW row, row = [f \in FieldNames |-> row[f]], NEW rules \in RuleFiles
    PROVE  Explained(Run(NewUser(row), rules), row, rules, Len(rules))
<1> DEFINE n == Len(rules)
<1>1. /\ n \in Nat
      /\ \A i \in 1..n : /\ rules[i].throws \in BOOLEAN
                         /\ rules[i].back \in {"user", "other", "none"}
  <2> DEFINE sets == {r.set : r \in Range(rules)}
             assigned == {r.fields : r \in Range(rules)}
             R == [set : sets, fields : assigned, throws : BOOLEAN,
                   back : {"user", "other", "none"}]
  <2>1. rules \in Seq(R)
    BY RulesAssumption
  <2> HIDE DEF sets, assigned
  <2>2. \A r \in R : r.throws \in BOOLEAN /\ r.back \in {"user", "other", "none"}
    OBVIOUS
  <2> HIDE DEF R
  <2>3. n \in Nat /\ \A i \in 1..n : rules[i] \in R
    BY <2>1
  <2> QED
    BY <2>2, <2>3
<1>2. PICK f : /\ f[0] = NewUser(row) /\ Run(NewUser(row), rules) = f[n]
               /\ \A i \in 1..n : f[i] = IF Reached(rules, i)
                                         THEN runRule(f[i - 1], rules[i]) ELSE f[i - 1]
  BY <1>1, RunSteps
<1> DEFINE S == {i \in 0..n : Explained(f[i], row, rules, i)}
<1> HIDE DEF n
<1>3. 0 \in S
  BY <1>1, <1>2, NewExplained
<1>4. ASSUME NEW i \in 0..n, i \in S, i < n PROVE i + 1 \in S
  <2>1. i \in Nat /\ i + 1 \in 1..n /\ i + 1 \in 0..n /\ (i + 1) - 1 = i
    BY <1>1, <1>4
  <2>2. f[i + 1] = IF Reached(rules, i + 1) THEN runRule(f[i], rules[i + 1]) ELSE f[i]
    BY <1>2, <2>1
  <2>3. Explained(f[i + 1], row, rules, i + 1)
    BY <1>1, <1>4, <2>1, <2>2, RuleExplained
  <2> QED
    BY <2>1, <2>3
<1>5. n \in S
  <2> HIDE DEF S
  <2> QED
    BY <1>1, <1>3, <1>4, Induction
<1> QED
  BY <1>2, <1>5 DEF n

(* Max of FiniteSetsExt is the greatest element.                           *)
LEMMA MaxIs ==
    ASSUME NEW S, S \subseteq Int, NEW m \in S, \A j \in S : j <= m
    PROVE  Max(S) = m
<1>1. \A j \in S : m >= j
  OBVIOUS
<1>2. Max(S) \in S /\ \A j \in S : Max(S) >= j
  BY <1>1, Zenon DEF Max
<1>3. \A x \in S : (\A j \in S : x >= j) => x = m
  OBVIOUS
<1> QED
  BY <1>2, <1>3, Zenon

(* The user's fields that the property speaks of are those the rules left, *)
(* and so is the name.                                                     *)
LEMMA FinalIs ==
    ASSUME NEW tok, NEW user, Explained(user, tok.row, tok.rules, Len(tok.rules)),
           Len(tok.rules) \in Nat, DOMAIN tok.row = FieldNames
    PROVE  /\ \A f \in FieldNames : Final(tok, f) = user.fields[f]
           /\ tok.kind # "renewed" => FinalName(tok) = ShownName(user.fields)
<1> DEFINE n == Len(tok.rules)
           By(f) == Assigning(tok.rules, n, f)
           fields == user.fields
<1>1. ASSUME NEW f \in FieldNames PROVE Final(tok, f) = fields[f]
  <2>1. Leaves(fields, tok.row, tok.rules, n, f)
    BY DEF Explained
  <2>2. CASE By(f) = {}
    BY <2>1, <2>2, Zenon DEF Leaves, Final
  <2>3. CASE By(f) # {}
    <3>1. PICK m \in By(f) : /\ \A j \in By(f) : j <= m
                             /\ fields[f] = tok.rules[m].fields[f]
      BY <2>1, <2>3, Zenon DEF Leaves
    <3>2. By(f) \subseteq Int
      BY DEF Assigning
    <3>3. Max(By(f)) = m
      <4> HIDE DEF By
      <4> QED
        BY <3>1, <3>2, MaxIs
    <3> QED
      BY <2>3, <3>1, <3>3, Zenon DEF Final
  <2> QED
    BY <2>2, <2>3
<1>2. [f \in DOMAIN tok.row |-> Final(tok, f)] = fields
  <2>1. PICK a : a = fields /\ a = [f \in FieldNames |-> a[f]]
    BY DEF Explained
  <2> HIDE DEF fields
  <2>2. fields = [f \in FieldNames |-> fields[f]]
    BY <2>1
  <2>3. [f \in FieldNames |-> Final(tok, f)] = [f \in FieldNames |-> fields[f]]
    BY <1>1
  <2> QED
    BY <2>2, <2>3
<1>3. tok.kind # "renewed" => FinalName(tok) = ShownName(fields)
  BY <1>2, Zenon DEF FinalName
<1> QED
  BY <1>1, <1>3

(* IssueIDToken's last claims, as the property expects them of tok.        *)
LastClaims(tok, last) ==
    /\ \A c : c \in DOMAIN last <=> IssuerSets(tok, c)
    /\ \A c \in DOMAIN last :
         /\ c = "email" => last[c] = Final(tok, "email")
         /\ c = "email_verified" => last[c] = TRUE
         /\ c \in {"name", "nickname"} => last[c] = FinalName(tok)
         /\ c = "given_name" => last[c] = Words(FinalName(tok))[1]
         /\ c = "family_name" => last[c] = Words(FinalName(tok))[2]

(* Whatever the issuer's last claims, a token that carries them over those *)
(* of the scripts that count, over the issuer's first, is explained.       *)
LEMMA SignedFollows ==
    ASSUME NEW sub, NEW claims, NEW custom, NEW last, NEW tok, tok.at = now,
           \A c : Explains(claims, tok.rules, Len(tok.rules), c),
           custom = IF tok.kind = "access" THEN mergeClaims(claims, ExtraClaims)
                    ELSE claims,
           tok.claims = mergeClaims(Issue(sub, custom), last),
           LastClaims(tok, last)
    PROVE  ClaimsFollow(tok)
<1> DEFINE first == [sub |-> sub, iss |-> "url/", exp |-> now + Lifetime]
           most == mergeClaims(first, custom)
           kind == tok.kind
           rules == tok.rules
           all == tok.claims
<1>1. /\ DOMAIN first = {"sub", "iss", "exp"}
      /\ first["iss"] = "url/" /\ first["exp"] = now + Lifetime
  OBVIOUS
<1>2. all = mergeClaims(most, last)
  BY DEF Issue
<1> HIDE DEF first
<1>m. /\ DOMAIN most = DOMAIN first \cup DOMAIN custom
      /\ \A c \in DOMAIN custom : most[c] = custom[c]
      /\ \A c \in DOMAIN first \ DOMAIN custom : most[c] = first[c]
  BY DEF mergeClaims
<1> HIDE DEF most
<1>3. /\ DOMAIN all = DOMAIN first \cup DOMAIN custom \cup DOMAIN last
      /\ \A c \in DOMAIN last : all[c] = last[c]
      /\ \A c \in DOMAIN custom \ DOMAIN last : all[c] = custom[c]
      /\ \A c \in (DOMAIN first \ DOMAIN custom) \ DOMAIN last : all[c] = first[c]
  <2>1. /\ DOMAIN all = DOMAIN most \cup DOMAIN last
        /\ \A c \in DOMAIN last : all[c] = last[c]
        /\ \A c \in DOMAIN most \ DOMAIN last : all[c] = most[c]
    <3> DEFINE x == all
    <3>1. x = mergeClaims(most, last)
      BY <1>2
    <3> HIDE DEF x
    <3>2. /\ DOMAIN x = DOMAIN most \cup DOMAIN last
          /\ \A c \in DOMAIN last : x[c] = last[c]
          /\ \A c \in DOMAIN most \ DOMAIN last : x[c] = most[c]
      BY <3>1 DEF mergeClaims
    <3> QED
      BY <3>2 DEF x
  <2> QED
    BY <1>m, <2>1
<1> DEFINE Set(c) ==
             /\ c \in DOMAIN all
             /\ c = "email" => all[c] = Final(tok, "email")
             /\ c = "email_verified" => all[c] = TRUE
             /\ c \in {"name", "nickname"} => all[c] = FinalName(tok)
             /\ c = "given_name" => all[c] = Words(FinalName(tok))[1]
             /\ c = "family_name" => all[c] = Words(FinalName(tok))[2]
           Rest(c) ==
             LET by == Counting(rules, Len(rules), c)
             IN  IF kind = "access" /\ c \in DOMAIN ExtraClaims
                 THEN c \in DOMAIN all /\ all[c] = ExtraClaims[c]
                 ELSE IF by # {}
                 THEN c \in DOMAIN all /\ all[c] = rules[Max(by)].set[c]
                 ELSE /\ c = "iss" => all[c] = "url/"
                      /\ c = "exp" => all[c] = tok.at + Lifetime
                      /\ c \in DOMAIN all => c \in {"sub", "iss", "exp"}
<1>4. ASSUME NEW c, c \in DOMAIN last PROVE Set(c)
  <2>1. all[c] = last[c] /\ c \in DOMAIN all
    BY <1>3, <1>4
  <2>2. /\ c = "email" => last[c] = Final(tok, "email")
        /\ c = "email_verified" => last[c] = TRUE
        /\ c \in {"name", "nickname"} => last[c] = FinalName(tok)
        /\ c = "given_name" => last[c] = Words(FinalName(tok))[1]
        /\ c = "family_name" => last[c] = Words(FinalName(tok))[2]
    BY <1>4, Zenon DEF LastClaims
  <2> HIDE DEF all
  <2> QED
    BY <2>1, <2>2, Zenon
<1>5. ASSUME NEW c, c \notin DOMAIN last PROVE Rest(c)
  <2> DEFINE by == Counting(rules, Len(rules), c)
             extra == kind = "access" /\ c \in DOMAIN ExtraClaims
  <2>1. CASE extra
    <3>1. c \in DOMAIN custom /\ custom[c] = ExtraClaims[c]
      BY <2>1 DEF mergeClaims
    <3> QED
      BY <1>3, <1>5, <2>1, <3>1
  <2>2. CASE ~extra
    <3>1. /\ c \in DOMAIN custom <=> c \in DOMAIN claims
          /\ c \in DOMAIN claims => custom[c] = claims[c]
      BY <2>2 DEF mergeClaims
    <3>2. CASE by # {}
      <4>1. /\ c \in DOMAIN claims
            /\ \E m \in by : (\A j \in by : j <= m) /\ claims[c] = rules[m].set[c]
        BY <3>2, Zenon DEF Explains
      <4>2. by \subseteq Int
        BY DEF Counting
      <4> HIDE DEF by
      <4>3. claims[c] = rules[Max(by)].set[c]
        BY <4>1, <4>2, MaxIs, Zenon
      <4>4. c \in DOMAIN all /\ all[c] = rules[Max(by)].set[c]
        BY <1>3, <1>5, <3>1, <4>1, <4>3
      <4> QED
        BY <2>2, <3>2, <4>4, Zenon DEF by
    <3>3. CASE by = {}
      <4>1. c \notin DOMAIN custom
        BY <3>1, <3>3 DEF Explains
      <4>2. /\ c = "iss" => all[c] = "url/"
            /\ c = "exp" => all[c] = tok.at + Lifetime
            /\ c \in DOMAIN all => c \in {"sub", "iss", "exp"}
        BY <1>1, <1>3, <1>5, <4>1
      <4> QED
        BY <2>2, <3>3, <4>2, Zenon
    <3> QED
      BY <3>2, <3>3
  <2> QED
    BY <2>1, <2>2
<1>6. ASSUME NEW c PROVE IF IssuerSets(tok, c) THEN Set(c) ELSE Rest(c)
  <2>1. c \in DOMAIN last <=> IssuerSets(tok, c)
    BY Zenon DEF LastClaims
  <2> HIDE DEF Set, Rest
  <2> QED
    BY <1>4, <1>5, <2>1
<1> QED
  BY <1>6, Zenon DEF ClaimsFollow

(* IssueIDToken's last claims are those that the property expects.         *)
LEMMA ProfileExpected ==
    ASSUME NEW tok, tok.kind \in {"id", "renewed"}, NEW last,
           last = ProfileClaims(tok.scope, Final(tok, "email"), FinalName(tok))
    PROVE  LastClaims(tok, last)
<1> DEFINE email == Final(tok, "email")
           name == FinalName(tok)
           Long == Len(Words(name)) > 1
           Said(c) == \/ /\ c \in {"email", "email_verified"}
                         /\ "email" \in tok.scope /\ email # Blank
                      \/ /\ c \in {"name", "nickname", "given_name", "family_name"}
                         /\ "profile" \in tok.scope /\ name # Blank
                         /\ c = "family_name" => Long
<1>1. \A c : IssuerSets(tok, c) <=> Said(c)
  BY Zenon DEF IssuerSets
<1> HIDE DEF email, name, Long
<1>2. last = ProfileClaims(tok.scope, email, name)
  BY DEF email, name
<1>3. \A c : c \in DOMAIN last <=> Said(c)
  BY <1>2 DEF ProfileClaims, Long
<1>4. ASSUME NEW c \in DOMAIN last
      PROVE  /\ c = "email" => last[c] = email
             /\ c = "email_verified" => last[c] = TRUE
             /\ c \in {"name", "nickname"} => last[c] = name
             /\ c = "given_name" => last[c] = Words(name)[1]
             /\ c = "family_name" => last[c] = Words(name)[2]
  BY <1>2, <1>4 DEF ProfileClaims
<1> HIDE DEF Said
<1>5. \A c : c \in DOMAIN last <=> IssuerSets(tok, c)
  BY <1>1, <1>3
<1> QED
  BY <1>4, <1>5, Zenon DEF email, name, LastClaims

(* What Validate looks at in a token that neither the rules nor the        *)
(* environment touched there.                                              *)
LEMMA StandardClaims ==
    ASSUME NEW tok, ClaimsFollow(tok), Standard(tok),
           DOMAIN tok.rules = 1..Len(tok.rules)
    PROVE  /\ tok.claims.exp = tok.at + Lifetime /\ tok.claims.iss = "url/"
           /\ "nbf" \notin DOMAIN tok.claims
<1>1. ASSUME NEW c \in {"iss", "exp", "nbf"}
      PROVE  /\ ~(tok.kind = "access" /\ c \in DOMAIN ExtraClaims)
             /\ Counting(tok.rules, Len(tok.rules), c) = {}
             /\ ~IssuerSets(tok, c)
  <2>1. ~IssuerSets(tok, c)
    BY DEF IssuerSets
  <2> QED
    BY <1>1, <2>1 DEF Standard, Counting
<1>2. /\ tok.claims["iss"] = "url/"
      /\ tok.claims["exp"] = tok.at + Lifetime
  BY <1>1, Zenon DEF ClaimsFollow
<1>3. "nbf" \notin DOMAIN tok.claims
  <2>1. "nbf" \in DOMAIN tok.claims => "nbf" \in {"sub", "iss", "exp"}
    BY <1>1, Zenon DEF ClaimsFollow
  <2> QED
    BY <2>1
<1> QED
  BY <1>2, <1>3

-----------------------------------------------------------------------------
(* Every life of the process has a key of its own, on every token it       *)
(* signed, and the claims of a token are those its rules left.             *)
TokenInPlace(tok) ==
    /\ tok.key = tok.run + 1 /\ tok.run \in Nat /\ tok.at \in Nat
    /\ DOMAIN tok.rules = 1..Len(tok.rules)
    /\ ClaimsFollow(tok)
TokensInPlace ==
    /\ now \in Nat /\ key = crashes + 1
    /\ \A tok \in issued : TokenInPlace(tok)

ProbeFields == {"pc", "token", "answer", "email", "failed", "own", "young",
                "revoked", "after"}
ProbeShape ==
    /\ probe = [v \in Probes |-> probe[v]]
    /\ \A v \in Probes : probe[v] = [f \in ProbeFields |-> probe[v][f]]

(* A request that was let in presented a token of this process, and one    *)
(* that presented a standard token was let in exactly in the token's life, *)
(* if it only introspects or the token names a subject.                    *)
LetIn(p) ==
    /\ p.pc = "idle" => p.token = NoToken
    /\ p.pc = "select" => p.answer = "none" /\ p.token.claims.sub # Blank
    /\ Accepted(p) => p.own = TRUE
    /\ p.token # NoToken /\ Standard(p.token) =>
         (Accepted(p) <=> /\ p.own = TRUE /\ p.young = TRUE
                          /\ \/ p.answer \in {"active", "inactive"}
                             \/ p.token.claims.sub # Blank)

(* The PATCHes that a profile must show are the user's, and answered (the  *)
(* requests being h).                                                      *)
AfterAnswers(h, p) ==
    \A t \in p.after : /\ t \in Threads /\ h[t].answer = "ok"
                       /\ h[t].req.table = "users"
                       /\ h[t].req.id = p.token.claims.sub
                       /\ "email" \in DOMAIN h[t].req.set

(* Another request deletes the user sub or sets the user's email.          *)
Excused(h, t, sub) ==
    \E o \in Threads \ {t} :
        /\ h[o].req # NoRequest
        /\ \/ h[o].req.op = "delete_user"
           \/ /\ h[o].req.op = "patch" /\ h[o].req.table = "users"
              /\ "email" \in DOMAIN h[o].req.set
        /\ h[o].req.id = sub
Follows(h, p) ==
    p.answer = "profile" /\ p.failed = FALSE =>
        \A t \in p.after : \/ p.email = h[t].req.set.email
                           \/ Excused(h, t, p.token.claims.sub)

ProbeInPlace(h, p) ==
    /\ LetIn(p) /\ AfterAnswers(h, p) /\ Follows(h, p)
    /\ p.failed \in BOOLEAN /\ p.own \in BOOLEAN /\ p.young \in BOOLEAN

TVInv ==
    /\ MRInv
    /\ TokensInPlace
    /\ ProbeShape
    /\ \A v \in Probes : ProbeInPlace(th, probe[v])

-----------------------------------------------------------------------------
(* An answer stays, a request stays the same once it has come, and the     *)
(* process that serves is the same until it crashes.                       *)
LEMMA AnswersStay ==
    ASSUME MRInv, [MANext]_maVars
    PROVE  /\ \A t \in Threads : th[t].answer = "ok" => th'[t] = th[t]
           /\ \A t \in Threads : th[t].req # NoRequest => th'[t].req = th[t].req
<1>0. RequestsKnown /\ ThreadShape
  BY DEF MRInv, MAInv
<1>1. \A t \in Threads : /\ th[t].answer = "ok" => th[t].pc = "done"
                         /\ th[t].pc = "idle" => th[t].req = NoRequest
  BY <1>0 DEF RequestsKnown, RequestKnown
<1> DEFINE Goal == /\ \A t \in Threads : th[t].answer = "ok" => th'[t] = th[t]
                   /\ \A t \in Threads : th[t].req # NoRequest => th'[t].req = th[t].req
<1>2. ASSUME UNCHANGED maVars PROVE Goal
  BY <1>2 DEF maVars
<1>3. ASSUME NEW t \in Threads, NEW q \in Requests, Arrive(t, q) PROVE Goal
  <2>1. th[t].pc = "idle" /\ \A o \in Threads \ {t} : th'[o] = th[o]
    BY <1>0, <1>3 DEF Arrive, At, Succeeds, ThreadShape
  <2> QED
    BY <1>1, <2>1
<1>4. ASSUME NEW t \in Threads, Step(t) PROVE Goal
  <2>1. /\ th[t].pc # "done" /\ th'[t].req = th[t].req
        /\ \A o \in Threads \ {t} : th'[o] = th[o]
    BY <1>4, StepKinds DEF StepOf, Plain, Reads, Rereads, Patches, Adds, Drops, Turns
  <2> QED
    BY <1>1, <2>1
<1>5. ASSUME StartStatement \/ SeedFails PROVE Goal
  BY <1>5 DEF StartStatement, SeedFails
<1>6. ASSUME Crash PROVE Goal
  <2>1. \A t \in Threads : /\ th[t].pc = "done" => th'[t] = th[t]
                           /\ th'[t].req = th[t].req
    BY <1>0, <1>6 DEF Crash, ThreadShape, ThreadFields
  <2> QED
    BY <1>1, <2>1
<1> QED
  BY <1>2, <1>3, <1>4, <1>5, <1>6 DEF MANext, Operate

LEMMA OperateServes ==
    ASSUME MRInv, Operate PROVE crashes' = crashes
<1>1. ASSUME NEW t \in Threads, Step(t) PROVE crashes' = crashes
  BY <1>1, StepKinds DEF StepOf, Plain, Reads, Rereads, Patches, Adds, Drops, Turns
<1> QED
  BY <1>1 DEF Operate, Arrive, Succeeds, StartStatement, SeedFails

(* What a request's answer rests on stays too.                             *)
LEMMA ProbeStays ==
    ASSUME MRInv, [MANext]_maVars, NEW p, ProbeInPlace(th, p)
    PROVE  ProbeInPlace(th', p)
<1>1. \A t \in p.after : t \in Threads /\ th'[t] = th[t]
  BY AnswersStay DEF ProbeInPlace, AfterAnswers
<1>2. AfterAnswers(th', p)
  BY <1>1 DEF ProbeInPlace, AfterAnswers
<1>3. ASSUME NEW t, NEW sub, Excused(th, t, sub) PROVE Excused(th', t, sub)
  BY <1>3, AnswersStay DEF Excused
<1>4. Follows(th', p)
  BY <1>1, <1>3 DEF ProbeInPlace, Follows
<1> QED
  BY <1>2, <1>4 DEF ProbeInPlace

-----------------------------------------------------------------------------
(* A request presents a token: it is accepted if it carries the process's  *)
(* key, which a token of another run does not.                             *)
LEMMA TokenJudged ==
    ASSUME TVInv, NEW tok \in issued, NEW answer, NEW pc,
           Validate(tok) => \/ answer = "active"
                            \/ answer = "none" /\ tok.claims.sub # Blank
                            \/ answer = "no_subject" /\ tok.claims.sub = Blank,
           ~Validate(tok) => answer \in {"inactive", "invalid_token"},
           pc = "select" => answer = "none", pc # "idle"
    PROVE  LET p == [[Presented(tok) EXCEPT !.pc = pc] EXCEPT !.answer = answer]
           IN  ProbeInPlace(th, p) /\ p = [f \in ProbeFields |-> p[f]]
<1> DEFINE p == [[Presented(tok) EXCEPT !.pc = pc] EXCEPT !.answer = answer]
           own == tok.run = crashes
           young == now < tok.at + Lifetime
           after == AnsweredPatches(tok.claims.sub)
           sent == tok \in revoked
           good == Validate(tok)
<1>1. Presented(tok) = [NewProbe EXCEPT !.token = tok, !.after = after,
                                        !.own = own, !.young = young, !.revoked = sent]
  BY DEF Presented
<1>2. own \in BOOLEAN /\ young \in BOOLEAN
  OBVIOUS
<1>3. crashes \in Nat
  BY DEF TVInv, MRInv, MATypeOK
<1>4. good => own
  BY <1>3 DEF TVInv, TokensInPlace, TokenInPlace, Validate
<1>5. Standard(tok) => (good <=> own /\ young)
  <2> SUFFICES ASSUME Standard(tok) PROVE good <=> own /\ young
    OBVIOUS
  <2>1. /\ tok.key = tok.run + 1 /\ tok.run \in Nat /\ key = crashes + 1
        /\ ClaimsFollow(tok) /\ DOMAIN tok.rules = 1..Len(tok.rules) /\ tok.at \in Nat
    BY DEF TVInv, TokensInPlace, TokenInPlace
  <2>2. /\ tok.claims.exp = tok.at + Lifetime /\ tok.claims.iss = "url/"
        /\ "nbf" \notin DOMAIN tok.claims
    BY <2>1, StandardClaims
  <2>3. InForce(tok.claims, now) <=> young
    BY <2>1, <2>2, ValidationAssumption DEF InForce
  <2> QED
    BY <1>3, <2>1, <2>2, <2>3 DEF Validate
<1>6. \A t \in after : /\ t \in Threads /\ th[t].answer = "ok"
                       /\ th[t].req.table = "users" /\ th[t].req.id = tok.claims.sub
                       /\ "email" \in DOMAIN th[t].req.set
  BY DEF AnsweredPatches
<1>7. good => \/ answer = "active"
              \/ answer = "none" /\ tok.claims.sub # Blank
              \/ answer = "no_subject" /\ tok.claims.sub = Blank
  OBVIOUS
<1>8. ~good => answer \in {"inactive", "invalid_token"}
  OBVIOUS
<1> HIDE DEF own, young, after, sent, good
<1>9. /\ p.pc = pc /\ p.token = tok /\ p.answer = answer /\ p.failed = FALSE
      /\ p.own = own /\ p.young = young /\ p.after = after
      /\ p = [f \in ProbeFields |-> p[f]]
  <2> DEFINE x == [NewProbe EXCEPT !.token = tok, !.after = after,
                                   !.own = own, !.young = young, !.revoked = sent]
  <2>1. /\ x.token = tok /\ x.failed = FALSE
        /\ x.own = own /\ x.young = young /\ x.after = after
        /\ x = [f \in ProbeFields |-> x[f]]
    BY DEF NewProbe, ProbeFields
  <2> HIDE DEF x
  <2>2. p = [[x EXCEPT !.pc = pc] EXCEPT !.answer = answer]
    BY <1>1 DEF x
  <2> QED
    BY <2>1, <2>2 DEF ProbeFields
<1> HIDE DEF p
<1>10. Accepted(p) <=> tok # NoToken /\ good /\ answer # "no_subject"
  BY <1>7, <1>8, <1>9 DEF Accepted
<1>11. LetIn(p)
  <2>1. p.pc # "idle" /\ (p.pc = "select" => p.answer = "none" /\ tok.claims.sub # Blank)
    BY <1>7, <1>8, <1>9
  <2>2. good => p.own = TRUE
    BY <1>4, <1>9
  <2>3. Standard(p.token) => (good <=> p.own = TRUE /\ p.young = TRUE)
    BY <1>2, <1>5, <1>9
  <2>4. /\ good => (answer = "no_subject" <=>
                      ~(answer \in {"active", "inactive"} \/ tok.claims.sub # Blank))
    BY <1>7
  <2> QED
    BY <1>9, <1>10, <2>1, <2>2, <2>3, <2>4 DEF LetIn
<1>12. AfterAnswers(th, p)
  BY <1>6, <1>9 DEF AfterAnswers
<1>13. Follows(th, p)
  BY <1>7, <1>8, <1>9 DEF Follows
<1>14. p.failed \in BOOLEAN /\ p.own \in BOOLEAN /\ p.young \in BOOLEAN
  BY <1>2, <1>9
<1> QED
  BY <1>9, <1>11, <1>12, <1>13, <1>14 DEF ProbeInPlace, p

LEMMA IntrospectStep ==
    ASSUME TVInv, NEW v \in Probes, NEW tok \in issued,
           Introspect(v, tok) \/ PresentToken(v, tok)
    PROVE  ProbeShape' /\ \A w \in Probes : ProbeInPlace(th', probe'[w])
<1>0. th' = th /\ ProbeShape /\ \A w \in Probes : ProbeInPlace(th, probe[w])
  BY DEF Introspect, PresentToken, maVars, TVInv
<1>1. ASSUME NEW p, probe' = [probe EXCEPT ![v] = p], ProbeInPlace(th, p),
             p = [f \in ProbeFields |-> p[f]]
      PROVE  ProbeShape' /\ \A w \in Probes : ProbeInPlace(th', probe'[w])
  <2>1. \A w \in Probes : probe'[w] = IF w = v THEN p ELSE probe[w]
    BY <1>0, <1>1 DEF ProbeShape
  <2>2. probe' = [w \in Probes |-> probe'[w]]
    BY <1>0, <1>1 DEF ProbeShape
  <2>3. \A w \in Probes : probe'[w] = [f \in ProbeFields |-> probe'[w][f]]
    BY <1>0, <1>1, <2>1 DEF ProbeShape
  <2> QED
    BY <1>0, <1>1, <2>1, <2>2, <2>3 DEF ProbeShape
<1>2. CASE Introspect(v, tok)
  <2> DEFINE answer == IF Validate(tok) THEN "active" ELSE "inactive"
             p == [[Presented(tok) EXCEPT !.pc = "done"] EXCEPT !.answer = answer]
  <2>1. probe' = [probe EXCEPT ![v] = p]
    BY <1>2 DEF Introspect
  <2>2. /\ Validate(tok) => answer = "active"
        /\ ~Validate(tok) => answer \in {"inactive", "invalid_token"}
    OBVIOUS
  <2> HIDE DEF answer
  <2>3. ProbeInPlace(th, p) /\ p = [f \in ProbeFields |-> p[f]]
    BY <2>2, TokenJudged
  <2> QED
    BY <1>1, <2>1, <2>3
<1>3. CASE PresentToken(v, tok) /\ Validate(tok) /\ tok.claims.sub # Blank
  <2> DEFINE p == [[Presented(tok) EXCEPT !.pc = "select"] EXCEPT !.answer = "none"]
  <2>1. [Presented(tok) EXCEPT !.pc = "select"] = p
    <3> DEFINE own == tok.run = crashes
               young == now < tok.at + Lifetime
               after == AnsweredPatches(tok.claims.sub)
               sent == tok \in revoked
               x == [NewProbe EXCEPT !.token = tok, !.after = after,
                                     !.own = own, !.young = young, !.revoked = sent]
    <3>1. Presented(tok) = x
      BY DEF Presented
    <3> HIDE DEF own, young, after, sent
    <3>2. x.answer = "none" /\ x = [f \in ProbeFields |-> x[f]]
      BY DEF NewProbe, ProbeFields
    <3> HIDE DEF x
    <3> QED
      BY <3>1, <3>2 DEF ProbeFields
  <2>2. probe' = [probe EXCEPT ![v] = p]
    BY <1>3, <2>1 DEF PresentToken
  <2>3. ProbeInPlace(th, p) /\ p = [f \in ProbeFields |-> p[f]]
    BY <1>3, TokenJudged
  <2> QED
    BY <1>1, <2>2, <2>3
<1>4. CASE PresentToken(v, tok) /\ Validate(tok) /\ tok.claims.sub = Blank
  <2> DEFINE p == [[Presented(tok) EXCEPT !.pc = "done"] EXCEPT !.answer = "no_subject"]
  <2>1. probe' = [probe EXCEPT ![v] = p]
    BY <1>4 DEF PresentToken
  <2>2. ProbeInPlace(th, p) /\ p = [f \in ProbeFields |-> p[f]]
    BY <1>4, TokenJudged
  <2> QED
    BY <1>1, <2>1, <2>2
<1>5. CASE PresentToken(v, tok) /\ ~Validate(tok)
  <2> DEFINE p == [[Presented(tok) EXCEPT !.pc = "done"] EXCEPT !.answer = "invalid_token"]
  <2>1. probe' = [probe EXCEPT ![v] = p]
    BY <1>5 DEF PresentToken
  <2>2. ProbeInPlace(th, p) /\ p = [f \in ProbeFields |-> p[f]]
    BY <1>5, TokenJudged
  <2> QED
    BY <1>1, <2>1, <2>2
<1> QED
  BY <1>2, <1>3, <1>4, <1>5

(* The profile: an answered PATCH stands in the row that is read, unless   *)
(* the user was deleted or the email set again.                            *)
LEMMA ProfileStep ==
    ASSUME TVInv, NEW v \in Probes, AnswerProfile(v)
    PROVE  ProbeShape' /\ \A w \in Probes : ProbeInPlace(th', probe'[w])
<1> DEFINE s == probe[v]
           sub == s.token.claims.sub
           q == probe'[v]
<1>0. /\ th' = th /\ ProbeShape /\ (\A w \in Probes : ProbeInPlace(th, probe[w]))
      /\ s.pc = "select"
  BY DEF AnswerProfile, maVars, TVInv
<1>1. PICK email, failed :
        /\ failed \in BOOLEAN
        /\ probe' = [probe EXCEPT ![v].pc = "done", ![v].answer = "profile",
                                  ![v].email = email, ![v].failed = failed]
        /\ failed = FALSE /\ sub \in DOMAIN db.users => email = db.users[sub].email
  BY DEF AnswerProfile, Profile
<1>2. s = [f \in ProbeFields |-> s[f]] /\ v \in DOMAIN probe
  BY <1>0 DEF ProbeShape
<1>3. q = [[[[s EXCEPT !.pc = "done"] EXCEPT !.answer = "profile"]
              EXCEPT !.email = email] EXCEPT !.failed = failed]
  BY <1>1, <1>2
<1>4. /\ q.pc = "done" /\ q.token = s.token /\ q.answer = "profile"
      /\ q.email = email /\ q.failed = failed /\ q.own = s.own /\ q.young = s.young
      /\ q.after = s.after /\ q = [f \in ProbeFields |-> q[f]]
  <2> HIDE DEF q, s
  <2> QED
    BY <1>2, <1>3 DEF ProbeFields
<1>5. \A w \in Probes \ {v} : probe'[w] = probe[w]
  BY <1>0, <1>1 DEF ProbeShape
<1>6. ProbeShape'
  <2>1. probe' = [w \in Probes |-> probe'[w]]
    BY <1>0, <1>1 DEF ProbeShape
  <2> QED
    BY <1>0, <1>4, <1>5, <2>1 DEF ProbeShape
<1>7. LetIn(s) /\ AfterAnswers(th, s) /\ s.own \in BOOLEAN /\ s.young \in BOOLEAN
  BY <1>0 DEF ProbeInPlace
<1> HIDE DEF s, q
<1>8. LetIn(q)
  BY <1>0, <1>4, <1>7 DEF LetIn, Accepted
<1>9. AfterAnswers(th, q)
  BY <1>4, <1>7 DEF AfterAnswers
<1>10. Follows(th, q)
  <2> SUFFICES ASSUME failed = FALSE, NEW t \in s.after
               PROVE  email = th[t].req.set.email \/ Excused(th, t, sub)
    BY <1>4 DEF Follows
  <2>1. /\ t \in Threads /\ th[t].answer = "ok" /\ th[t].req.table = "users"
        /\ th[t].req.id = sub /\ "email" \in DOMAIN th[t].req.set
    BY <1>7 DEF AfterAnswers
  <2>2. Stands(t) \/ Removed(t)
    BY <2>1 DEF TVInv, MRInv, PatchesStand, PatchStands
  <2>3. th[t].req.op = "patch"
    BY <2>1, PatchTyped DEF TVInv
  <2>4. ASSUME Removed(t) PROVE Excused(th, t, sub)
    BY <2>1, <2>3, <2>4 DEF Removed, UserDeletedFor, Excused
  <2>5. ASSUME Rival(t, "email") PROVE Excused(th, t, sub)
    BY <2>1, <2>5 DEF Rival, Excused
  <2>6. ASSUME Stands(t)
        PROVE  /\ sub \in DOMAIN db.users
               /\ db.users[sub].email = th[t].req.set.email \/ Rival(t, "email")
    BY <2>1, <2>6 DEF Stands
  <2> QED
    BY <1>1, <2>2, <2>4, <2>5, <2>6
<1>11. ProbeInPlace(th, q)
  BY <1>1, <1>4, <1>7, <1>8, <1>9, <1>10 DEF ProbeInPlace
<1> QED
  BY <1>0, <1>5, <1>6, <1>11 DEF q

(* A new process: requests in flight are lost, and no older token carries  *)
(* its key.                                                                *)
LEMMA RestartStep ==
    ASSUME TVInv, Restart
    PROVE  ProbeShape' /\ \A w \in Probes : ProbeInPlace(th', probe'[w])
<1>1. /\ ProbeShape
      /\ probe' = [v \in Probes |->
                     IF probe[v].pc = "select"
                     THEN [probe[v] EXCEPT !.pc = "done", !.answer = "lost"]
                     ELSE probe[v]]
  BY DEF Restart, TVInv
<1>2. ProbeShape'
  BY <1>1 DEF ProbeShape, ProbeFields
<1>3. ASSUME NEW v \in Probes PROVE ProbeInPlace(th', probe'[v])
  <2> DEFINE s == probe[v]
             q == probe'[v]
  <2>1. ProbeInPlace(th', s)
    BY ProbeStays DEF TVInv, Restart, MANext
  <2>2. CASE s.pc # "select"
    BY <1>1, <2>1, <2>2
  <2>3. CASE s.pc = "select"
    <3>1. /\ q.pc = "done" /\ q.token = s.token /\ q.answer = "lost"
          /\ q.failed = s.failed /\ q.own = s.own /\ q.young = s.young
          /\ q.after = s.after
      BY <1>1, <2>3 DEF ProbeShape, ProbeFields
    <3> HIDE DEF s, q
    <3>2. LetIn(q)
      BY <2>1, <2>3, <3>1 DEF ProbeInPlace, LetIn, Accepted
    <3>3. AfterAnswers(th', q) /\ Follows(th', q)
      BY <2>1, <3>1 DEF ProbeInPlace, AfterAnswers, Follows
    <3>4. ProbeInPlace(th', q)
      BY <2>1, <3>1, <3>2, <3>3 DEF ProbeInPlace
    <3> QED
      BY <3>4 DEF q
  <2> QED
    BY <2>2, <2>3
<1> QED
  BY <1>2, <1>3

(* A new token carries the key of the process, and the claims that the     *)
(* rules of this moment leave.                                             *)
LEMMA IssueStep ==
    ASSUME TVInv, IssueToken PROVE TokensInPlace'
<1>1. /\ now \in Nat /\ key = crashes + 1 /\ crashes \in Nat
      /\ \A tok \in issued : TokenInPlace(tok)
  BY DEF TVInv, TokensInPlace, MRInv, MATypeOK
<1>2. /\ now' = now /\ key' = key /\ crashes' = crashes
  BY DEF IssueToken, maVars
<1>3. ASSUME NEW kind, NEW claims, NEW scope, NEW row, NEW rules,
             DOMAIN rules = 1..Len(rules), ClaimsFollow(Token(kind, claims, scope, row, rules))
      PROVE  TokenInPlace(Token(kind, claims, scope, row, rules))
  <2> DEFINE tok == Token(kind, claims, scope, row, rules)
  <2>1. tok.key = key /\ tok.run = crashes /\ tok.rules = rules /\ tok.at = now
    BY DEF Token
  <2> HIDE DEF tok
  <2>2. TokenInPlace(tok)
    BY <1>1, <1>3, <2>1 DEF TokenInPlace, tok
  <2> QED
    BY <2>2 DEF tok
<1>4. ASSUME NEW kind, kind \notin {"id", "renewed"}, NEW sub, NEW custom, NEW scope,
             NEW row, NEW rules, NEW claims, DOMAIN rules = 1..Len(rules),
             \A c : Explains(claims, rules, Len(rules), c),
             custom = IF kind = "access" THEN mergeClaims(claims, ExtraClaims)
                      ELSE claims
      PROVE  TokenInPlace(Token(kind, Issue(sub, custom), scope, row, rules))
  <2> DEFINE all == Issue(sub, custom)
             tok == Token(kind, all, scope, row, rules)
  <2>1. all = mergeClaims(all, << >>)
    <3>1. all = [c \in DOMAIN all |-> all[c]]
      BY DEF Issue, mergeClaims
    <3> HIDE DEF all
    <3>2. DOMAIN << >> = {}
      OBVIOUS
    <3> QED
      BY <3>1, <3>2 DEF mergeClaims
  <2> HIDE DEF all
  <2>2. /\ tok.kind = kind /\ tok.rules = rules /\ tok.at = now /\ tok.claims = all
    BY DEF Token
  <2> HIDE DEF tok
  <2>3. PICK last : last = << >>
    OBVIOUS
  <2>4. LastClaims(tok, last)
    <3>1. \A c : c \notin DOMAIN last
      BY <2>3
    <3>2. \A c : ~IssuerSets(tok, c)
      BY <1>4, <2>2 DEF IssuerSets
    <3> QED
      BY <3>1, <3>2, Zenon DEF LastClaims
  <2>5. tok.claims = mergeClaims(Issue(sub, custom), last)
    BY <2>1, <2>2, <2>3 DEF all
  <2>6. ClaimsFollow(tok)
    BY <1>4, <2>2, <2>4, <2>5, SignedFollows
  <2> QED
    BY <1>3, <1>4, <2>6 DEF tok, all
<1>5. ASSUME NEW kind \in {"id", "renewed"}, NEW sub, NEW scope, NEW row, NEW rules,
             NEW user, NEW name, DOMAIN rules = 1..Len(rules), Len(rules) \in Nat,
             row = [f \in FieldNames |-> row[f]],
             Explained(user, row, rules, Len(rules)),
             name = IF kind = "renewed" THEN row.name ELSE ShownName(user.fields)
      PROVE  TokenInPlace(Token(kind, IssueIDToken(sub, scope, user.fields.email, name,
                                                   user.claims), scope, row, rules))
  <2> DEFINE all == IssueIDToken(sub, scope, user.fields.email, name, user.claims)
             tok == Token(kind, all, scope, row, rules)
  <2>1. /\ tok.kind = kind /\ tok.rules = rules /\ tok.at = now /\ tok.claims = all
        /\ tok.scope = scope /\ tok.row = row
    <3> HIDE DEF all
    <3> QED
      BY DEF Token
  <2> HIDE DEF tok
  <2>2. DOMAIN row = FieldNames
    BY <1>5
  <2>3. Final(tok, "email") = user.fields.email /\ FinalName(tok) = name
    <3>1. /\ \A f \in FieldNames : Final(tok, f) = user.fields[f]
          /\ tok.kind # "renewed" => FinalName(tok) = ShownName(user.fields)
      <4>1. /\ Explained(user, tok.row, tok.rules, Len(tok.rules))
            /\ Len(tok.rules) \in Nat /\ DOMAIN tok.row = FieldNames
        BY <1>5, <2>1, <2>2
      <4> QED
        BY <4>1, FinalIs, Zenon
    <3>2. tok.kind = "renewed" => FinalName(tok) = row.name
      BY <2>1 DEF FinalName
    <3> QED
      BY <1>5, <2>1, <3>1, <3>2 DEF FieldNames
  <2>4. all = mergeClaims(Issue(sub, user.claims),
                          ProfileClaims(tok.scope, Final(tok, "email"), FinalName(tok)))
    BY <2>1, <2>3 DEF IssueIDToken
  <2> DEFINE last == ProfileClaims(tok.scope, Final(tok, "email"), FinalName(tok))
  <2>5. LastClaims(tok, last)
    <3>1. tok.kind \in {"id", "renewed"}
      BY <1>5, <2>1
    <3>2. last = ProfileClaims(tok.scope, Final(tok, "email"), FinalName(tok))
      OBVIOUS
    <3> HIDE DEF last
    <3> QED
      BY <3>1, <3>2, ProfileExpected
  <2>6. tok.claims = mergeClaims(Issue(sub, user.claims), last)
    BY <2>1, <2>4
  <2> HIDE DEF last, all
  <2>7. user.claims = IF tok.kind = "access" THEN mergeClaims(user.claims, ExtraClaims)
                      ELSE user.claims
    BY <2>1
  <2>8. \A c : Explains(user.claims, tok.rules, Len(tok.rules), c)
    BY <1>5, <2>1 DEF Explained
  <2>9. ClaimsFollow(tok)
    BY <2>1, <2>5, <2>6, <2>7, <2>8, SignedFollows
  <2> QED
    BY <1>3, <1>5, <2>9 DEF tok, all
<1>6. /\ DOMAIN << >> = 1..Len(<< >>) /\ Len(<< >>) = 0
      /\ \A c : Explains(<< >>, << >>, Len(<< >>), c)
  <2>1. DOMAIN << >> = {} /\ Len(<< >>) = 0 /\ 1..0 = {}
    OBVIOUS
  <2>2. \A c : Counting(<< >>, 0, c) = {}
    BY <2>1 DEF Counting
  <2> QED
    BY <2>1, <2>2 DEF Explains
<1>7. TokenInPlace(ClientToken)
  <2>1. << >> = IF "client" = "access" THEN mergeClaims(<< >>, ExtraClaims) ELSE << >>
    OBVIOUS
  <2> QED
    BY <1>4, <1>6, <2>1 DEF ClientToken
<1>8. PICK tok \in (UNION {UserTokens(u) \cup RenewedTokens(u) : u \in DOMAIN db.users})
                   \cup {ClientToken} :
        issued' = issued \cup {tok}
  BY DEF IssueToken
<1>9. \A u : UserFields(u) = [f \in FieldNames |-> UserFields(u)[f]]
  BY DEF UserFields, FieldNames
<1>10. NoFields = [f \in FieldNames |-> NoFields[f]]
  BY DEF NoFields, FieldNames
<1>11. ASSUME NEW u \in DOMAIN db.users, tok \in UserTokens(u) PROVE TokenInPlace(tok)
  <2> DEFINE row == UserFields(u)
  <2>1. PICK rules \in RuleFiles :
          LET user == Run(NewUser(row), rules)
          IN  tok \in {Token("access", Issue(u, mergeClaims(user.claims, ExtraClaims)),
                             {}, row, rules)} \cup
                      {Token("id", IssueIDToken(u, scope, user.fields.email,
                                                ShownName(user.fields), user.claims),
                             scope, row, rules) : scope \in Scopes}
    BY <1>11 DEF UserTokens
  <2> DEFINE user == Run(NewUser(row), rules)
  <2>2. Explained(user, row, rules, Len(rules))
    BY <1>9, RunExplained, Zenon
  <2>3. DOMAIN rules = 1..Len(rules) /\ Len(rules) \in Nat
    BY RulesAssumption
  <2>4. row = [f \in FieldNames |-> row[f]]
    BY <1>9
  <2>5. \/ tok = Token("access", Issue(u, mergeClaims(user.claims, ExtraClaims)),
                      {}, row, rules)
        \/ \E scope \in Scopes :
             tok = Token("id", IssueIDToken(u, scope, user.fields.email,
                                            ShownName(user.fields), user.claims),
                         scope, row, rules)
    BY <2>1, Zenon
  <2> HIDE DEF user, row
  <2>6. TokenInPlace(Token("access", Issue(u, mergeClaims(user.claims, ExtraClaims)),
                           {}, row, rules))
    <3>1. \A c : Explains(user.claims, rules, Len(rules), c)
      BY <2>2, Zenon DEF Explained
    <3> QED
      BY <1>4, <2>3, <3>1
  <2>7. \A scope \in Scopes :
          TokenInPlace(Token("id", IssueIDToken(u, scope, user.fields.email,
                                                ShownName(user.fields), user.claims),
                             scope, row, rules))
    BY <1>5, <2>2, <2>3, <2>4
  <2> QED
    BY <2>5, <2>6, <2>7
<1>12. ASSUME NEW u \in DOMAIN db.users, tok \in RenewedTokens(u) PROVE TokenInPlace(tok)
  <2>1. \/ tok = Token("access", Issue(u, mergeClaims(<< >>, ExtraClaims)), {},
                      UserFields(u), << >>)
        \/ \E scope \in Scopes, row \in {UserFields(u), NoFields} :
             tok = Token("renewed", IssueIDToken(u, scope, row.email, row.name, << >>),
                         scope, row, << >>)
    <3> DEFINE access == Token("access", Issue(u, mergeClaims(<< >>, ExtraClaims)), {},
                               UserFields(u), << >>)
               Renewed(scope, row) == Token("renewed", IssueIDToken(u, scope, row.email,
                                            row.name, << >>), scope, row, << >>)
    <3>1. tok \in {access} \cup {Renewed(scope, row) :
                     scope \in {s \in Scopes : "profile" \in s},
                     row \in {UserFields(u), NoFields}}
      BY <1>12 DEF RenewedTokens
    <3> HIDE DEF access, Renewed
    <3>2. \/ tok = access
          \/ \E scope \in Scopes, row \in {UserFields(u), NoFields} :
               tok = Renewed(scope, row)
      BY <3>1
    <3> QED
      BY <3>2 DEF access, Renewed
  <2>2. TokenInPlace(Token("access", Issue(u, mergeClaims(<< >>, ExtraClaims)), {},
                           UserFields(u), << >>))
    BY <1>4, <1>6
  <2>3. ASSUME NEW scope, NEW row \in {UserFields(u), NoFields}
        PROVE  TokenInPlace(Token("renewed", IssueIDToken(u, scope, row.email, row.name,
                                                          << >>), scope, row, << >>))
    <3> DEFINE user == NewUser(row)
    <3>1. row = [f \in FieldNames |-> row[f]]
      BY <1>9, <1>10, Zenon
    <3>2. Explained(user, row, << >>, Len(<< >>))
      BY <1>6, <3>1, NewExplained
    <3>3. user.fields = row /\ user.claims = << >>
      BY DEF NewUser
    <3> HIDE DEF user
    <3>4. TokenInPlace(Token("renewed", IssueIDToken(u, scope, user.fields.email, row.name,
                                                     user.claims), scope, row, << >>))
      BY <1>5, <1>6, <3>1, <3>2
    <3> QED
      BY <3>3, <3>4
  <2> QED
    BY <2>1, <2>2, <2>3
<1>13. TokenInPlace(tok)
  <2>1. \/ tok = ClientToken
        \/ \E u \in DOMAIN db.users : tok \in UserTokens(u) \/ tok \in RenewedTokens(u)
    BY <1>8
  <2> QED
    BY <1>7, <1>11, <1>12, <2>1
<1> QED
  BY <1>1, <1>2, <1>8, <1>13 DEF TokensInPlace

-----------------------------------------------------------------------------
(* TVInv is an inductive invariant.                                        *)
LEMMA TVInvInit == TVInit => TVInv
<1> SUFFICES ASSUME TVInit PROVE TVInv
  OBVIOUS
<1>1. MRInv
  BY MRInvInit DEF TVInit
<1>2. TokensInPlace
  BY DEF TVInit, MAInit, TokensInPlace
<1>3. ProbeShape /\ \A v \in Probes : probe[v] = NewProbe
  BY DEF TVInit, NewProbe, ProbeShape, ProbeFields
<1>4. ProbeInPlace(th, NewProbe)
  BY DEF NewProbe, ProbeInPlace, LetIn, Accepted, AfterAnswers, Follows
<1> QED
  BY <1>1, <1>2, <1>3, <1>4 DEF TVInv

LEMMA TVInvStep == TVInv /\ [TVNext]_<<maVars, tvVars>> => TVInv'
<1> SUFFICES ASSUME TVInv, [TVNext]_<<maVars, tvVars>> PROVE TVInv'
  OBVIOUS
<1> DEFINE ProbesInPlace == \A v \in Probes : ProbeInPlace(th, probe[v])
<1>0. /\ MRInv /\ ProbeShape /\ ProbesInPlace
      /\ now \in Nat /\ key = crashes + 1 /\ \A tok \in issued : TokenInPlace(tok)
      /\ crashes \in Nat
  BY DEF TVInv, TokensInPlace, MRInv, MATypeOK
<1>1. [MANext]_maVars
  BY DEF TVNext, tvVars, MANext, Restart, IssueToken, Introspect, PresentToken,
     AnswerProfile, RevokeSigned, Tick
<1>2. MRInv'
  BY <1>0, <1>1, MRInvStep
<1>3. ASSUME probe' = probe PROVE ProbeShape' /\ ProbesInPlace'
  <2>1. \A v \in Probes : ProbeInPlace(th', probe[v])
    BY <1>0, <1>1, ProbeStays
  <2> QED
    BY <1>0, <1>3, <2>1 DEF ProbeShape
<1>4. ASSUME now' \in Nat, key' = crashes' + 1, issued' = issued PROVE TokensInPlace'
  BY <1>0, <1>4 DEF TokensInPlace
<1>5. CASE UNCHANGED <<maVars, tvVars>>
  BY <1>0, <1>2, <1>3, <1>4, <1>5 DEF TVInv, maVars, tvVars
<1>6. CASE Operate /\ UNCHANGED tvVars
  <2>1. crashes' = crashes
    BY <1>0, <1>6, OperateServes
  <2> QED
    BY <1>0, <1>2, <1>3, <1>4, <1>6, <2>1 DEF TVInv, tvVars
<1>7. CASE Restart
  <2>1. key' = crashes' + 1
    <3>1. key' = key + 1 /\ crashes' = crashes + 1
      BY <1>7 DEF Restart, NewIssuer, Crash
    <3> QED
      BY <1>0, <3>1
  <2>2. TokensInPlace'
    BY <1>0, <1>4, <1>7, <2>1 DEF Restart
  <2> QED
    BY <1>2, <1>7, <2>2, RestartStep DEF TVInv
<1>8. CASE IssueToken
  <2>1. probe' = probe
    BY <1>8 DEF IssueToken
  <2> QED
    BY <1>2, <1>3, <1>8, <2>1, IssueStep DEF TVInv
<1>9. ASSUME NEW v \in Probes, NEW tok \in issued,
             Introspect(v, tok) \/ PresentToken(v, tok)
      PROVE  TVInv'
  <2>1. now' = now /\ key' = key /\ crashes' = crashes /\ issued' = issued
    BY <1>9 DEF Introspect, PresentToken, maVars
  <2>2. TokensInPlace'
    BY <1>0, <1>4, <2>1
  <2> QED
    BY <1>2, <1>9, <2>2, IntrospectStep DEF TVInv
<1>10. ASSUME NEW v \in Probes, AnswerProfile(v) PROVE TVInv'
  <2>1. now' = now /\ key' = key /\ crashes' = crashes /\ issued' = issued
    BY <1>10 DEF AnswerProfile, maVars
  <2>2. TokensInPlace'
    BY <1>0, <1>4, <2>1
  <2> QED
    BY <1>2, <1>10, <2>2, ProfileStep DEF TVInv
<1>11. CASE Tick
  <2>1. /\ now' = now + 1 /\ key' = key /\ crashes' = crashes /\ issued' = issued
        /\ probe' = probe
    BY <1>11 DEF Tick, maVars
  <2>2. TokensInPlace'
    BY <1>0, <1>4, <2>1
  <2> QED
    BY <1>2, <1>3, <2>1, <2>2 DEF TVInv
<1>12. ASSUME NEW tok \in issued, RevokeSigned(tok) PROVE TVInv'
  <2>1. /\ now' = now /\ key' = key /\ crashes' = crashes /\ issued' = issued
        /\ probe' = probe
    BY <1>12 DEF RevokeSigned, maVars
  <2>2. TokensInPlace'
    BY <1>0, <1>4, <2>1
  <2> QED
    BY <1>2, <1>3, <2>1, <2>2 DEF TVInv
<1> QED
  BY <1>5, <1>6, <1>7, <1>8, <1>9, <1>10, <1>11, <1>12 DEF TVNext

-----------------------------------------------------------------------------
(* /userinfo and /tokeninfo answer from the database: a request that       *)
(* arrives after a PATCH of the user's email was answered shows that email,*)
(* whatever the token's claims and rules say and whatever restarts are in  *)
(* between, unless its query failed or another request deletes the user or *)
(* sets the email.                                                         *)
THEOREM ProfilesFollowPatches == TVSpec => []ProfileFollowsPatch
<1>1. TVInv => ProfileFollowsPatch
  <2> SUFFICES ASSUME TVInv, NEW v \in Probes, probe[v].answer = "profile",
                      ~probe[v].failed, NEW t \in probe[v].after
               PROVE  \/ probe[v].email = th[t].req.set.email
                      \/ Excused(th, t, probe[v].token.claims.sub)
    BY DEF ProfileFollowsPatch, Excused
  <2>1. probe[v].failed = FALSE /\ Follows(th, probe[v])
    BY DEF TVInv, ProbeInPlace
  <2> QED
    BY <2>1 DEF Follows
<1> QED
  BY <1>1, TVInvInit, TVInvStep, PTL DEF TVSpec

(* A request accepts a token whose issuer, lifetime and start neither the  *)
(* rules nor the environment set exactly while the process that issued it  *)
(* answers, its lifetime is not over and, at /userinfo and /tokeninfo, its *)
(* subject is not empty; it accepts no token of an earlier process,        *)
(* whatever claims the rules gave it, nbf and sub included.  That the      *)
(* token went to /oauth/revoke changes nothing.                            *)
THEOREM TokensJudgedRight == TVSpec => []AcceptedExactlyWhileGood
<1>1. TVInv => AcceptedExactlyWhileGood
  <2> SUFFICES ASSUME TVInv, NEW v \in Probes, probe[v].token # NoToken
               PROVE  /\ Accepted(probe[v]) => probe[v].own
                      /\ Standard(probe[v].token) =>
                           (Accepted(probe[v]) <=>
                              /\ probe[v].own /\ probe[v].young
                              /\ \/ probe[v].answer \in {"active", "inactive"}
                                 \/ probe[v].token.claims.sub # Blank)
    BY DEF AcceptedExactlyWhileGood
  <2>1. LetIn(probe[v]) /\ probe[v].own \in BOOLEAN /\ probe[v].young \in BOOLEAN
    BY DEF TVInv, ProbeInPlace
  <2> QED
    BY <2>1, Zenon DEF LetIn
<1> QED
  BY <1>1, TVInvInit, TVInvStep, PTL DEF TVSpec

(* What of the rules reaches a token, for every sequence of scripts of the *)
(* kind that Rules describes: Run, whose first error ends it but does not  *)
(* take back the claims already shared, leaves the claims and the fields   *)
(* that ClaimsFollowRules states; the environment wins in access tokens,   *)
(* the email and the names that the scope asks for win in ID tokens; and   *)
(* nothing that happens later changes a token.                             *)
THEOREM ClaimsAreExplained == TVSpec => []ClaimsFollowRules
<1>1. TVInv => ClaimsFollowRules
  BY DEF TVInv, TokensInPlace, TokenInPlace, ClaimsFollowRules
<1> QED
  BY <1>1, TVInvInit, TVInvStep, PTL DEF TVSpec
=============================================================================
