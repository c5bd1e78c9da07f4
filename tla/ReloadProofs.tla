---------------------------- MODULE ReloadProofs ----------------------------
(***************************************************************************)
(* The pages that patch their lists show what a reload would show, as long *)
(* as nobody else changes the rows, no call fails and none is made while   *)
(* another it could interfere with is under way.                           *)
(*                                                                         *)
(* The first part is about lists: what Kept makes of a list with a row     *)
(* more, with changed rows, and of a list that was kept already.           *)
(***************************************************************************)
EXTENDS DashboardProofs

\* Induction over the sequences of a set, for the members of another.
LEMMA SeqInductionOnSet ==
    ASSUME NEW S, NEW G, << >> \in G,
           \A s \in Seq(S) : \A x \in S : s \in G => Append(s, x) \in G
    PROVE  Seq(S) \subseteq G
<1>. DEFINE Good == {n \in Nat : \A s \in Seq(S) : Len(s) = n => s \in G}
<1>1. 0 \in Good
  <2>1. \A s \in Seq(S) : Len(s) = 0 => s = << >>
    OBVIOUS
  <2>. QED  BY <2>1
<1>2. ASSUME NEW n \in Nat, n \in Good
      PROVE  n + 1 \in Good
  <2>. SUFFICES ASSUME NEW s \in Seq(S), Len(s) = n + 1
                PROVE  s \in G
    OBVIOUS
  <2>. DEFINE front == SubSeq(s, 1, n)
  <2>1. front \in Seq(S) /\ Len(front) = n /\ s[n + 1] \in S /\ s = Append(front, s[n + 1])
    OBVIOUS
  <2>. HIDE DEF front
  <2>2. front \in G
    BY <1>2, <2>1
  <2>3. Append(front, s[n + 1]) \in G
    BY <2>1, <2>2
  <2>. QED  BY <2>1, <2>3
<1>. HIDE DEF Good
<1>3. Nat \subseteq Good
  BY <1>1, <1>2, NatInductionOnSet
<1>4. ASSUME NEW s \in Seq(S)
      PROVE  s \in G
  <2>1. Len(s) \in Nat /\ Len(s) \in Good
    BY <1>3
  <2>. QED  BY <2>1 DEF Good
<1>. QED  BY <1>4

\* A list with one more row.
LEMMA KeptAppend ==
    ASSUME NEW S, NEW s \in Seq(S), NEW x \in S, NEW T
    PROVE  Kept(Append(s, x), T) = IF x \in T THEN Append(Kept(s, T), x) ELSE Kept(s, T)
<1>. DEFINE t == Append(s, x)
            len == Len(s)
<1>1. t \in Seq(S) /\ Len(t) = len + 1 /\ len \in Nat /\ t[len + 1] = x
      /\ \A i \in 1 .. len : t[i] = s[i]
  OBVIOUS
<1>. HIDE DEF t
<1>2. PICK f : /\ f[0] = << >>
               /\ \A n \in Nat : n < len =>
                    f[n + 1] = IF s[n + 1] \in T THEN Append(f[n], s[n + 1]) ELSE f[n]
               /\ Kept(s, T) = f[len]
  BY KeptSteps
<1>3. PICK g : /\ g[0] = << >>
               /\ \A n \in Nat : n < Len(t) =>
                    g[n + 1] = IF t[n + 1] \in T THEN Append(g[n], t[n + 1]) ELSE g[n]
               /\ Kept(t, T) = g[Len(t)]
  BY <1>1, KeptSteps
<1>. DEFINE Good == {n \in Nat : n <= len => f[n] = g[n]}
<1>4. 0 \in Good
  BY <1>2, <1>3
<1>5. ASSUME NEW n \in Nat, n \in Good
      PROVE  n + 1 \in Good
  <2>. SUFFICES ASSUME n + 1 <= len PROVE f[n + 1] = g[n + 1]
    OBVIOUS
  <2>1. n < len /\ n < Len(t) /\ t[n + 1] = s[n + 1] /\ f[n] = g[n]
    BY <1>1, <1>5
  <2>. QED  BY <1>2, <1>3, <2>1
<1>. HIDE DEF Good
<1>6. Nat \subseteq Good
  BY <1>4, <1>5, NatInductionOnSet
<1>7. f[len] = g[len]
  BY <1>1, <1>6 DEF Good
<1>8. g[len + 1] = IF x \in T THEN Append(g[len], x) ELSE g[len]
  BY <1>1, <1>3
<1>. QED  BY <1>1, <1>2, <1>3, <1>7, <1>8 DEF t

LEMMA KeptNothing ==
    ASSUME NEW T
    PROVE  Kept(<< >>, T) = << >>
<1>1. << >> \in Seq({}) /\ \A i \in DOMAIN << >> : << >>[i] \notin T
  OBVIOUS
<1>. QED  BY <1>1, KeptRows

\* A list whose rows are changed one by one.
Mapped(f, rows) == [i \in DOMAIN rows |-> f[rows[i]]]

LEMMA MappedTyped ==
    ASSUME NEW R, NEW f, NEW s \in Seq(R)
    PROVE  Mapped(f, s) \in Seq({f[x] : x \in R})
<1>. DEFINE S == {f[x] : x \in R}
<1>1. Len(s) \in Nat /\ DOMAIN s = 1 .. Len(s) /\ \A i \in 1 .. Len(s) : f[s[i]] \in S
  OBVIOUS
<1>2. Mapped(f, s) \in [1 .. Len(s) -> S]
  BY <1>1 DEF Mapped
<1>. QED  BY <1>1, <1>2

LEMMA MappedAppend ==
    ASSUME NEW R, NEW f, NEW s \in Seq(R), NEW x \in R
    PROVE  Mapped(f, Append(s, x)) = Append(Mapped(f, s), f[x])
<1>1. Len(s) \in Nat /\ DOMAIN s = 1 .. Len(s)
  OBVIOUS
<1>. DEFINE t == Append(s, x)
            m == [i \in DOMAIN s |-> f[s[i]]]
<1>2. t \in Seq(R) /\ DOMAIN t = 1 .. Len(s) + 1 /\ t[Len(s) + 1] = x /\ \A i \in 1 .. Len(s) : t[i] = s[i]
  BY <1>1
<1>3. Len(m) = Len(s) /\ \A i \in 1 .. Len(s) : m[i] = f[s[i]]
  BY <1>1
<1>. HIDE DEF t
<1>4. [i \in DOMAIN t |-> f[t[i]]] = Append(m, f[x])
  <2>1. Append(m, f[x]) = [i \in 1 .. Len(m) + 1 |-> IF i = Len(m) + 1 THEN f[x] ELSE m[i]]
    BY <1>1, <1>3
  <2>. HIDE DEF m
  <2>. QED  BY <1>1, <1>2, <1>3, <2>1
<1>. QED  BY <1>4 DEF Mapped, t

(***************************************************************************)
(* What Kept makes of changed rows, if it keeps them as it did before.     *)
(***************************************************************************)
LEMMA KeptMapped ==
    ASSUME NEW R, NEW f, NEW T, NEW U, \A x \in R : f[x] \in U <=> x \in T,
           NEW rows \in Seq(R)
    PROVE  Kept(Mapped(f, rows), U) = Mapped(f, Kept(rows, T))
<1>. DEFINE S == {f[x] : x \in R}
<1>. DEFINE Good == {s \in Seq(R) : Kept(Mapped(f, s), U) = Mapped(f, Kept(s, T))}
<1>1. << >> \in Good
  <2>1. Mapped(f, << >>) = << >>
    BY DEF Mapped
  <2>2. Kept(<< >>, T) = << >> /\ Kept(<< >>, U) = << >>
    BY KeptNothing
  <2>3. << >> \in Seq(R)
    OBVIOUS
  <2>. QED  BY <2>1, <2>2, <2>3
<1>2. ASSUME NEW s \in Seq(R), NEW x \in R, s \in Good
      PROVE  Append(s, x) \in Good
  <2>1. Append(s, x) \in Seq(R)
    OBVIOUS
  <2>2. Kept(s, T) \in Seq(R)
    <3>1. Kept(s, T) \in Seq(R \cap T)
      BY KeptRows
    <3>. HIDE DEF Kept
    <3>. QED  BY <3>1
  <2>3. Kept(Append(s, x), T) = IF x \in T THEN Append(Kept(s, T), x) ELSE Kept(s, T)
    BY KeptAppend
  <2>4. /\ Mapped(f, s) \in Seq(S) /\ f[x] \in S
        /\ Mapped(f, Append(s, x)) = Append(Mapped(f, s), f[x])
    <3>. HIDE DEF Good
    <3>1. Mapped(f, s) \in Seq(S)
      BY MappedTyped
    <3>2. Mapped(f, Append(s, x)) = Append(Mapped(f, s), f[x])
      BY MappedAppend
    <3>. QED  BY <3>1, <3>2
  <2>. HIDE DEF S
  <2>5. Kept(Append(Mapped(f, s), f[x]), U)
          = IF f[x] \in U THEN Append(Kept(Mapped(f, s), U), f[x]) ELSE Kept(Mapped(f, s), U)
    <3>. DEFINE m == Mapped(f, s)
                y == f[x]
    <3>1. m \in Seq(S) /\ y \in S
      BY <2>4
    <3>. HIDE DEF m, y, Good
    <3>2. Kept(Append(m, y), U) = IF y \in U THEN Append(Kept(m, U), y) ELSE Kept(m, U)
      BY <3>1, KeptAppend
    <3>. QED  BY <3>2 DEF m, y
  <2>6. Mapped(f, Append(Kept(s, T), x)) = Append(Mapped(f, Kept(s, T)), f[x])
    <3>. HIDE DEF Good
    <3>. QED  BY <2>2, MappedAppend
  <2>7. Kept(Mapped(f, s), U) = Mapped(f, Kept(s, T))
    BY <1>2
  <2>8. f[x] \in U <=> x \in T
    OBVIOUS
  <2>9. Kept(Mapped(f, Append(s, x)), U) = Mapped(f, Kept(Append(s, x), T))
    BY <2>3, <2>4, <2>5, <2>6, <2>7, <2>8
  <2>. QED  BY <2>1, <2>9
<1>. HIDE DEF Good
<1>3. Seq(R) \subseteq Good
  BY <1>1, <1>2, SeqInductionOnSet
<1>. QED  BY <1>3 DEF Good

\* Sets that agree on the rows of a list keep the same of it.
LEMMA KeptSame ==
    ASSUME NEW R, NEW rows \in Seq(R), NEW T, NEW U,
           \A i \in DOMAIN rows : rows[i] \in T <=> rows[i] \in U
    PROVE  Kept(rows, T) = Kept(rows, U)
<1>. DEFINE Q == {rows[i] : i \in DOMAIN rows}
            f == [x \in Q |-> x]
<1>1. rows \in Seq(Q)
  OBVIOUS
<1>2. ASSUME NEW s \in Seq(Q) PROVE Mapped(f, s) = s
  BY DEF Mapped
<1>3. f \in [Q -> Q] /\ \A x \in Q : f[x] \in U <=> x \in T
  OBVIOUS
<1>. HIDE DEF f, Q
<1>4. Kept(Mapped(f, rows), U) = Mapped(f, Kept(rows, T))
  BY <1>1, <1>3, KeptMapped
<1>5. Kept(rows, T) \in Seq(Q)
  <2>1. Kept(rows, T) \in Seq(Q \cap T)
    BY <1>1, KeptRows
  <2>. HIDE DEF Kept
  <2>. QED  BY <2>1
<1>. QED  BY <1>1, <1>2, <1>4, <1>5

\* Keeping twice, and keeping all.
LEMMA KeptKept ==
    ASSUME NEW R, NEW rows \in Seq(R), NEW T, NEW U
    PROVE  Kept(Kept(rows, T), U) = Kept(rows, T \cap U)
<1>. DEFINE Good == {s \in Seq(R) : Kept(Kept(s, T), U) = Kept(s, T \cap U)}
<1>1. << >> \in Good
  BY KeptNothing
<1>2. ASSUME NEW s \in Seq(R), NEW x \in R, s \in Good
      PROVE  Append(s, x) \in Good
  <2>1. Append(s, x) \in Seq(R)
    OBVIOUS
  <2>2. Kept(s, T) \in Seq(R)
    <3>1. Kept(s, T) \in Seq(R \cap T)
      BY KeptRows
    <3>. HIDE DEF Kept
    <3>. QED  BY <3>1
  <2>3. Kept(Append(s, x), T) = IF x \in T THEN Append(Kept(s, T), x) ELSE Kept(s, T)
    BY KeptAppend
  <2>4. Kept(Append(Kept(s, T), x), U)
          = IF x \in U THEN Append(Kept(Kept(s, T), U), x) ELSE Kept(Kept(s, T), U)
    BY <2>2, KeptAppend
  <2>5. Kept(Append(s, x), T \cap U)
          = IF x \in T \cap U THEN Append(Kept(s, T \cap U), x) ELSE Kept(s, T \cap U)
    BY KeptAppend
  <2>6. Kept(Kept(s, T), U) = Kept(s, T \cap U)
    BY <1>2
  <2>7. Kept(Kept(Append(s, x), T), U) = Kept(Append(s, x), T \cap U)
    <3>1. CASE x \in T
      <4>1. Kept(Append(s, x), T) = Append(Kept(s, T), x)
        BY <2>3, <3>1
      <4>2. Kept(Append(s, x), T \cap U)
              = IF x \in U THEN Append(Kept(s, T \cap U), x) ELSE Kept(s, T \cap U)
        BY <2>5, <3>1
      <4>. QED  BY <2>4, <2>6, <4>1, <4>2, Zenon
    <3>2. CASE x \notin T
      BY <2>3, <2>5, <2>6, <3>2
    <3>. QED  BY <3>1, <3>2
  <2>. QED  BY <2>1, <2>7
<1>. HIDE DEF Good
<1>3. Seq(R) \subseteq Good
  BY <1>1, <1>2, SeqInductionOnSet
<1>. QED  BY <1>3 DEF Good

LEMMA KeptAll ==
    ASSUME NEW R, NEW rows \in Seq(R), NEW T, \A i \in DOMAIN rows : rows[i] \in T
    PROVE  Kept(rows, T) = rows
<1>. DEFINE Good == {s \in Seq(R) : Kept(s, R) = s}
<1>1. << >> \in Good
  <2>1. << >> \in Seq(R)
    OBVIOUS
  <2>. QED  BY <2>1, KeptNothing
<1>2. ASSUME NEW s \in Seq(R), NEW x \in R, s \in Good
      PROVE  Append(s, x) \in Good
  <2>1. Append(s, x) \in Seq(R)
    OBVIOUS
  <2>2. Kept(Append(s, x), R) = Append(Kept(s, R), x)
    BY KeptAppend
  <2>. QED  BY <1>2, <2>1, <2>2
<1>. HIDE DEF Good
<1>3. Seq(R) \subseteq Good
  BY <1>1, <1>2, SeqInductionOnSet
<1>4. Kept(rows, R) = rows
  BY <1>3 DEF Good
<1>5. \A i \in DOMAIN rows : rows[i] \in T <=> rows[i] \in R
  OBVIOUS
<1>6. Kept(rows, T) = Kept(rows, R)
  BY <1>5, KeptSame
<1>. QED  BY <1>4, <1>6

\* A row put in front of a list.
LEMMA KeptFront ==
    ASSUME NEW R, NEW rows \in Seq(R), NEW r \in R, NEW T, r \in T
    PROVE  Kept(<<r>> \o rows, T) = <<r>> \o Kept(rows, T)
<1>. DEFINE Good == {s \in Seq(R) : Kept(<<r>> \o s, T) = <<r>> \o Kept(s, T)}
<1>0. ASSUME NEW s \in Seq(R), NEW x \in R
      PROVE  <<r>> \o Append(s, x) = Append(<<r>> \o s, x) /\ <<r>> \o s \in Seq(R)
  OBVIOUS
<1>1. << >> \in Good
  <2>1. << >> \in Seq(R) /\ <<r>> \o << >> = <<r>> /\ <<r>> = Append(<< >>, r)
    OBVIOUS
  <2>2. Kept(Append(<< >>, r), T) = Append(Kept(<< >>, T), r)
    BY <2>1, KeptAppend
  <2>3. Kept(<< >>, T) = << >>
    BY KeptNothing
  <2>. QED  BY <2>1, <2>2, <2>3
<1>2. ASSUME NEW s \in Seq(R), NEW x \in R, s \in Good
      PROVE  Append(s, x) \in Good
  <2>1. Append(s, x) \in Seq(R)
    OBVIOUS
  <2>2. Kept(s, T) \in Seq(R)
    <3>1. Kept(s, T) \in Seq(R \cap T)
      BY KeptRows
    <3>. HIDE DEF Kept
    <3>. QED  BY <3>1
  <2>3. Kept(Append(s, x), T) = IF x \in T THEN Append(Kept(s, T), x) ELSE Kept(s, T)
    BY KeptAppend
  <2>4. Kept(Append(<<r>> \o s, x), T)
          = IF x \in T THEN Append(Kept(<<r>> \o s, T), x) ELSE Kept(<<r>> \o s, T)
    BY <1>0, KeptAppend
  <2>5. Kept(<<r>> \o s, T) = <<r>> \o Kept(s, T)
    BY <1>2
  <2>6. <<r>> \o Append(s, x) = Append(<<r>> \o s, x)
        /\ <<r>> \o Append(Kept(s, T), x) = Append(<<r>> \o Kept(s, T), x)
    BY <1>0, <2>2
  <2>7. Kept(<<r>> \o Append(s, x), T) = <<r>> \o Kept(Append(s, x), T)
    BY <2>3, <2>4, <2>5, <2>6
  <2>. QED  BY <2>1, <2>7
<1>. HIDE DEF Good
<1>3. Seq(R) \subseteq Good
  BY <1>1, <1>2, SeqInductionOnSet
<1>. QED  BY <1>3 DEF Good

LEMMA MappedFront ==
    ASSUME NEW R, NEW f, NEW rows \in Seq(R), NEW r
    PROVE  Mapped(f, <<r>> \o rows) = <<f[r]>> \o Mapped(f, rows)
<1>1. Len(rows) \in Nat /\ DOMAIN rows = 1 .. Len(rows)
  OBVIOUS
<1>. DEFINE t == <<r>> \o rows
            m == [i \in DOMAIN rows |-> f[rows[i]]]
            n == Len(rows)
<1>2. DOMAIN t = 1 .. n + 1 /\ \A i \in 1 .. n + 1 : t[i] = IF i = 1 THEN r ELSE rows[i - 1]
  BY <1>1
<1>3. DOMAIN m = 1 .. n /\ Len(m) = n /\ \A i \in 1 .. n : m[i] = f[rows[i]]
  BY <1>1
<1>. DEFINE u == <<f[r]>> \o m
<1>4. u = [i \in 1 .. n + 1 |-> IF i = 1 THEN f[r] ELSE m[i - 1]]
  <2>. HIDE DEF m
  <2>. QED  BY <1>1, <1>3
<1>5. \A i \in 1 .. n + 1 : f[t[i]] = IF i = 1 THEN f[r] ELSE m[i - 1]
  <2>. SUFFICES ASSUME NEW i \in 1 .. n + 1 PROVE f[t[i]] = IF i = 1 THEN f[r] ELSE m[i - 1]
    OBVIOUS
  <2>1. i = 1 \/ i - 1 \in 1 .. n
    BY <1>1
  <2>. HIDE DEF t, m
  <2>. QED  BY <1>2, <1>3, <2>1
<1>6. [i \in DOMAIN t |-> f[t[i]]] = u
  <2>. HIDE DEF t, m, u
  <2>. QED  BY <1>2, <1>4, <1>5
<1>. QED  BY <1>6 DEF Mapped

-----------------------------------------------------------------------------
(***************************************************************************)
(* The patches.  Due is what a row of a list on the screen will be when    *)
(* the page has handled the answers A to its changes.                      *)
(***************************************************************************)
StatusBy(c) ==
    CASE c.op = "revokeAPIKey"    -> "revoked"
      [] c.op = "pauseAdminModel" -> "paused"
      [] OTHER                    -> c.to

Due(A, row) ==
    IF \E c \in A : c.on = row.id
    THEN [row EXCEPT !.status = StatusBy(CHOOSE c \in A : c.on = row.id)]
    ELSE row

DueRows(A, rows) == [i \in DOMAIN rows |-> Due(A, rows[i])]

OnePerRow(A) == \A a, b \in A : a.on = b.on => a = b

\* The sets of rows a list may be of.
Tabular(R) == \A x \in R : x = [k \in DOMAIN x |-> x[k]] /\ "id" \in DOMAIN x

LEMMA RowsAreTabular ==
    Tabular(ProjectRow) /\ Tabular(KeyRow) /\ Tabular(ProviderRow) /\ Tabular(ModelRow) /\ Tabular(AdRow)
BY DEF Tabular, ProjectRow, KeyRow, ProviderRow, ModelRow, AdRow

LEMMA DueIs ==
    ASSUME NEW A, OnePerRow(A), NEW c \in A, NEW row, c.on = row.id
    PROVE  Due(A, row) = [row EXCEPT !.status = StatusBy(c)]
<1>. DEFINE d == CHOOSE d \in A : d.on = row.id
<1>1. d \in A /\ d.on = row.id
  OBVIOUS
<1>. HIDE DEF d
<1>2. d = c
  BY <1>1 DEF OnePerRow
<1>. QED  BY <1>2 DEF Due, d

LEMMA DueNothing ==
    ASSUME NEW A, NEW row, \A c \in A : c.on # row.id
    PROVE  Due(A, row) = row
BY DEF Due

LEMMA DueSameId ==
    ASSUME NEW A, NEW R, Tabular(R), NEW row \in R
    PROVE  Due(A, row).id = row.id
BY DEF Due, Tabular

LEMMA NoneDue ==
    ASSUME NEW R, NEW rows \in Seq(R), NEW A, \A i \in DOMAIN rows : \A c \in A : c.on # rows[i].id
    PROVE  DueRows(A, rows) = rows
<1>1. \A i \in DOMAIN rows : Due(A, rows[i]) = rows[i]
  BY DueNothing
<1>. QED  BY <1>1 DEF DueRows

\* Another change is answered.
LEMMA DueAnswered ==
    ASSUME NEW A, NEW c, c \notin A, OnePerRow(A \cup {c}),
           NEW R, Tabular(R), NEW rows \in Seq(R)
    PROVE  DueRows(A \cup {c}, rows) = Marked(DueRows(A, rows), c.on, StatusBy(c))
<1>. DEFINE status == StatusBy(c)
<1>1. ASSUME NEW row \in R
      PROVE  Due(A \cup {c}, row) = IF Due(A, row).id = c.on
                                    THEN [Due(A, row) EXCEPT !.status = status] ELSE Due(A, row)
  <2>1. Due(A, row).id = row.id
    BY DueSameId
  <2>2. CASE row.id = c.on
    <3>1. \A a \in A : a.on # row.id
      BY <2>2 DEF OnePerRow
    <3>2. Due(A, row) = row
      BY <3>1, DueNothing
    <3>3. Due(A \cup {c}, row) = [row EXCEPT !.status = status]
      BY <2>2, DueIs
    <3>. QED  BY <2>2, <3>2, <3>3
  <2>3. CASE row.id # c.on /\ \E a \in A : a.on = row.id
    <3>1. PICK a \in A : a.on = row.id
      BY <2>3
    <3>2. OnePerRow(A)
      BY DEF OnePerRow
    <3>3. Due(A, row) = [row EXCEPT !.status = StatusBy(a)]
      BY <3>1, <3>2, DueIs
    <3>4. Due(A \cup {c}, row) = [row EXCEPT !.status = StatusBy(a)]
      BY <3>1, DueIs
    <3>. QED  BY <2>1, <2>3, <3>3, <3>4
  <2>4. CASE row.id # c.on /\ \A a \in A : a.on # row.id
    <3>1. Due(A, row) = row /\ Due(A \cup {c}, row) = row
      BY <2>4, DueNothing
    <3>. QED  BY <2>4, <3>1
  <2>. QED  BY <2>2, <2>3, <2>4
<1>2. \A i \in DOMAIN rows : rows[i] \in R
  OBVIOUS
<1>3. DOMAIN DueRows(A, rows) = DOMAIN rows /\ \A i \in DOMAIN rows : DueRows(A, rows)[i] = Due(A, rows[i])
  BY DEF DueRows
<1>. HIDE DEF status
<1>4. \A i \in DOMAIN rows :
        Due(A \cup {c}, rows[i]) = IF DueRows(A, rows)[i].id = c.on
                                   THEN [DueRows(A, rows)[i] EXCEPT !.status = status]
                                   ELSE DueRows(A, rows)[i]
  BY <1>1, <1>2, <1>3
<1>5. DueRows(A \cup {c}, rows) = [i \in DOMAIN rows |-> Due(A \cup {c}, rows[i])]
  BY DEF DueRows
<1>6. Marked(DueRows(A, rows), c.on, status)
        = [i \in DOMAIN rows |-> IF DueRows(A, rows)[i].id = c.on
                                   THEN [DueRows(A, rows)[i] EXCEPT !.status = status]
                                   ELSE DueRows(A, rows)[i]]
  BY <1>3 DEF Marked
<1>. QED  BY <1>4, <1>5, <1>6 DEF status

\* A change is made on the screen.
LEMMA DueHandled ==
    ASSUME NEW A, OnePerRow(A), NEW c \in A, NEW R, Tabular(R), NEW rows \in Seq(R)
    PROVE  DueRows(A \ {c}, Marked(rows, c.on, StatusBy(c))) = DueRows(A, rows)
<1>. DEFINE status == StatusBy(c)
            B == A \ {c}
            Mark(row) == IF row.id = c.on THEN [row EXCEPT !.status = status] ELSE row
<1>0. OnePerRow(B)
  BY DEF OnePerRow
<1>1. ASSUME NEW row \in R
      PROVE  Due(B, Mark(row)) = Due(A, row)
  <2>1. CASE row.id = c.on
    <3>1. Mark(row) = [row EXCEPT !.status = status] /\ Mark(row).id = c.on
      BY <2>1 DEF Tabular
    <3>2. \A b \in B : b.on # c.on
      BY DEF OnePerRow
    <3>. HIDE DEF B, Mark, status
    <3>3. Due(B, Mark(row)) = Mark(row)
      BY <3>1, <3>2, DueNothing
    <3>4. Due(A, row) = [row EXCEPT !.status = status]
      BY <2>1, DueIs DEF status
    <3>. QED  BY <3>1, <3>3, <3>4
  <2>2. CASE row.id # c.on /\ \E a \in A : a.on = row.id
    <3>1. PICK a \in A : a.on = row.id
      BY <2>2
    <3>2. a \in B
      BY <2>2, <3>1
    <3>. HIDE DEF B
    <3>3. Due(A, row) = [row EXCEPT !.status = StatusBy(a)] /\ Due(B, row) = [row EXCEPT !.status = StatusBy(a)]
      BY <1>0, <3>1, <3>2, DueIs
    <3>. QED  BY <2>2, <3>3
  <2>3. CASE row.id # c.on /\ \A a \in A : a.on # row.id
    <3>1. Due(A, row) = row /\ Due(B, row) = row
      BY <2>3, DueNothing
    <3>. HIDE DEF B
    <3>. QED  BY <2>3, <3>1
  <2>. QED  BY <2>1, <2>2, <2>3
<1>2. \A i \in DOMAIN rows : rows[i] \in R
  OBVIOUS
<1>3. Marked(rows, c.on, status) = [i \in DOMAIN rows |-> Mark(rows[i])]
  BY DEF Marked
<1>. HIDE DEF Mark, B, status
<1>4. DueRows(B, Marked(rows, c.on, status)) = [i \in DOMAIN rows |-> Due(B, Mark(rows[i]))]
  BY <1>3 DEF DueRows
<1>5. \A i \in DOMAIN rows : Due(B, Mark(rows[i])) = Due(A, rows[i])
  BY <1>1, <1>2
<1>6. DueRows(B, Marked(rows, c.on, status)) = DueRows(A, rows)
  BY <1>4, <1>5 DEF DueRows
<1>. QED  BY <1>6 DEF B, status

\* A row in front of those that are changed.
LEMMA DueFront ==
    ASSUME NEW A, NEW R, NEW rows \in Seq(R), NEW r, \A c \in A : c.on # r.id
    PROVE  DueRows(A, <<r>> \o rows) = <<r>> \o DueRows(A, rows)
<1>. DEFINE f == [x \in R \cup {r} |-> Due(A, x)]
            new == <<r>> \o rows
<1>1. f[r] = r
  BY DueNothing
<1>2. \A i \in DOMAIN rows : rows[i] \in R
  OBVIOUS
<1>3. new \in Seq(R \cup {r})
  OBVIOUS
<1>4. \A i \in DOMAIN new : new[i] \in R \cup {r}
  BY <1>3
<1>. HIDE DEF new
<1>5. Mapped(f, rows) = DueRows(A, rows) /\ Mapped(f, new) = DueRows(A, new)
  BY <1>2, <1>4 DEF Mapped, DueRows
<1>. HIDE DEF f
<1>6. Mapped(f, new) = <<f[r]>> \o Mapped(f, rows)
  BY MappedFront DEF new
<1>. QED  BY <1>1, <1>5, <1>6 DEF new

LEMMA MarkedFront ==
    ASSUME NEW R, NEW rows \in Seq(R), NEW r, NEW id, NEW status, r.id # id
    PROVE  Marked(<<r>> \o rows, id, status) = <<r>> \o Marked(rows, id, status)
<1>. DEFINE f == [x \in R \cup {r} |-> IF x.id = id THEN [x EXCEPT !.status = status] ELSE x]
            new == <<r>> \o rows
<1>1. f[r] = r
  OBVIOUS
<1>2. \A i \in DOMAIN rows : rows[i] \in R
  OBVIOUS
<1>3. new \in Seq(R \cup {r})
  OBVIOUS
<1>4. \A i \in DOMAIN new : new[i] \in R \cup {r}
  BY <1>3
<1>. HIDE DEF new
<1>5. Mapped(f, rows) = Marked(rows, id, status) /\ Mapped(f, new) = Marked(new, id, status)
  BY <1>2, <1>4 DEF Mapped, Marked
<1>. HIDE DEF f
<1>6. Mapped(f, new) = <<f[r]>> \o Mapped(f, rows)
  BY MappedFront DEF new
<1>. QED  BY <1>1, <1>5, <1>6 DEF new

-----------------------------------------------------------------------------
(***************************************************************************)
(* Lists that are compared as the page's lists are: by their order, or as  *)
(* sets of as many rows.                                                   *)
(***************************************************************************)
RowSet(rows) == {rows[i] : i \in DOMAIN rows}

LEMMA SameMarked ==
    ASSUME NEW op, NEW R, NEW shown \in Seq(R), NEW S, NEW held \in Seq(S), SameRows(op, shown, held),
           NEW id, NEW status
    PROVE  SameRows(op, Marked(shown, id, status), Marked(held, id, status))
<1>1. CASE op # "listAdminModels"
  BY <1>1 DEF SameRows
<1>2. CASE op = "listAdminModels"
  <2>. DEFINE Mark(x) == IF x.id = id THEN [x EXCEPT !.status = status] ELSE x
              ms == Marked(shown, id, status)
              mh == Marked(held, id, status)
  <2>1. /\ DOMAIN shown = 1 .. Len(shown) /\ Len(shown) \in Nat
        /\ DOMAIN held = 1 .. Len(held) /\ Len(held) \in Nat
        /\ Len(shown) = Len(held) /\ RowSet(shown) = RowSet(held)
    <3>1. /\ DOMAIN shown = 1 .. Len(shown) /\ Len(shown) \in Nat
          /\ DOMAIN held = 1 .. Len(held) /\ Len(held) \in Nat
      OBVIOUS
    <3>. QED  BY <1>2, <3>1 DEF SameRows, RowSet
  <2>2. ms = [i \in DOMAIN shown |-> Mark(shown[i])] /\ mh = [i \in DOMAIN held |-> Mark(held[i])]
    BY DEF Marked
  <2>. HIDE DEF Mark, ms, mh
  <2>3. Len(ms) = Len(shown) /\ Len(mh) = Len(held)
    BY <2>1, <2>2
  <2>4. RowSet(ms) = {Mark(x) : x \in RowSet(shown)} /\ RowSet(mh) = {Mark(x) : x \in RowSet(held)}
    BY <2>2 DEF RowSet
  <2>. QED  BY <1>2, <2>1, <2>3, <2>4 DEF SameRows, RowSet, ms, mh
<1>. QED  BY <1>1, <1>2

LEMMA RowSetFront ==
    ASSUME NEW R, NEW r \in R, NEW rows \in Seq(R)
    PROVE  RowSet(<<r>> \o rows) = {r} \cup RowSet(rows) /\ Len(<<r>> \o rows) = Len(rows) + 1
<1>. DEFINE new == <<r>> \o rows
<1>1. new \in Seq(R) /\ {new[i] : i \in DOMAIN new} = {r} \cup {rows[i] : i \in DOMAIN rows}
  BY InFront
<1>2. Len(new) = Len(rows) + 1
  OBVIOUS
<1>. HIDE DEF new
<1>3. RowSet(new) = {r} \cup RowSet(rows)
  BY <1>1 DEF RowSet
<1>. QED  BY <1>2, <1>3 DEF new

LEMMA SameFront ==
    ASSUME NEW op, NEW R, NEW shown \in Seq(R), NEW held, NEW more, NEW r \in R,
           SameRows(op, shown, held),
           IF op = "listAdminModels" THEN Len(more) = Len(held) + 1 /\ RowSet(more) = {r} \cup RowSet(held)
                                     ELSE more = <<r>> \o held
    PROVE  SameRows(op, <<r>> \o shown, more)
<1>1. CASE op # "listAdminModels"
  BY <1>1 DEF SameRows
<1>2. CASE op = "listAdminModels"
  <2>. DEFINE new == <<r>> \o shown
  <2>1. RowSet(new) = {r} \cup RowSet(shown) /\ Len(new) = Len(shown) + 1
    BY RowSetFront
  <2>. HIDE DEF new
  <2>3. RowSet(shown) = RowSet(held) /\ Len(shown) = Len(held)
    BY <1>2 DEF SameRows, RowSet
  <2>4. RowSet(new) = RowSet(more) /\ Len(new) = Len(more)
    BY <1>2, <2>1, <2>3
  <2>. QED  BY <1>2, <2>4 DEF SameRows, RowSet, new
<1>. QED  BY <1>1, <1>2

-----------------------------------------------------------------------------
(***************************************************************************)
(* The promises, while nothing has gone wrong: those of the mounted page   *)
(* only, none of them failed, none of them in the way of another, and what *)
(* was read is still so.                                                   *)
(***************************************************************************)
Serene == calm /\ alone

UnderWay      == UNION {CallsOf(wire[s]) : s \in Slots}
AnsweredCalls == UNION {DOMAIN wire[s].got : s \in Slots}

SereneWire ==
    /\ \A s \in Slots : wire[s] = Idle \/ (wire[s].mine /\ ~wire[s].failed)
    /\ \A s, t \in Slots : s # t => ~Clash(CallsOf(wire[s]), CallsOf(wire[t]))
    /\ \A s \in Slots : \A c \in DOMAIN wire[s].got : c.op \in ReadOps => wire[s].got[c] = Listed(c)

LEMMA IdleHasNone == CallsOf(Idle) = {} /\ DOMAIN Idle.got = {} /\ Idle.todo = {}
BY DEF CallsOf, Idle

LEMMA PromisedHas ==
    ASSUME NEW then, NEW calls
    PROVE  /\ CallsOf(Promised(then, calls)) = calls /\ DOMAIN Promised(then, calls).got = {}
           /\ Promised(then, calls).mine /\ ~Promised(then, calls).failed
           /\ Promised(then, calls).then = then
BY DEF CallsOf, Promised

LEMMA ClashIsMutual ==
    ASSUME NEW a, NEW b, Clash(a, b)
    PROVE  Clash(b, a)
BY DEF Clash

\* A promise asks for one write, or for reads alone.
LEMMA OneWrite ==
    ASSUME DataInv, SereneWire, NEW s \in Slots, NEW c \in CallsOf(wire[s])
    PROVE  /\ wire[s].mine /\ ~wire[s].failed
           /\ \/ wire[s].then = "load" /\ CallsOf(wire[s]) = Boot(page.kind) /\ c.op \in ReadOps
              \/ wire[s].then = "keySets" /\ page.kind = "home" /\ c.op = "listAPIKeys"
                 /\ \A d \in CallsOf(wire[s]) : d.op = "listAPIKeys"
              \/ CallsOf(wire[s]) = {c} /\ <<wire[s].then, page.kind, c.op>> \in Singles
<1>1. wire[s].mine /\ ~wire[s].failed
  BY IdleHasNone DEF SereneWire
<1>2. Asks(wire[s].then, CallsOf(wire[s]), page.kind)
  BY <1>1 DEF DataInv, Data, WireOK, GoodPromise
<1>3. page.kind \in AllPages
  BY DEF DataInv, Shapes, PageShape
<1>4. \A d \in Boot(page.kind) : d.op \in ReadOps
  BY <1>3, BootReads
<1>5. CASE wire[s].then = "load" /\ CallsOf(wire[s]) = Boot(page.kind)
  BY <1>1, <1>4, <1>5
<1>6. CASE wire[s].then = "keySets" /\ page.kind = "home" /\ \A d \in CallsOf(wire[s]) : d.op = "listAPIKeys"
  BY <1>1, <1>6
<1>7. CASE \E d \in CallsOf(wire[s]) : CallsOf(wire[s]) = {d} /\ <<wire[s].then, page.kind, d.op>> \in Singles
  <2>1. PICK d \in CallsOf(wire[s]) : CallsOf(wire[s]) = {d} /\ <<wire[s].then, page.kind, d.op>> \in Singles
    BY <1>7
  <2>2. c = d
    BY <2>1
  <2>. QED  BY <1>1, <2>1, <2>2
<1>. QED  BY <1>2, <1>5, <1>6, <1>7 DEF Asks

LEMMA ReadsTogether ==
    ASSUME DataInv, SereneWire, NEW s \in Slots, NEW c \in CallsOf(wire[s]), NEW d \in CallsOf(wire[s]),
           d.op \in ReadOps
    PROVE  c.op \in ReadOps
<1>1. CASE wire[s].then = "load" /\ CallsOf(wire[s]) = Boot(page.kind)
  <2>1. page.kind \in AllPages
    BY DEF DataInv, Shapes, PageShape
  <2>. QED  BY <1>1, <2>1, BootReads
<1>2. CASE \A e \in CallsOf(wire[s]) : e.op = "listAPIKeys"
  BY <1>2 DEF ReadOps
<1>3. CASE CallsOf(wire[s]) = {d}
  BY <1>3
<1>. QED  BY <1>1, <1>2, <1>3, OneWrite

\* While a promise reads, no other asks for anything.
LEMMA ReadAlone ==
    ASSUME SereneWire, NEW s \in Slots, NEW c \in CallsOf(wire[s]), c.op \in ReadOps
    PROVE  /\ \A t \in Slots \ {s} : CallsOf(wire[t]) = {} /\ DOMAIN wire[t].got = {}
           /\ UnderWay = CallsOf(wire[s])
           /\ AnsweredCalls = DOMAIN wire[s].got
<1>1. \A t \in Slots \ {s} : CallsOf(wire[t]) = {}
  BY DEF SereneWire, Clash
<1>2. \A t \in Slots \ {s} : DOMAIN wire[t].got = {}
  BY <1>1 DEF CallsOf
<1>. QED  BY <1>1, <1>2 DEF UnderWay, AnsweredCalls

\* A call is made.
LEMMA SendWire ==
    ASSUME WireShape, Serene => SereneWire, Serene', UNCHANGED <<db, alone>>,
           NEW s \in Slots, NEW then, NEW calls, Send(s, then, calls)
    PROVE  /\ Serene /\ SereneWire'
           /\ wire'[s] = Promised(then, calls) /\ OnlyAt(s)
           /\ \A t \in Slots \ {s} : ~Clash(calls, CallsOf(wire[t]))
           /\ CallsOf(wire'[s]) = calls /\ DOMAIN wire'[s].got = {}
<1>1. calm /\ \A t \in Slots \ {s} : ~Clash(calls, CallsOf(wire[t]))
  BY DEF Serene, Send
<1>2. Serene /\ SereneWire
  BY <1>1 DEF Serene
<1>3. wire'[s] = Promised(then, calls) /\ OnlyAt(s)
  BY SendEffect
<1>4. CallsOf(wire'[s]) = calls /\ DOMAIN wire'[s].got = {} /\ wire'[s].mine /\ ~wire'[s].failed
  BY <1>3, PromisedHas
<1>5. \A c : Listed(c)' = Listed(c)
  BY ListedSame
<1>6. \A t \in Slots : wire'[t] = Idle \/ (wire'[t].mine /\ ~wire'[t].failed)
  BY <1>2, <1>3, <1>4 DEF SereneWire, OnlyAt
<1>7. ASSUME NEW t \in Slots, NEW u \in Slots, t # u
      PROVE  ~Clash(CallsOf(wire'[t]), CallsOf(wire'[u]))
  <2>1. CASE t = s
    BY <1>1, <1>3, <1>4, <1>7, <2>1 DEF OnlyAt
  <2>2. CASE u = s
    BY <1>1, <1>3, <1>4, <1>7, <2>2, ClashIsMutual DEF OnlyAt
  <2>3. CASE t # s /\ u # s
    BY <1>2, <1>3, <1>7, <2>3 DEF OnlyAt, SereneWire
  <2>. QED  BY <2>1, <2>2, <2>3
<1>8. \A t \in Slots : \A c \in DOMAIN wire'[t].got : c.op \in ReadOps => wire'[t].got[c] = Listed(c)'
  BY <1>2, <1>3, <1>4, <1>5 DEF SereneWire, OnlyAt
<1>9. SereneWire'
  BY <1>6, <1>7, <1>8 DEF SereneWire
<1>. QED  BY <1>1, <1>2, <1>3, <1>4, <1>9

\* An answer is done with.
LEMMA DoneWire ==
    ASSUME WireShape, Serene => SereneWire, Serene', NEW s \in Slots, Done(s)
    PROVE  /\ Serene /\ SereneWire'
           /\ wire'[s] = Idle /\ OnlyAt(s)
           /\ CallsOf(wire'[s]) = {} /\ DOMAIN wire'[s].got = {}
<1>1. UNCHANGED <<db, calm, alone>>
  BY DEF Done
<1>2. Serene /\ SereneWire
  BY <1>1 DEF Serene
<1>3. wire'[s] = Idle /\ OnlyAt(s)
  BY DoneEffect
<1>4. CallsOf(wire'[s]) = {} /\ DOMAIN wire'[s].got = {}
  BY <1>3, IdleHasNone
<1>5. \A c : Listed(c)' = Listed(c)
  BY <1>1, ListedSame
<1>6. \A t \in Slots : wire'[t] = Idle \/ (wire'[t].mine /\ ~wire'[t].failed)
  BY <1>2, <1>3 DEF SereneWire, OnlyAt
<1>7. ASSUME NEW t \in Slots, NEW u \in Slots, t # u
      PROVE  ~Clash(CallsOf(wire'[t]), CallsOf(wire'[u]))
  <2>1. CASE t = s \/ u = s
    BY <1>4, <2>1 DEF Clash
  <2>2. CASE t # s /\ u # s
    BY <1>2, <1>3, <1>7, <2>2 DEF OnlyAt, SereneWire
  <2>. QED  BY <2>1, <2>2
<1>8. \A t \in Slots : \A c \in DOMAIN wire'[t].got : c.op \in ReadOps => wire'[t].got[c] = Listed(c)'
  BY <1>2, <1>3, <1>4, <1>5 DEF SereneWire, OnlyAt
<1>9. SereneWire'
  BY <1>6, <1>7, <1>8 DEF SereneWire
<1>. QED  BY <1>2, <1>3, <1>4, <1>9

\* The slots after an answer has come.
Arrived(s, c, r) ==
    /\ c \in wire[s].todo /\ r \in Results(c) /\ db' = r.db
    /\ c \notin DOMAIN wire[s].got
    /\ wire'[s].got = [x \in DOMAIN wire[s].got \cup {c} |-> IF x = c THEN r.answer ELSE wire[s].got[x]]
    /\ wire'[s].todo = wire[s].todo \ {c}
    /\ wire'[s].mine = wire[s].mine /\ wire'[s].then = wire[s].then /\ wire'[s].failed = wire[s].failed
    /\ CallsOf(wire'[s]) = CallsOf(wire[s]) /\ c \in CallsOf(wire[s])
    /\ OnlyAt(s)

LEMMA AnswerArrives ==
    ASSUME DataInv, NEW s \in Slots, Answered(s)
    PROVE  \E c, r : Arrived(s, c, r)
<1>. USE DEF DataInv, Shapes, Data
<1>1. PICK c \in wire[s].todo : \E r \in Results(c) :
          /\ db' = r.db
          /\ wire' = [wire EXCEPT
                      ![s].todo = @ \ {c},
                      ![s].got = [x \in DOMAIN @ \cup {c} |-> IF x = c THEN r.answer ELSE @[x]]]
  BY DEF Answered
<1>2. PICK r \in Results(c) :
          /\ db' = r.db
          /\ wire' = [wire EXCEPT
                      ![s].todo = @ \ {c},
                      ![s].got = [x \in DOMAIN @ \cup {c} |-> IF x = c THEN r.answer ELSE @[x]]]
  BY <1>1
<1>. DEFINE todo == wire[s].todo \ {c}
            got  == [x \in DOMAIN wire[s].got \cup {c} |-> IF x = c THEN r.answer ELSE wire[s].got[x]]
<1>3. wire' = [wire EXCEPT ![s] = [wire[s] EXCEPT !.todo = todo, !.got = got]]
  BY <1>2 DEF WireShape
<1>4. wire'[s] = [wire[s] EXCEPT !.todo = todo, !.got = got] /\ OnlyAt(s)
  BY <1>3 DEF WireShape, OnlyAt
<1>5. wire'[s] = [then |-> wire[s].then, todo |-> todo, got |-> got,
                  failed |-> wire[s].failed, mine |-> wire[s].mine]
  <2>1. Shaped(wire[s])
    BY DEF WireShape, Shaped
  <2>. HIDE DEF todo, got
  <2>. QED  BY <1>4, <2>1 DEF Shaped
<1>6. wire'[s].mine = wire[s].mine /\ wire'[s].then = wire[s].then /\ wire'[s].failed = wire[s].failed
      /\ wire'[s].todo = todo /\ wire'[s].got = got
  <2>. HIDE DEF todo, got
  <2>. QED  BY <1>5
<1>7. DOMAIN got = DOMAIN wire[s].got \cup {c}
  OBVIOUS
<1>8. CallsOf(wire'[s]) = CallsOf(wire[s]) /\ c \in CallsOf(wire[s])
  BY <1>6, <1>7 DEF CallsOf
<1>9. c \notin DOMAIN wire[s].got
  BY DEF WireOK, GoodPromise
<1>. QED  BY <1>2, <1>4, <1>6, <1>8, <1>9 DEF Arrived

LEMMA ReadAnswer ==
    ASSUME NEW c, c.op \in ReadOps, NEW r \in Results(c)
    PROVE  r.db = db /\ r.answer = Listed(c)
BY DEF Results

LEMMA ArrivedWire ==
    ASSUME DataInv, SereneWire, NEW s \in Slots, NEW c, NEW r, Arrived(s, c, r)
    PROVE  SereneWire'
<1>1. \A t \in Slots : CallsOf(wire'[t]) = CallsOf(wire[t])
  BY DEF Arrived, OnlyAt
<1>2. c \in CallsOf(wire[s]) /\ wire[s].mine /\ ~wire[s].failed
  BY OneWrite DEF Arrived
<1>3. \A t \in Slots : wire'[t] = Idle \/ (wire'[t].mine /\ ~wire'[t].failed)
  BY <1>2 DEF SereneWire, Arrived, OnlyAt
<1>4. \A t, u \in Slots : t # u => ~Clash(CallsOf(wire'[t]), CallsOf(wire'[u]))
  BY <1>1 DEF SereneWire
<1>5. ASSUME NEW t \in Slots, NEW d \in DOMAIN wire'[t].got, d.op \in ReadOps
      PROVE  wire'[t].got[d] = Listed(d)'
  <2>1. d \in CallsOf(wire[t])
    BY <1>1, <1>5 DEF CallsOf
  <2>2. c.op \in ReadOps
    <3>1. CASE t = s
      BY <1>2, <1>5, <2>1, <3>1, ReadsTogether
    <3>2. CASE t # s
      BY <1>2, <1>5, <2>1, <3>2 DEF SereneWire, Clash
    <3>. QED  BY <3>1, <3>2
  <2>3. r.db = db /\ r.answer = Listed(c)
    BY <2>2, ReadAnswer DEF Arrived
  <2>4. Listed(d)' = Listed(d)
    BY <2>3, ListedSame DEF Arrived
  <2>5. CASE d \in DOMAIN wire[t].got
    BY <1>5, <2>4, <2>5 DEF SereneWire, Arrived, OnlyAt
  <2>6. CASE d \notin DOMAIN wire[t].got
    BY <1>5, <2>3, <2>4, <2>6 DEF Arrived, OnlyAt
  <2>. QED  BY <2>5, <2>6
<1>. QED  BY <1>3, <1>4, <1>5 DEF SereneWire

-----------------------------------------------------------------------------
(***************************************************************************)
(* The invariant.  On the pages with a form, the list of the server is the *)
(* one on the screen with the answers that have come but are not handled   *)
(* yet: a row that was made in front, and the changes of others.  In the   *)
(* queue of advertisements, it is what has not been judged of the one on   *)
(* the screen.  Every other list is either asked for or what the server    *)
(* holds.                                                                  *)
(***************************************************************************)
ChangeOps == {"revokeAPIKey", "updateAdminModel", "pauseAdminModel"}
MakeOps   == {"createProject", "createAPIKey", "createProvider", "createAdminModel"}
JudgeOps  == {"approveProviderModel", "rejectProviderModel"}

Changes == {c \in AnsweredCalls : c.op \in ChangeOps}
JudgedIds == {c.on : c \in {d \in AnsweredCalls : d.op \in JudgeOps}}

FormKinds == {"keys", "projects", "nodes", "catalogue"}

FormList(kind) ==
    CASE kind = "keys"     -> "listAPIKeys"
      [] kind = "projects" -> "listProjects"
      [] kind = "nodes"    -> "listProviders"
      [] OTHER             -> "listAdminModels"

FormTable(kind) ==
    CASE kind = "keys"     -> "keys"
      [] kind = "projects" -> "projects"
      [] kind = "nodes"    -> "providers"
      [] OTHER             -> "models"

FitsForm(c) ==
    LET rows == DueRows(Changes, page.list[c.op])
    IN  /\ \A s \in Slots : \A d \in DOMAIN wire[s].got :
              d.op \in MakeOps => SameRows(c.op, <<wire[s].got[d]>> \o rows, Listed(c))
        /\ (\A d \in AnsweredCalls : d.op \notin MakeOps) => SameRows(c.op, rows, Listed(c))

FitsQueue(c) ==
    Listed(c) = Kept(page.list[c.op], {r \in RowSet(page.list[c.op]) : r.id \notin JudgedIds})

IsFormList(c) == page.kind \in FormKinds /\ c.op = FormList(page.kind)

Fits(c) ==
    /\ IsFormList(c) => FitsForm(c)
    /\ page.kind = "adQueue" => FitsQueue(c)
    /\ ~IsFormList(c) /\ page.kind # "adQueue" => page.list[c.op] = Listed(c)

\* What is asked for is what is shown, and a key is made in the chosen project.
ReadsShown ==
    /\ \A s \in Slots : wire[s].then # "keySets" =>
            \A c \in CallsOf(wire[s]) : c.op \in ReadOps => c \in ShownLists
    /\ \A c \in UnderWay : c.op = "createAPIKey" => c.on = page.project

\* The review page loads both its lists again after each of its calls.
Reviewing == page.kind = "review" /\ \E s \in Slots : wire[s] # Idle

ListsFit == \A c \in ShownLists : c \in UnderWay \/ Reviewing \/ Fits(c)

\* The rows the page can name: a row that was made and is not there yet is not
\* one of them.
Named ==
    Ids(page.list[FormList(page.kind)])
        \cup ({page.editing} \ {None})
        \cup {c.on : c \in {d \in UnderWay : d.op \in ChangeOps}}

KnownIds == Ids(db[FormTable(page.kind)])

NamesKnown ==
    page.kind \in FormKinds =>
        /\ Named \subseteq KnownIds
        /\ \A s \in Slots : \A d \in DOMAIN wire[s].got :
              d.op \in MakeOps => wire[s].got[d].id \in KnownIds \ Named

Reload    == SereneWire /\ ReadsShown /\ ListsFit /\ NamesKnown
ReloadInv == DataInv /\ Flags /\ (Serene => Reload)

-----------------------------------------------------------------------------
(***************************************************************************)
(* What keeps a list fitting.                                              *)
(***************************************************************************)

\* The answers to writes are those that were there before.
WritesSame ==
    \A t \in Slots : \A d : d.op \notin ReadOps =>
        /\ d \in DOMAIN wire'[t].got <=> d \in DOMAIN wire[t].got
        /\ d \in DOMAIN wire[t].got => wire'[t].got[d] = wire[t].got[d]

LEMMA OpsApart ==
    /\ ChangeOps \cap ReadOps = {} /\ MakeOps \cap ReadOps = {} /\ JudgeOps \cap ReadOps = {}
    /\ ChangeOps \cap MakeOps = {} /\ "adjustAdminWallet" \notin ReadOps
    /\ {"approveProvider", "rejectProvider", "disableProvider"} \cap ReadOps = {}
BY DEF ChangeOps, MakeOps, JudgeOps, ReadOps

LEMMA WritesAnswered ==
    ASSUME WritesSame
    PROVE  /\ Changes' = Changes /\ JudgedIds' = JudgedIds
           /\ (\A d \in AnsweredCalls : d.op \notin MakeOps)' <=> (\A d \in AnsweredCalls : d.op \notin MakeOps)
<1>1. \A d : d.op \notin ReadOps => (d \in AnsweredCalls' <=> d \in AnsweredCalls)
  BY DEF WritesSame, AnsweredCalls
<1>. QED  BY <1>1, OpsApart DEF Changes, JudgedIds

LEMMA FitsSame ==
    ASSUME WritesSame, db' = db, page'.kind = page.kind, NEW c, page'.list[c.op] = page.list[c.op], Fits(c)
    PROVE  Fits(c)'
<1>1. Listed(c)' = Listed(c)
  BY ListedSame
<1>2. /\ Changes' = Changes /\ JudgedIds' = JudgedIds
      /\ (\A d \in AnsweredCalls : d.op \notin MakeOps)' <=> (\A d \in AnsweredCalls : d.op \notin MakeOps)
  BY WritesAnswered
<1>3. IsFormList(c)' <=> IsFormList(c)
  BY DEF IsFormList
<1>4. FitsForm(c) => FitsForm(c)'
  <2>. SUFFICES ASSUME FitsForm(c) PROVE FitsForm(c)'
    OBVIOUS
  <2>. DEFINE rows == DueRows(Changes, page.list[c.op])
  <2>1. DueRows(Changes', page'.list[c.op]) = rows
    BY <1>2
  <2>. HIDE DEF rows
  <2>2. ASSUME NEW t \in Slots, NEW d \in DOMAIN wire'[t].got, d.op \in MakeOps
        PROVE  SameRows(c.op, <<wire'[t].got[d]>> \o rows, Listed(c))
    <3>1. d \in DOMAIN wire[t].got /\ wire'[t].got[d] = wire[t].got[d]
      BY <2>2, OpsApart DEF WritesSame
    <3>. QED  BY <2>2, <3>1 DEF FitsForm, rows
  <2>3. (\A d \in AnsweredCalls' : d.op \notin MakeOps) => SameRows(c.op, rows, Listed(c))
    BY <1>2 DEF FitsForm, rows
  <2>. QED  BY <1>1, <2>1, <2>2, <2>3 DEF FitsForm
<1>5. FitsQueue(c) => FitsQueue(c)'
  BY <1>1, <1>2 DEF FitsQueue
<1>. QED  BY <1>1, <1>3, <1>4, <1>5 DEF Fits

\* The list of a page with a form.
FormRow(kind) ==
    CASE kind = "keys"     -> KeyRow
      [] kind = "projects" -> ProjectRow
      [] kind = "nodes"    -> ProviderRow
      [] OTHER             -> ModelRow

LEMMA FormListTyped ==
    ASSUME DataInv, page.kind \in FormKinds
    PROVE  /\ FormList(page.kind) \in ReadOps
           /\ page.list[FormList(page.kind)] \in Seq(FormRow(page.kind))
           /\ db[FormTable(page.kind)] \in Seq(FormRow(page.kind))
           /\ Tabular(FormRow(page.kind))
<1>1. /\ db["projects"] \in Seq(ProjectRow) /\ db["keys"] \in Seq(KeyRow)
      /\ db["providers"] \in Seq(ProviderRow) /\ db["models"] \in Seq(ModelRow)
  BY DEF DataInv, Data, Tables
<1>2. \A op \in ReadOps : page.list[op] \in Seq(RowsOf(op))
  BY DEF DataInv, Data, PageTyped, ListsTyped
<1>3. CASE page.kind = "keys"
  BY <1>1, <1>2, <1>3, RowsAreTabular DEF FormList, FormTable, FormRow, ReadOps, RowsOf
<1>4. CASE page.kind = "projects"
  BY <1>1, <1>2, <1>4, RowsAreTabular DEF FormList, FormTable, FormRow, ReadOps, RowsOf
<1>5. CASE page.kind = "nodes"
  BY <1>1, <1>2, <1>5, RowsAreTabular DEF FormList, FormTable, FormRow, ReadOps, RowsOf
<1>6. CASE page.kind = "catalogue"
  BY <1>1, <1>2, <1>6, RowsAreTabular DEF FormList, FormTable, FormRow, ReadOps, RowsOf
<1>. QED  BY <1>3, <1>4, <1>5, <1>6 DEF FormKinds

LEMMA SameIsSame ==
    ASSUME NEW op, NEW rows
    PROVE  SameRows(op, rows, rows)
BY DEF SameRows

\* Without answers to writes, a list fits when it is what the server holds.
LEMMA FitsPlain ==
    DataInv /\ (\A d \in AnsweredCalls : d.op \in ReadOps)
        => \A c : c.op \in ReadOps /\ page.list[c.op] = Listed(c) => Fits(c)
<1>. SUFFICES ASSUME DataInv, \A d \in AnsweredCalls : d.op \in ReadOps,
                     NEW c, c.op \in ReadOps, page.list[c.op] = Listed(c)
              PROVE  Fits(c)
  OBVIOUS
<1>1. Changes = {} /\ JudgedIds = {} /\ \A s \in Slots : \A d \in DOMAIN wire[s].got : d.op \notin MakeOps
  BY OpsApart DEF Changes, JudgedIds, AnsweredCalls
<1>2. page.list[c.op] \in Seq(RowsOf(c.op))
  BY DEF DataInv, Data, PageTyped, ListsTyped
<1>3. FitsForm(c)
  <2>1. DueRows(Changes, page.list[c.op]) = page.list[c.op]
    BY <1>1, <1>2, NoneDue
  <2>. QED  BY <1>1, <2>1, SameIsSame DEF FitsForm
<1>4. FitsQueue(c)
  <2>. DEFINE L == page.list[c.op]
              T == {r \in RowSet(L) : r.id \notin JudgedIds}
  <2>1. \A i \in DOMAIN L : L[i] \in T
    BY <1>1 DEF RowSet
  <2>. HIDE DEF T
  <2>2. Kept(L, T) = L
    BY <1>2, <2>1, KeptAll
  <2>. QED  BY <2>2 DEF FitsQueue, T
<1>. QED  BY <1>3, <1>4 DEF Fits

LEMMA FitsPlainThen ==
    (DataInv /\ (\A d \in AnsweredCalls : d.op \in ReadOps)
        => \A c : c.op \in ReadOps /\ page.list[c.op] = Listed(c) => Fits(c))'
BY FitsPlain, PTL

\* What is shown, by the project that is chosen.
LEMMA ShownAre ==
    ASSUME DataInv
    PROVE  /\ Boot(page.kind) \subseteq ShownLists \/ page.kind = "usage"
           /\ \A c \in ShownLists : c.op \in ReadOps
           /\ \A c, d \in ShownLists : c.op = d.op => c = d
<1>1. page.kind \in AllPages
  BY DEF DataInv, Shapes, PageShape
<1>2. \A c \in Boot(page.kind) : c = Read(c.op) /\ c.op \in ReadOps
  BY <1>1, BootReads
<1>3. CASE page.kind = "usage"
  BY <1>3 DEF ShownLists, Read, Call, ReadOps
<1>4. CASE page.kind = "keys" /\ page.project # None
  BY <1>4 DEF ShownLists, Boot, KeysLoads, Read, Call, ReadOps
<1>5. CASE page.kind # "usage" /\ ~(page.kind = "keys" /\ page.project # None)
  BY <1>2, <1>5 DEF ShownLists
<1>. QED  BY <1>3, <1>4, <1>5

LEMMA ShownSame ==
    ASSUME page'.kind = page.kind, page'.project = page.project
    PROVE  ShownLists' = ShownLists
BY DEF ShownLists

-----------------------------------------------------------------------------
(***************************************************************************)
(* The user makes a call.                                                  *)
(***************************************************************************)

\* What a page asks for when it makes calls: lists it shows, keys for the project
\* that is chosen, and changes of rows it can name.
Proper(calls) ==
    /\ \A c \in calls : c.op \in ReadOps => c \in ShownLists'
    /\ \A c \in calls : c.op = "createAPIKey" => c.on = page'.project
    /\ \A c \in calls : c.op \in ChangeOps => c.on \in Named
    /\ ShownLists' \subseteq ShownLists \cup calls
    /\ page'.project = page.project \/ \E c \in calls : c.op \in ReadOps

LEMMA CallMade ==
    ASSUME ReloadInv, Serene', UNCHANGED <<db, alone>>,
           NEW s \in Slots, Fresh(s), NEW then, NEW calls, Send(s, then, calls), Proper(calls),
           page'.kind = page.kind, page'.list = page.list, page'.editing = page.editing
    PROVE  Reload'
<1>1. WireShape /\ (Serene => SereneWire)
  BY DEF ReloadInv, DataInv, Shapes, Reload
<1>2. /\ Serene /\ SereneWire'
      /\ wire'[s] = Promised(then, calls) /\ OnlyAt(s)
      /\ \A t \in Slots \ {s} : ~Clash(calls, CallsOf(wire[t]))
      /\ CallsOf(wire'[s]) = calls /\ DOMAIN wire'[s].got = {}
  BY <1>1, SendWire
<1>3. DataInv /\ Reload
  BY <1>2 DEF ReloadInv
<1>4. wire[s] = Idle /\ CallsOf(wire[s]) = {} /\ DOMAIN wire[s].got = {}
  BY IdleHasNone DEF Fresh
<1>5. WritesSame
  BY <1>2, <1>4 DEF WritesSame, OnlyAt
<1>6. UnderWay' = UnderWay \cup calls
  BY <1>2, <1>4 DEF UnderWay, OnlyAt
<1>7. ShownLists' = ShownLists \/ \A t \in Slots \ {s} : CallsOf(wire[t]) = {}
  BY <1>2, ShownSame DEF Proper, Clash
<1>8. ReadsShown'
  <2>1. ASSUME NEW t \in Slots, wire'[t].then # "keySets", NEW c \in CallsOf(wire'[t]), c.op \in ReadOps
        PROVE  c \in ShownLists'
    <3>1. CASE t = s
      BY <1>2, <2>1, <3>1 DEF Proper
    <3>2. CASE t # s
      <4>1. wire'[t] = wire[t]
        BY <1>2, <3>2 DEF OnlyAt
      <4>2. c \in ShownLists
        BY <1>3, <2>1, <4>1 DEF Reload, ReadsShown
      <4>. QED  BY <1>7, <2>1, <3>2, <4>1, <4>2
    <3>. QED  BY <3>1, <3>2
  <2>2. ASSUME NEW c \in UnderWay', c.op = "createAPIKey"
        PROVE  c.on = page'.project
    <3>1. CASE c \in calls
      BY <2>2, <3>1 DEF Proper
    <3>2. CASE c \notin calls
      <4>1. PICK t \in Slots : c \in CallsOf(wire[t])
        BY <1>6, <3>2 DEF UnderWay
      <4>2. page'.project = page.project
        BY <1>2, <1>4, <4>1 DEF Proper, Clash
      <4>. QED  BY <1>3, <2>2, <4>1, <4>2 DEF Reload, ReadsShown, UnderWay
    <3>. QED  BY <3>1, <3>2
  <2>. QED  BY <2>1, <2>2 DEF ReadsShown
<1>9. ListsFit'
  <2>. SUFFICES ASSUME NEW c \in ShownLists' PROVE c \in UnderWay' \/ Reviewing' \/ Fits(c)'
    BY DEF ListsFit
  <2>1. CASE c \in calls \/ c \in UnderWay
    BY <1>6, <2>1
  <2>2. CASE Reviewing
    <3>1. wire'[s] # Idle
      BY <1>2, PromisedHas DEF Idle
    <3>. QED  BY <2>2, <3>1 DEF Reviewing
  <2>3. CASE Fits(c)
    BY <1>5, <2>3, FitsSame
  <2>. QED  BY <1>3, <2>1, <2>2, <2>3 DEF Proper, Reload, ListsFit
<1>10. NamesKnown'
  <2>1. Named' \subseteq Named
    BY <1>6 DEF Named, Proper
  <2>2. KnownIds' = KnownIds
    BY DEF KnownIds
  <2>. SUFFICES ASSUME page.kind \in FormKinds PROVE
          /\ Named' \subseteq KnownIds'
          /\ \A t \in Slots : \A d \in DOMAIN wire'[t].got :
                d.op \in MakeOps => wire'[t].got[d].id \in KnownIds' \ Named'
    BY DEF NamesKnown
  <2>3. ASSUME NEW t \in Slots, NEW d \in DOMAIN wire'[t].got, d.op \in MakeOps
        PROVE  wire'[t].got[d].id \in KnownIds \ Named
    <3>1. d \in DOMAIN wire[t].got /\ wire'[t].got[d] = wire[t].got[d]
      BY <1>5, <2>3, OpsApart DEF WritesSame
    <3>. QED  BY <1>3, <2>3, <3>1 DEF Reload, NamesKnown
  <2>. QED  BY <1>3, <2>1, <2>2, <2>3 DEF Reload, NamesKnown
<1>. QED  BY <1>2, <1>8, <1>9, <1>10 DEF Reload

\* The calls of the user, by what they are.
LEMMA ActsCall ==
    ASSUME DataInv, DataInv', NEW s \in Slots, Acts(s)
    PROVE  /\ page'.kind = page.kind /\ page'.list = page.list /\ page'.editing = page.editing
           /\ \E then, calls : Send(s, then, calls) /\ Proper(calls)
<1>. USE DEF DataInv, Shapes, PageShape, Proper
<1>1. ASSUME page'.kind = page.kind, page'.project = page.project
      PROVE  ShownLists' = ShownLists
  BY <1>1, ShownSame
<1>2. ASSUME NEW op \in {"listUsage", "listAPIKeys"}, NEW p
      PROVE  /\ Call(op, p, None).op \in ReadOps /\ Call(op, p, None).op # "createAPIKey"
             /\ Call(op, p, None).op \notin ChangeOps
  BY DEF Call, ReadOps, ChangeOps
<1>3. CASE \E p \in Projects \cup {None} : Filter(s, p)
  <2>1. PICK p \in Projects \cup {None} : Filter(s, p)
    BY <1>3
  <2>. DEFINE calls == {Call("listUsage", p, None)}
  <2>2. /\ page.kind = "usage" /\ page'.kind = page.kind /\ page'.list = page.list
        /\ page'.editing = page.editing /\ page'.project = p /\ Send(s, "filter", calls)
    BY <2>1 DEF Filter
  <2>3. ShownLists' = {Read("listProjects")} \cup calls /\ Read("listProjects") \in ShownLists
    BY <2>2 DEF ShownLists
  <2>4. Proper(calls)
    BY <1>2, <2>2, <2>3
  <2>. QED  BY <2>2, <2>4
<1>4. CASE \E p \in Projects : ChooseProject(s, p)
  <2>1. PICK p \in Projects : ChooseProject(s, p)
    BY <1>4
  <2>. DEFINE calls == {Call("listAPIKeys", p, None)}
  <2>2. /\ page.kind = "keys" /\ page'.kind = page.kind /\ page'.list = page.list
        /\ page'.editing = page.editing /\ page'.project = p /\ Send(s, "keys", calls)
    BY <2>1 DEF ChooseProject, LoadKeys
  <2>3. p # None
    BY ClientAssumption DEF ClientAssumption
  <2>4. ShownLists' = KeysLoads \cup calls /\ KeysLoads \subseteq ShownLists
    BY <2>2, <2>3 DEF ShownLists, Boot
  <2>5. Proper(calls)
    BY <1>2, <2>2, <2>4
  <2>. QED  BY <2>2, <2>5
<1>5. CASE SubmitKey(s)
  <2>. DEFINE calls == {Call("createAPIKey", page.project, None)}
  <2>1. /\ page'.kind = page.kind /\ page'.list = page.list /\ page'.editing = page.editing
        /\ page'.project = page.project /\ Send(s, "createKey", calls)
    BY <1>5 DEF SubmitKey
  <2>2. Proper(calls)
    BY <1>1, <2>1 DEF Call, ReadOps, ChangeOps
  <2>. QED  BY <2>1, <2>2
<1>6. CASE Revoke(s)
  <2>1. PICK k \in Revocable : Send(s, "revoke", {Call("revokeAPIKey", k.id, page.project)})
    BY <1>6 DEF Revoke
  <2>2. /\ page.kind = "keys" /\ page'.kind = page.kind /\ page'.list = page.list
        /\ page'.editing = page.editing /\ page'.project = page.project
    BY <1>6 DEF Revoke
  <2>3. k.id \in Named
    BY <2>2 DEF Revocable, Named, Ids, FormList
  <2>4. Proper({Call("revokeAPIKey", k.id, page.project)})
    BY <1>1, <2>2, <2>3 DEF Call, ReadOps, ChangeOps
  <2>. QED  BY <2>1, <2>2, <2>4
<1>7. ASSUME NEW then, NEW call, Submitted(s, then, call), call.op \notin ReadOps \cup ChangeOps \cup {"createAPIKey"}
      PROVE  /\ page'.kind = page.kind /\ page'.list = page.list /\ page'.editing = page.editing
             /\ Send(s, then, {call}) /\ Proper({call})
  <2>1. /\ page'.kind = page.kind /\ page'.list = page.list /\ page'.editing = page.editing
        /\ page'.project = page.project /\ Send(s, then, {call})
    BY <1>7 DEF Submitted
  <2>2. Proper({call})
    BY <1>1, <1>7, <2>1
  <2>. QED  BY <2>1, <2>2
<1>8. CASE SubmitProject(s) \/ SubmitNode(s) \/ SubmitModel(s) \/ SubmitAdjustment(s)
  <2>1. \E then, call : Submitted(s, then, call)
                        /\ call.op \in {"createProject", "createProvider", "createAdminModel", "adjustAdminWallet"}
    <3>1. \A op, on, to : Call(op, on, to).op = op
      BY DEF Call
    <3>2. CASE SubmitProject(s)
      BY <3>1, <3>2 DEF SubmitProject
    <3>3. CASE SubmitNode(s)
      BY <3>1, <3>3 DEF SubmitNode
    <3>4. CASE SubmitModel(s)
      BY <3>1, <3>4 DEF SubmitModel
    <3>5. CASE SubmitAdjustment(s)
      BY <3>1, <3>5 DEF SubmitAdjustment
    <3>. QED  BY <1>8, <3>2, <3>3, <3>4, <3>5
  <2>2. PICK then, call : Submitted(s, then, call)
                          /\ call.op \in {"createProject", "createProvider", "createAdminModel", "adjustAdminWallet"}
    BY <2>1
  <2>3. call.op \notin ReadOps \cup ChangeOps \cup {"createAPIKey"}
    BY <2>2 DEF ReadOps, ChangeOps
  <2>4. /\ page'.kind = page.kind /\ page'.list = page.list /\ page'.editing = page.editing
        /\ Send(s, then, {call}) /\ Proper({call})
    BY <1>7, <2>2, <2>3
  <2>. QED  BY <2>4
<1>9. CASE \E status \in ModelStatuses : SaveStatus(s, status)
  <2>1. PICK status \in ModelStatuses : SaveStatus(s, status)
    BY <1>9
  <2>. DEFINE calls == {Call("updateAdminModel", page.editing, status)}
  <2>2. /\ page'.kind = page.kind /\ page'.list = page.list /\ page'.editing = page.editing
        /\ page'.project = page.project /\ Send(s, "status", calls) /\ page.editing # None
    BY <2>1 DEF SaveStatus
  <2>3. Proper(calls)
    BY <1>1, <2>2 DEF Call, ReadOps, ChangeOps, Named
  <2>. QED  BY <2>2, <2>3
<1>10. CASE Pause(s)
  <2>1. PICK m \in Pausable : Send(s, "pause", {Call("pauseAdminModel", m.id, None)})
    BY <1>10 DEF Pause
  <2>2. /\ page.kind = "catalogue" /\ page'.kind = page.kind /\ page'.list = page.list
        /\ page'.editing = page.editing /\ page'.project = page.project
    BY <1>10 DEF Pause
  <2>3. m.id \in Named
    BY <2>2 DEF Pausable, Named, Ids, FormList
  <2>4. Proper({Call("pauseAdminModel", m.id, None)})
    BY <1>1, <2>2, <2>3 DEF Call, ReadOps, ChangeOps
  <2>. QED  BY <2>1, <2>2, <2>4
<1>11. CASE Judge(s) \/ JudgeAd(s)
  <2>. DEFINE ops == JudgeOps \cup {"approveProvider", "rejectProvider", "disableProvider"}
  <2>0. \A c \in ReviewButtons \cup AdButtons : c.op \in ops
    <3>1. \A c \in AdButtons : c.op \in JudgeOps
      BY DEF AdButtons, Call, JudgeOps
    <3>2. \A c \in ProviderButtons : c.op \in {"approveProvider", "rejectProvider", "disableProvider"}
      BY DEF ProviderButtons, Call
    <3>. QED  BY <3>1, <3>2 DEF ReviewButtons
  <2>1. PICK then, c : Send(s, then, {c}) /\ c.op \in ops
    <3>. HIDE DEF ops
    <3>. QED  BY <1>11, <2>0 DEF Judge, JudgeAd
  <2>2. /\ page'.kind = page.kind /\ page'.list = page.list
        /\ page'.editing = page.editing /\ page'.project = page.project
    BY <1>11 DEF Judge, JudgeAd
  <2>3. c.op \notin ReadOps \cup ChangeOps \cup {"createAPIKey"}
    BY <2>1 DEF ReadOps, ChangeOps, JudgeOps
  <2>4. Proper({c})
    BY <1>1, <2>2, <2>3
  <2>. QED  BY <2>1, <2>2, <2>4
<1>. QED
  BY <1>3, <1>4, <1>5, <1>6, <1>8, <1>9, <1>10, <1>11 DEF Acts

LEMMA ActsReload ==
    ASSUME ReloadInv, DataInv', NEW s \in Slots, Acts(s), Serene'
    PROVE  Reload'
<1>1. Fresh(s) /\ UNCHANGED <<db, alone>>
  BY ActsSend
<1>2. page'.kind = page.kind /\ page'.list = page.list /\ page'.editing = page.editing
  BY ActsCall DEF ReloadInv
<1>3. PICK then, calls : Send(s, then, calls) /\ Proper(calls)
  BY ActsCall DEF ReloadInv
<1>. QED  BY <1>1, <1>2, <1>3, CallMade

-----------------------------------------------------------------------------
\* The other clicks, and what others do.
LEMMA ClicksReload ==
    ASSUME ReloadInv, Clicks \/ Elsewhere(Others) \/ UNCHANGED vars, Serene'
    PROVE  Reload'
<1>1. ~Elsewhere(Others)
  BY DEF Elsewhere, Serene
<1>2. UNCHANGED <<db, wire, calm, alone>>
  BY <1>1 DEF Clicks, SubmitInvalid, ShowNodeForm, EditModel, Tick, DismissAdjustment, TurnTo,
              JudgeDismissed, vars
<1>3. DataInv /\ Reload
  BY <1>2 DEF ReloadInv, Serene
<1>4. page'.kind = page.kind /\ page'.list = page.list /\ page'.project = page.project
  BY <1>1, <1>3 DEF Clicks, SubmitInvalid, ShowNodeForm, EditModel, Tick, DismissAdjustment, TurnTo,
              JudgeDismissed, vars, DataInv, Shapes, PageShape
<1>5. page'.editing = page.editing \/ (page.kind = "catalogue" /\ page'.editing \in Named)
  BY <1>1, <1>3 DEF Clicks, SubmitInvalid, ShowNodeForm, EditModel, Tick, DismissAdjustment, TurnTo,
              JudgeDismissed, vars, DataInv, Shapes, PageShape, Named, Ids, FormList
<1>6. WritesSame /\ UnderWay' = UnderWay /\ ShownLists' = ShownLists /\ KnownIds' = KnownIds
  BY <1>2, <1>4, ShownSame DEF WritesSame, UnderWay, KnownIds
<1>7. SereneWire'
  <2>1. \A c : Listed(c)' = Listed(c)
    BY <1>2, ListedSame
  <2>. QED  BY <1>2, <1>3, <2>1 DEF Reload, SereneWire
<1>8. ReadsShown'
  BY <1>2, <1>3, <1>4, <1>6 DEF Reload, ReadsShown
<1>9. ListsFit'
  <2>1. \A c : Fits(c) => Fits(c)'
    BY <1>2, <1>4, <1>6, FitsSame
  <2>2. Reviewing' <=> Reviewing
    BY <1>2, <1>4 DEF Reviewing
  <2>. QED  BY <1>3, <1>6, <2>1, <2>2 DEF Reload, ListsFit
<1>10. NamesKnown'
  <2>1. Named' \subseteq Named
    BY <1>4, <1>5, <1>6 DEF Named
  <2>. QED  BY <1>2, <1>3, <1>4, <1>6, <2>1 DEF Reload, NamesKnown
<1>. QED  BY <1>7, <1>8, <1>9, <1>10 DEF Reload

-----------------------------------------------------------------------------
(***************************************************************************)
(* A load comes back, and the page asks for what depends on it, or for     *)
(* nothing more.                                                           *)
(***************************************************************************)

\* What a load has brought is what the server holds.
LEMMA FilledHeld ==
    ASSUME DataInv, SereneWire, NEW s \in Slots, Fulfilled(s, "load")
    PROVE  /\ DOMAIN wire[s].got = Boot(page.kind) /\ CallsOf(wire[s]) = Boot(page.kind)
           /\ \A c \in Boot(page.kind) : c.op \in ReadOps /\ Filled(s)[c.op] = Listed(c)
           /\ \A op \in ReadOps : (\A c \in Boot(page.kind) : c.op # op) => Filled(s)[op] = page.list[op]
<1>1. DOMAIN wire[s].got = Boot(page.kind) /\ page.kind \in AllPages /\ wire[s].todo = {}
  BY TheAnswers DEF DataInv, Data, Shapes, PageShape, Fulfilled
<1>2. ASSUME NEW c \in Boot(page.kind)
      PROVE  c.op \in ReadOps /\ Filled(s)[c.op] = Listed(c)
  <2>. DEFINE d == CHOOSE d \in DOMAIN wire[s].got : d.op = c.op
  <2>1. d \in DOMAIN wire[s].got /\ d.op = c.op
    BY <1>1
  <2>. HIDE DEF d
  <2>2. d = c /\ c.op \in ReadOps
    BY <1>1, <2>1, BootReads
  <2>3. Filled(s)[c.op] = wire[s].got[c]
    BY <1>1, <2>2 DEF Filled, Got, d
  <2>. QED  BY <1>1, <2>2, <2>3 DEF SereneWire
<1>3. CallsOf(wire[s]) = Boot(page.kind)
  BY <1>1 DEF CallsOf
<1>. QED  BY <1>1, <1>2, <1>3 DEF Filled

\* While a load is under way, the page shows what it asks for, or else what was
\* loaded already.
LEMMA Loaded ==
    ASSUME ReloadInv, Reload, DataInv', SereneWire', UNCHANGED db,
           NEW s \in Slots, Fulfilled(s, "load"), Boot(page.kind) # {}, OnlyAt(s),
           NEW calls, CallsOf(wire'[s]) = calls, DOMAIN wire'[s].got = {},
           \A c \in calls : c.op \in ReadOps,
           wire'[s].then = "keySets" \/ calls \subseteq ShownLists',
           ShownLists' \subseteq ShownLists \cup calls,
           page'.kind = page.kind, page'.list = Filled(s), page'.editing = page.editing
    PROVE  Reload'
<1>. USE DEF ReloadInv
<1>1. /\ DOMAIN wire[s].got = Boot(page.kind) /\ CallsOf(wire[s]) = Boot(page.kind)
      /\ \A c \in Boot(page.kind) : c.op \in ReadOps /\ Filled(s)[c.op] = Listed(c)
      /\ \A op \in ReadOps : (\A c \in Boot(page.kind) : c.op # op) => Filled(s)[op] = page.list[op]
  BY FilledHeld DEF Reload
<1>2. Boot(page.kind) # {}
  OBVIOUS
<1>3. /\ \A t \in Slots \ {s} : CallsOf(wire[t]) = {} /\ DOMAIN wire[t].got = {}
      /\ UnderWay = Boot(page.kind)
  BY <1>1, <1>2, ReadAlone DEF Reload
<1>4. /\ \A t \in Slots : CallsOf(wire'[t]) = IF t = s THEN calls ELSE {}
      /\ \A t \in Slots : DOMAIN wire'[t].got = {}
  BY <1>3 DEF OnlyAt
<1>5. UnderWay' = calls /\ AnsweredCalls' = {} /\ (\A d \in AnsweredCalls : d.op \in ReadOps)'
  BY <1>4 DEF UnderWay, AnsweredCalls
<1>6. ReadsShown'
  <2>1. \A t \in Slots : wire'[t].then # "keySets" => \A c \in CallsOf(wire'[t]) : c \in ShownLists'
    BY <1>4
  <2>2. \A c \in calls : c.op # "createAPIKey"
    BY DEF ReadOps
  <2>. QED  BY <1>5, <2>1, <2>2 DEF ReadsShown
<1>7. \A c : Listed(c)' = Listed(c)
  BY ListedSame
<1>8. \A c \in ShownLists : c.op \in ReadOps
  BY ShownAre
<1>9. ListsFit'
  <2>. SUFFICES ASSUME NEW c \in ShownLists', c \notin calls PROVE Fits(c)' \/ Reviewing'
    BY <1>5 DEF ListsFit
  <2>1. c \in ShownLists /\ c.op \in ReadOps
    BY <1>8
  <2>2. CASE c \in Boot(page.kind)
    <3>1. page'.list[c.op] = Listed(c)'
      BY <1>1, <1>7, <2>2
    <3>. QED  BY <1>5, <2>1, <3>1, FitsPlainThen
  <2>3. CASE c \notin Boot(page.kind)
    <3>1. Fits(c)
      <4>1. ~Reviewing
        BY <2>1, <2>3 DEF Reviewing, ShownLists
      <4>. QED  BY <1>3, <2>1, <2>3, <4>1 DEF Reload, ListsFit
    <3>2. WritesSame
      BY <1>1, <1>3, <1>4 DEF WritesSame
    <3>3. \A d \in Boot(page.kind) : d.op # c.op
      <4>1. page.kind = "usage" \/ Boot(page.kind) \subseteq ShownLists
        BY ShownAre
      <4>2. page.kind # "usage"
        <5>. SUFFICES ASSUME page.kind = "usage" PROVE FALSE
          OBVIOUS
        <5>1. Read("listUsage") \in Boot(page.kind) /\ Read("listUsage").op \in ReadOps
          BY DEF Boot, UsageLoads, Read, Call, ReadOps
        <5>2. wire[s].then # "keySets"
          BY DEF Fulfilled
        <5>3. Boot(page.kind) \subseteq ShownLists
          BY <1>1, <5>2 DEF Reload, ReadsShown
        <5>4. page.project = None
          BY <5>1, <5>3 DEF ShownLists, Read, Call
        <5>. QED  BY <2>1, <2>3, <5>4 DEF ShownLists, Boot, UsageLoads, Read
      <4>. QED  BY <2>1, <2>3, <4>1, <4>2, ShownAre
    <3>4. page'.list[c.op] = page.list[c.op]
      BY <1>1, <2>1, <3>3
    <3>. QED  BY <3>1, <3>2, <3>4, FitsSame
  <2>. QED  BY <2>2, <2>3
<1>10. NamesKnown'
  <2>. SUFFICES ASSUME page.kind \in FormKinds PROVE Named' \subseteq KnownIds'
    BY <1>4 DEF NamesKnown
  <2>. DEFINE op == FormList(page.kind)
  <2>1. Named \subseteq KnownIds /\ KnownIds' = KnownIds
    BY DEF Reload, NamesKnown, KnownIds
  <2>2. Ids(page'.list[op]) \subseteq KnownIds
    <3>1. CASE \E c \in Boot(page.kind) : c.op = op
      <4>1. PICK c \in Boot(page.kind) : c.op = op
        BY <3>1
      <4>2. page.kind # "keys"
        BY <4>1 DEF Boot, KeysLoads, Read, Call, FormList
      <4>3. Listed(c) = db[FormTable(page.kind)]
        BY <4>1, <4>2 DEF Listed, FormList, FormTable, FormKinds
      <4>. QED  BY <1>1, <4>1, <4>3 DEF KnownIds
    <3>2. CASE \A c \in Boot(page.kind) : c.op # op
      <4>1. op \in ReadOps
        BY FormListTyped
      <4>2. page'.list[op] = page.list[op]
        BY <1>1, <3>2, <4>1
      <4>. QED  BY <2>1, <4>2 DEF Named
    <3>. QED  BY <3>1, <3>2
  <2>3. \A c \in calls : c.op \notin ChangeOps
    BY OpsApart
  <2>. QED  BY <1>5, <2>1, <2>2, <2>3 DEF Named
<1>. QED  BY <1>6, <1>9, <1>10 DEF Reload

\* Every load of a page, and what it goes on with.
LEMMA LoadsReload ==
    ASSUME ReloadInv, DataInv', Serene', NEW s \in Slots,
           \/ ReadLoaded(s) \/ FormLoaded(s) \/ AdQueueLoaded(s) \/ ReviewLoaded(s)
           \/ HomeLoaded(s) \/ KeysPageLoaded(s)
    PROVE  Reload'
<1>. USE DEF DataInv, Shapes, PageShape
<1>0. UNCHANGED <<db, alone>>
  BY HandlesSend DEF Handles
<1>1. WireShape /\ (Serene => SereneWire) /\ DataInv
  BY DEF ReloadInv, Reload
<1>2. Fulfilled(s, "load") /\ page.kind # "wallets" /\ page'.kind = page.kind
      /\ page'.list = Filled(s) /\ page'.editing = page.editing
  BY <1>1 DEF ReadLoaded, FormLoaded, AdQueueLoaded, ReviewLoaded, HomeLoaded, KeysPageLoaded
<1>3. Boot(page.kind) # {}
  BY <1>1, <1>2, BootIsEmpty
<1>4. CASE Done(s) /\ page'.project = page.project
  <2>1. /\ Serene /\ SereneWire' /\ OnlyAt(s)
        /\ CallsOf(wire'[s]) = {} /\ DOMAIN wire'[s].got = {}
    BY <1>1, <1>4, DoneWire
  <2>2. ShownLists' = ShownLists
    BY <1>2, <1>4, ShownSame
  <2>3. Reload
    BY <2>1 DEF ReloadInv
  <2>. QED  BY <1>0, <1>2, <1>3, <2>1, <2>2, <2>3, Loaded
<1>5. CASE HomeLoaded(s) /\ ~Done(s)
  <2>. DEFINE projects == Got(s, "listProjects")
              calls == {Call("listAPIKeys", projects[i].id, None) : i \in DOMAIN projects}
  <2>1. Send(s, "keySets", calls) /\ page'.project = page.project
    BY <1>1, <1>5 DEF HomeLoaded
  <2>2. \A c \in calls : c.op \in ReadOps
    BY DEF Call, ReadOps
  <2>. HIDE DEF calls
  <2>3. /\ Serene /\ SereneWire' /\ OnlyAt(s) /\ wire'[s] = Promised("keySets", calls)
        /\ CallsOf(wire'[s]) = calls /\ DOMAIN wire'[s].got = {}
    BY <1>0, <1>1, <2>1, SendWire
  <2>4. wire'[s].then = "keySets"
    BY <2>3, PromisedHas
  <2>5. ShownLists' = ShownLists
    BY <1>2, <2>1, ShownSame
  <2>6. Reload
    BY <2>3 DEF ReloadInv
  <2>. QED  BY <1>0, <1>2, <1>3, <2>2, <2>3, <2>4, <2>5, <2>6, Loaded
<1>6. CASE KeysPageLoaded(s) /\ ~(Done(s) /\ page'.project = page.project)
  <2>. DEFINE projects == Got(s, "listProjects")
              p == projects[1].id
              calls == {Call("listAPIKeys", p, None)}
  <2>1. projects # << >> => Send(s, "keys", calls) /\ page'.project = p
    BY <1>1, <1>6 DEF KeysPageLoaded, LoadKeys
  <2>2. page.kind = "keys" /\ projects # << >>
    BY <1>1, <1>6 DEF KeysPageLoaded
  <2>3. DOMAIN wire[s].got = Boot(page.kind) /\ Read("listProjects") \in Boot(page.kind)
    BY <1>1, <1>2, <2>2, TheAnswers DEF Data, Boot, KeysLoads
  <2>4. projects \in Seq(ProjectRow)
    <3>1. "listProjects" \in ReadOps /\ RowsOf("listProjects") = ProjectRow /\ Read("listProjects").op = "listProjects"
      BY DEF ReadOps, RowsOf, Read, Call
    <3>. HIDE DEF projects
    <3>. QED  BY <1>1, <2>3, <3>1, GotTyped DEF Data, projects
  <2>5. p \in Projects /\ p # None
    <3>1. projects[1] \in ProjectRow
      BY <2>2, <2>4
    <3>. QED  BY <3>1, ClientAssumption DEF ProjectRow, ClientAssumption
  <2>6. \A c \in calls : c.op \in ReadOps
    BY DEF Call, ReadOps
  <2>7. ShownLists' = KeysLoads \cup calls /\ KeysLoads \subseteq ShownLists
    BY <1>2, <2>1, <2>2, <2>5 DEF ShownLists, Boot
  <2>. HIDE DEF calls, p, projects
  <2>8. /\ Serene /\ SereneWire' /\ OnlyAt(s)
        /\ CallsOf(wire'[s]) = calls /\ DOMAIN wire'[s].got = {}
    BY <1>0, <1>1, <2>1, <2>2, SendWire
  <2>9. Reload
    BY <2>8 DEF ReloadInv
  <2>10. calls \subseteq ShownLists' /\ ShownLists' \subseteq ShownLists \cup calls
    BY <2>7
  <2>. QED  BY <1>0, <1>2, <1>3, <2>6, <2>8, <2>9, <2>10, Loaded
<1>. QED
  BY <1>1, <1>4, <1>5, <1>6 DEF ReadLoaded, FormLoaded, AdQueueLoaded, ReviewLoaded, HomeLoaded, KeysPageLoaded

-----------------------------------------------------------------------------
(***************************************************************************)
(* The other answers are handled.                                          *)
(***************************************************************************)

\* What holds whatever the answer was.
LEMMA DoneReload ==
    ASSUME ReloadInv, Serene', NEW s \in Slots, Done(s),
           page'.kind = page.kind, page'.project = page.project
    PROVE  /\ Serene /\ DataInv /\ Reload /\ SereneWire' /\ ReadsShown' /\ OnlyAt(s) /\ db' = db
           /\ CallsOf(wire'[s]) = {} /\ DOMAIN wire'[s].got = {}
           /\ ShownLists' = ShownLists /\ KnownIds' = KnownIds
           /\ UnderWay' \subseteq UnderWay /\ UnderWay \subseteq UnderWay' \cup CallsOf(wire[s])
           /\ AnsweredCalls' \subseteq AnsweredCalls
           /\ AnsweredCalls \subseteq AnsweredCalls' \cup DOMAIN wire[s].got
<1>1. WireShape /\ (Serene => SereneWire) /\ DataInv
  BY DEF ReloadInv, Reload, DataInv, Shapes
<1>2. /\ Serene /\ SereneWire' /\ OnlyAt(s)
      /\ CallsOf(wire'[s]) = {} /\ DOMAIN wire'[s].got = {}
  BY <1>1, DoneWire
<1>3. db' = db
  BY DEF Done
<1>4. /\ UnderWay' \subseteq UnderWay /\ UnderWay \subseteq UnderWay' \cup CallsOf(wire[s])
      /\ AnsweredCalls' \subseteq AnsweredCalls
      /\ AnsweredCalls \subseteq AnsweredCalls' \cup DOMAIN wire[s].got
  BY <1>2 DEF UnderWay, AnsweredCalls, OnlyAt
<1>5. ShownLists' = ShownLists
  BY ShownSame
<1>6. Reload
  BY <1>2 DEF ReloadInv
<1>7. ReadsShown'
  <2>1. \A t \in Slots : CallsOf(wire'[t]) # {} => wire'[t] = wire[t]
    BY <1>2 DEF OnlyAt
  <2>. QED  BY <1>4, <1>5, <1>6, <2>1 DEF Reload, ReadsShown
<1>. QED  BY <1>1, <1>2, <1>3, <1>4, <1>5, <1>6, <1>7 DEF KnownIds

\* The one call of a promise that is fulfilled.
LEMMA SoleCall ==
    ASSUME DataInv, NEW s \in Slots, NEW then, Fulfilled(s, then), then \notin {"load", "keySets"}
    PROVE  /\ CallsOf(wire[s]) = {CallOf(s)} /\ DOMAIN wire[s].got = {CallOf(s)}
           /\ Answer(s) = wire[s].got[CallOf(s)]
           /\ <<then, page.kind, CallOf(s).op>> \in Singles
           /\ GoodAnswer(CallOf(s), Answer(s))
<1>1. /\ DOMAIN wire[s].got = {CallOf(s)}
      /\ <<then, page.kind, CallOf(s).op>> \in Singles
      /\ GoodAnswer(CallOf(s), Answer(s))
  BY TheAnswer DEF DataInv, Data
<1>2. wire[s].todo = {}
  BY DEF Fulfilled
<1>. QED  BY <1>1, <1>2 DEF CallsOf, Answer

\* While a write is under way, nothing is read.
LEMMA NoReads ==
    ASSUME SereneWire, NEW s \in Slots, NEW c, CallsOf(wire[s]) = {c}, c.op \notin ReadOps
    PROVE  \A d \in UnderWay : d.op \notin ReadOps
<1>1. ASSUME NEW t \in Slots, NEW d \in CallsOf(wire[t]), d.op \in ReadOps PROVE FALSE
  <2>1. CASE t = s
    BY <1>1, <2>1
  <2>2. CASE t # s
    BY <1>1, <2>2 DEF SereneWire, Clash
  <2>. QED  BY <2>1, <2>2
<1>. QED  BY <1>1 DEF UnderWay

\* The answer to a list call replaces the list.
LEMMA ReadBack ==
    ASSUME ReloadInv, DataInv', Serene', NEW s \in Slots, Done(s),
           NEW then \in {"filter", "keys"}, Fulfilled(s, then),
           page'.kind = page.kind, page'.project = page.project, page'.editing = page.editing,
           page'.list = [page.list EXCEPT ![CallOf(s).op] = Answer(s)]
    PROVE  Reload'
<1>. DEFINE c == CallOf(s)
<1>1. /\ Serene /\ DataInv /\ Reload /\ SereneWire' /\ ReadsShown' /\ OnlyAt(s) /\ db' = db
      /\ CallsOf(wire'[s]) = {} /\ DOMAIN wire'[s].got = {}
      /\ ShownLists' = ShownLists /\ KnownIds' = KnownIds
  BY DoneReload
<1>2. /\ CallsOf(wire[s]) = {c} /\ DOMAIN wire[s].got = {c} /\ Answer(s) = wire[s].got[c]
      /\ <<then, page.kind, c.op>> \in Singles
  BY <1>1, SoleCall
<1>3. page.kind \in {"usage", "keys"} /\ c.op \in ReadOps
      /\ (page.kind = "keys" => c.op = "listAPIKeys") /\ wire[s].then # "keySets"
  BY <1>2 DEF Singles, ReadOps, Fulfilled
<1>. HIDE DEF c
<1>4. c \in ShownLists /\ Answer(s) = Listed(c)
  BY <1>1, <1>2, <1>3 DEF Reload, ReadsShown, SereneWire
<1>5. /\ \A t \in Slots \ {s} : CallsOf(wire[t]) = {} /\ DOMAIN wire[t].got = {}
      /\ UnderWay = {c}
  BY <1>1, <1>2, <1>3, ReadAlone DEF Reload
<1>6. /\ UnderWay' = {} /\ AnsweredCalls' = {} /\ (\A d \in AnsweredCalls : d.op \in ReadOps)'
      /\ \A t \in Slots : DOMAIN wire'[t].got = {}
  BY <1>1, <1>5 DEF UnderWay, AnsweredCalls, OnlyAt
<1>7. WritesSame
  BY <1>2, <1>3, <1>5, <1>6 DEF WritesSame
<1>8. \A d : Listed(d)' = Listed(d)
  BY <1>1, ListedSame
<1>9. page.list = [op \in ReadOps |-> page.list[op]]
  BY <1>1 DEF DataInv, Data, PageTyped, ListsTyped
<1>10. ListsFit'
  <2>. SUFFICES ASSUME NEW d \in ShownLists PROVE Fits(d)'
    BY <1>1 DEF ListsFit
  <2>1. CASE d = c
    <3>1. page'.list[d.op] = Listed(d)'
      BY <1>3, <1>4, <1>8, <1>9, <2>1 DEF c
    <3>. QED  BY <1>3, <1>6, <2>1, <3>1, FitsPlainThen
  <2>2. CASE d # c
    <3>1. d.op # c.op
      BY <1>1, <1>4, <2>2, ShownAre
    <3>2. Fits(d)
      BY <1>1, <1>3, <1>5, <2>2 DEF Reload, ListsFit, Reviewing
    <3>3. d.op \in ReadOps
      BY <1>1, ShownAre
    <3>4. page'.list[d.op] = page.list[d.op]
      BY <1>9, <3>1, <3>3 DEF c
    <3>. QED  BY <1>1, <1>7, <3>2, <3>4, FitsSame
  <2>. QED  BY <2>1, <2>2
<1>11. NamesKnown'
  <2>. SUFFICES ASSUME page.kind \in FormKinds PROVE Named' \subseteq KnownIds'
    BY <1>6 DEF NamesKnown
  <2>1. page.kind = "keys" /\ c.op = "listAPIKeys"
    BY <1>3 DEF FormKinds
  <2>2. page'.list["listAPIKeys"] = Listed(c)
    BY <1>3, <1>4, <1>9, <2>1 DEF c
  <2>. DEFINE T == {k \in Rows("keys") : k.project = c.on}
  <2>3. Listed(c) = Kept(db["keys"], T)
    BY <2>1 DEF Listed
  <2>4. Kept(db["keys"], T) \in Seq(KeyRow \cap T)
    <3>1. db["keys"] \in Seq(KeyRow)
      BY <1>1 DEF DataInv, Data, Tables
    <3>. QED  BY <3>1, KeptRows
  <2>5. T \subseteq Rows("keys")
    OBVIOUS
  <2>. HIDE DEF T
  <2>6. \A i \in DOMAIN Listed(c) : Listed(c)[i] \in Rows("keys")
    BY <2>3, <2>4, <2>5
  <2>7. Ids(page'.list["listAPIKeys"]) \subseteq KnownIds
    <3>1. KnownIds = {r.id : r \in Rows("keys")}
      BY <2>1 DEF KnownIds, Ids, FormTable, Rows
    <3>. QED  BY <2>2, <2>6, <3>1 DEF Ids
  <2>8. FormList(page.kind) = "listAPIKeys"
    BY <2>1 DEF FormList
  <2>9. page.editing # None => page.editing \in KnownIds
    BY <1>1 DEF Reload, NamesKnown, Named
  <2>. QED  BY <1>1, <1>6, <2>7, <2>8, <2>9 DEF Named
<1>. QED  BY <1>1, <1>10, <1>11 DEF Reload

\* A row that was made is put in front.
LEMMA OneMaker ==
    ASSUME DataInv, SereneWire, Flags, NEW s \in Slots, NEW c \in CallsOf(wire[s]), c.op \in MakeOps,
           NEW t \in Slots, NEW d \in CallsOf(wire[t]), d.op \in MakeOps
    PROVE  t = s
<1>1. ASSUME NEW u \in Slots, NEW e \in CallsOf(wire[u]), e.op \in MakeOps
      PROVE  Busy(u, Saving)
  <2>1. e.op \notin ReadOps /\ e.op # "listAPIKeys"
    BY <1>1 DEF MakeOps, ReadOps
  <2>2. wire[u].mine /\ <<wire[u].then, page.kind, e.op>> \in Singles
    BY <2>1, OneWrite
  <2>3. wire[u].then \in {"create", "createKey"}
    BY <1>1, <2>2 DEF Singles, MakeOps
  <2>. QED  BY <2>2, <2>3 DEF Busy, Saving
<1>. QED  BY <1>1 DEF Flags

LEMMA Made ==
    ASSUME ReloadInv, DataInv', Serene', NEW s \in Slots, Done(s),
           NEW then \in {"create", "createKey"}, Fulfilled(s, then),
           page'.kind = page.kind, page'.project = page.project, page'.editing = page.editing,
           page'.list = [page.list EXCEPT ![FormList(page.kind)]
                            = <<Answer(s)>> \o page.list[FormList(page.kind)]]
    PROVE  Reload'
<1>. DEFINE c == CallOf(s)
            r == Answer(s)
            op == FormList(page.kind)
            L == page.list[op]
            R == FormRow(page.kind)
<1>1. /\ Serene /\ DataInv /\ Reload /\ SereneWire' /\ ReadsShown' /\ OnlyAt(s) /\ db' = db
      /\ CallsOf(wire'[s]) = {} /\ DOMAIN wire'[s].got = {}
      /\ ShownLists' = ShownLists /\ KnownIds' = KnownIds
      /\ UnderWay' \subseteq UnderWay
      /\ AnsweredCalls' \subseteq AnsweredCalls /\ AnsweredCalls \subseteq AnsweredCalls' \cup DOMAIN wire[s].got
  BY DoneReload
<1>2. /\ CallsOf(wire[s]) = {c} /\ DOMAIN wire[s].got = {c} /\ r = wire[s].got[c]
      /\ <<then, page.kind, c.op>> \in Singles
  BY <1>1, SoleCall
<1>3. c.op \in MakeOps /\ page.kind \in FormKinds
  BY <1>2 DEF Singles, MakeOps, FormKinds
<1>4. /\ r \in R
      /\ op \in ReadOps /\ L \in Seq(R) /\ Tabular(R)
  <2>1. GoodAnswer(c, r)
    BY <1>1, SoleCall
  <2>2. r \in R
    BY <1>2, <2>1 DEF Singles, GoodAnswer, FormRow
  <2>. QED  BY <1>1, <1>3, <2>2, FormListTyped
<1>5. page'.list[op] = <<r>> \o L /\ \A o \in ReadOps \ {op} : page'.list[o] = page.list[o]
  <2>1. page.list = [o \in ReadOps |-> page.list[o]]
    BY <1>1 DEF DataInv, Data, PageTyped, ListsTyped
  <2>. HIDE DEF r
  <2>. QED  BY <1>4, <2>1 DEF r
<1>. HIDE DEF c, r, L, R
<1>6. \A t \in Slots : \A d \in DOMAIN wire'[t].got : d.op \notin MakeOps
  <2>. SUFFICES ASSUME NEW t \in Slots, NEW d \in DOMAIN wire'[t].got, d.op \in MakeOps PROVE FALSE
    OBVIOUS
  <2>1. t # s
    BY <1>1
  <2>2. d \in CallsOf(wire[t])
    BY <1>1, <2>1 DEF OnlyAt, CallsOf
  <2>. QED  BY <1>1, <1>2, <1>3, <2>1, <2>2, OneMaker DEF Reload, ReloadInv
<1>7. Changes' = Changes
  BY <1>1, <1>2, <1>3, OpsApart DEF Changes
<1>8. \A d \in UnderWay : d.op \notin ReadOps
  BY <1>1, <1>2, <1>3, OpsApart, NoReads DEF Reload
<1>9. r.id \in KnownIds \ Named
  BY <1>1, <1>2, <1>3 DEF Reload, NamesKnown
<1>10. \A d \in Changes : d.on # r.id
  <2>1. \A d \in Changes : d \in UnderWay /\ d.op \in ChangeOps
    BY DEF Changes, AnsweredCalls, UnderWay, CallsOf
  <2>2. \A d \in Changes : d.on \in Named
    BY <2>1 DEF Named
  <2>. QED  BY <1>9, <2>2
<1>11. \A d : Listed(d)' = Listed(d)
  BY <1>1, ListedSame
<1>12. ListsFit'
  <2>. SUFFICES ASSUME NEW d \in ShownLists PROVE Fits(d)'
    BY <1>1 DEF ListsFit
  <2>1. d.op \in ReadOps
    BY <1>1, ShownAre
  <2>2. Fits(d)
    <3>1. ~Reviewing
      BY <1>3 DEF Reviewing, FormKinds
    <3>. QED  BY <1>1, <1>8, <2>1, <3>1 DEF Reload, ListsFit
  <2>3. CASE d.op = op
    <3>1. IsFormList(d) /\ page.kind # "adQueue"
      BY <1>3, <2>3 DEF IsFormList, FormKinds
    <3>2. SameRows(op, <<r>> \o DueRows(Changes, L), Listed(d))
      BY <1>1, <1>2, <1>3, <2>2, <2>3, <3>1 DEF Fits, FitsForm, L
    <3>3. DueRows(Changes, <<r>> \o L) = <<r>> \o DueRows(Changes, L)
      BY <1>4, <1>10, DueFront
    <3>4. SameRows(op, DueRows(Changes', page'.list[op]), Listed(d)')
      BY <1>5, <1>7, <1>11, <3>2, <3>3
    <3>5. FitsForm(d)'
      BY <1>6, <2>3, <3>4 DEF FitsForm
    <3>. QED  BY <3>1, <3>5 DEF Fits, IsFormList
  <2>4. CASE d.op # op
    <3>1. ~IsFormList(d) /\ page.kind # "adQueue"
      BY <1>3, <2>4 DEF IsFormList, FormKinds
    <3>2. page'.list[d.op] = Listed(d)'
      BY <1>5, <1>11, <2>1, <2>2, <2>4, <3>1 DEF Fits
    <3>. QED  BY <3>1, <3>2 DEF Fits, IsFormList
  <2>. QED  BY <2>3, <2>4
<1>13. NamesKnown'
  <2>1. Ids(page'.list[op]) = {r.id} \cup Ids(L)
    BY <1>4, <1>5, FrontIds
  <2>2. Named' \subseteq {r.id} \cup Named
    BY <1>1, <2>1 DEF Named, L
  <2>3. Named \subseteq KnownIds
    BY <1>1, <1>3 DEF Reload, NamesKnown
  <2>. QED  BY <1>1, <1>6, <1>9, <2>2, <2>3 DEF NamesKnown
<1>. QED  BY <1>1, <1>12, <1>13 DEF Reload

\* A row is changed.
LEMMA MarkedIds ==
    ASSUME NEW R, Tabular(R), NEW rows \in Seq(R), NEW id, NEW status
    PROVE  Ids(Marked(rows, id, status)) = Ids(rows)
<1>. DEFINE M == Marked(rows, id, status)
<1>1. M = [i \in DOMAIN rows |-> IF rows[i].id = id THEN [rows[i] EXCEPT !.status = status] ELSE rows[i]]
  BY DEF Marked
<1>2. \A i \in DOMAIN rows : rows[i] \in R
  OBVIOUS
<1>. HIDE DEF M
<1>3. DOMAIN M = DOMAIN rows /\ \A i \in DOMAIN rows : M[i].id = rows[i].id
  BY <1>1, <1>2 DEF Tabular
<1>. QED  BY <1>3 DEF Ids, M

LEMMA ChangesApart ==
    ASSUME DataInv, SereneWire
    PROVE  /\ OnePerRow({c \in UnderWay : c.op \in ChangeOps}) /\ OnePerRow(Changes)
           /\ \A s, t \in Slots : \A c : c \in CallsOf(wire[s]) /\ c \in CallsOf(wire[t]) => s = t
<1>. DEFINE all == {c \in UnderWay : c.op \in ChangeOps}
<1>1. ASSUME NEW s \in Slots, NEW a \in CallsOf(wire[s]), a.op \in ChangeOps,
             NEW t \in Slots, NEW b \in CallsOf(wire[t]), b.op \in ChangeOps, a.on = b.on
      PROVE  a = b
  <2>1. CASE s # t
    BY <1>1, <2>1 DEF SereneWire, Clash
  <2>2. CASE s = t
    <3>1. a.op \notin ReadOps /\ a.op # "listAPIKeys"
      BY <1>1 DEF ChangeOps, ReadOps
    <3>2. CallsOf(wire[s]) = {a}
      BY <3>1, OneWrite
    <3>. QED  BY <2>2, <3>2
  <2>. QED  BY <2>1, <2>2
<1>2. OnePerRow(all)
  <2>. SUFFICES ASSUME NEW a \in all, NEW b \in all, a.on = b.on PROVE a = b
    BY DEF OnePerRow
  <2>1. PICK s \in Slots : a \in CallsOf(wire[s])
    BY DEF UnderWay
  <2>2. PICK t \in Slots : b \in CallsOf(wire[t])
    BY DEF UnderWay
  <2>. QED  BY <1>1, <2>1, <2>2
<1>3. Changes \subseteq all
  BY DEF Changes, AnsweredCalls, UnderWay, CallsOf
<1>4. OnePerRow(Changes)
  BY <1>2, <1>3 DEF OnePerRow
<1>5. \A s, t \in Slots : \A c : c \in CallsOf(wire[s]) /\ c \in CallsOf(wire[t]) => s = t
  BY DEF SereneWire, Clash
<1>. QED  BY <1>2, <1>4, <1>5

LEMMA Changed ==
    ASSUME ReloadInv, DataInv', Serene', NEW s \in Slots, Done(s),
           NEW then \in {"revoke", "status", "pause"}, Fulfilled(s, then),
           page'.kind = page.kind, page'.project = page.project, page'.editing \in {page.editing, None},
           page'.list = [page.list EXCEPT ![FormList(page.kind)]
                            = Marked(page.list[FormList(page.kind)], CallOf(s).on, StatusBy(CallOf(s)))]
    PROVE  Reload'
<1>. DEFINE c == CallOf(s)
            op == FormList(page.kind)
            L == page.list[op]
            R == FormRow(page.kind)
            M == Marked(L, c.on, StatusBy(c))
<1>1. /\ Serene /\ DataInv /\ Reload /\ SereneWire' /\ ReadsShown' /\ OnlyAt(s) /\ db' = db
      /\ CallsOf(wire'[s]) = {} /\ DOMAIN wire'[s].got = {}
      /\ ShownLists' = ShownLists /\ KnownIds' = KnownIds
      /\ UnderWay' \subseteq UnderWay
      /\ AnsweredCalls' \subseteq AnsweredCalls /\ AnsweredCalls \subseteq AnsweredCalls' \cup DOMAIN wire[s].got
  BY DoneReload
<1>2. /\ CallsOf(wire[s]) = {c} /\ DOMAIN wire[s].got = {c}
      /\ <<then, page.kind, c.op>> \in Singles
  BY <1>1, SoleCall
<1>3. c.op \in ChangeOps /\ page.kind \in FormKinds
  BY <1>2 DEF Singles, ChangeOps, FormKinds
<1>4. op \in ReadOps /\ L \in Seq(R) /\ Tabular(R)
  BY <1>1, <1>3, FormListTyped
<1>5. page'.list[op] = M /\ \A o \in ReadOps \ {op} : page'.list[o] = page.list[o]
  <2>1. page.list = [o \in ReadOps |-> page.list[o]]
    BY <1>1 DEF DataInv, Data, PageTyped, ListsTyped
  <2>. HIDE DEF c
  <2>. QED  BY <1>4, <2>1 DEF c
<1>. HIDE DEF c, L, R, M
<1>6. \A t \in Slots : \A d \in DOMAIN wire'[t].got :
          d \in DOMAIN wire[t].got /\ wire'[t].got[d] = wire[t].got[d] /\ t # s
  BY <1>1 DEF OnlyAt
<1>7. c \in Changes /\ Changes' = Changes \ {c}
  <2>1. c \in AnsweredCalls
    BY <1>2 DEF AnsweredCalls
  <2>2. c \notin AnsweredCalls'
    <3>. SUFFICES ASSUME NEW t \in Slots, c \in DOMAIN wire'[t].got PROVE FALSE
      BY DEF AnsweredCalls
    <3>1. t # s /\ c \in CallsOf(wire[t])
      BY <1>6 DEF CallsOf
    <3>. QED  BY <1>1, <1>2, <3>1, ChangesApart DEF Reload
  <2>. QED  BY <1>1, <1>2, <1>3, <2>1, <2>2 DEF Changes
<1>8. \A d \in UnderWay : d.op \notin ReadOps
  BY <1>1, <1>2, <1>3, OpsApart, NoReads DEF Reload
<1>9. DueRows(Changes', M) = DueRows(Changes, L)
  <2>1. OnePerRow(Changes)
    BY <1>1, ChangesApart DEF Reload
  <2>2. DueRows(Changes \ {c}, Marked(L, c.on, StatusBy(c))) = DueRows(Changes, L)
    BY <1>4, <1>7, <2>1, DueHandled
  <2>. QED  BY <1>7, <2>2 DEF M
<1>10. \A d : Listed(d)' = Listed(d)
  BY <1>1, ListedSame
<1>11. ListsFit'
  <2>. SUFFICES ASSUME NEW d \in ShownLists PROVE Fits(d)'
    BY <1>1 DEF ListsFit
  <2>1. d.op \in ReadOps
    BY <1>1, ShownAre
  <2>2. Fits(d)
    <3>1. ~Reviewing
      BY <1>3 DEF Reviewing, FormKinds
    <3>. QED  BY <1>1, <1>8, <2>1, <3>1 DEF Reload, ListsFit
  <2>3. CASE d.op = op
    <3>1. IsFormList(d) /\ page.kind # "adQueue"
      BY <1>3, <2>3 DEF IsFormList, FormKinds
    <3>. DEFINE rows == DueRows(Changes, L)
    <3>2. /\ \A t \in Slots : \A e \in DOMAIN wire[t].got :
                e.op \in MakeOps => SameRows(op, <<wire[t].got[e]>> \o rows, Listed(d))
          /\ (\A e \in AnsweredCalls : e.op \notin MakeOps) => SameRows(op, rows, Listed(d))
      BY <2>2, <2>3, <3>1 DEF Fits, FitsForm, L
    <3>. HIDE DEF rows
    <3>3. DueRows(Changes', page'.list[op]) = rows
      BY <1>5, <1>9 DEF rows
    <3>4. \A t \in Slots : \A e \in DOMAIN wire'[t].got :
                e.op \in MakeOps => SameRows(op, <<wire'[t].got[e]>> \o rows, Listed(d)')
      BY <1>6, <1>10, <3>2
    <3>5. (\A e \in AnsweredCalls' : e.op \notin MakeOps) => SameRows(op, rows, Listed(d)')
      BY <1>1, <1>2, <1>3, <1>10, <3>2, OpsApart
    <3>6. FitsForm(d)'
      BY <2>3, <3>3, <3>4, <3>5 DEF FitsForm
    <3>. QED  BY <3>1, <3>6 DEF Fits, IsFormList
  <2>4. CASE d.op # op
    <3>1. ~IsFormList(d) /\ page.kind # "adQueue"
      BY <1>3, <2>4 DEF IsFormList, FormKinds
    <3>2. page'.list[d.op] = Listed(d)'
      BY <1>5, <1>10, <2>1, <2>2, <2>4, <3>1 DEF Fits
    <3>. QED  BY <3>1, <3>2 DEF Fits, IsFormList
  <2>. QED  BY <2>3, <2>4
<1>12. NamesKnown'
  <2>1. Ids(M) = Ids(L)
    BY <1>4, MarkedIds DEF M
  <2>2. Named' \subseteq Named
    BY <1>1, <1>5, <2>1 DEF Named, L
  <2>. QED  BY <1>1, <1>3, <1>6, <2>2 DEF Reload, NamesKnown
<1>. QED  BY <1>1, <1>11, <1>12 DEF Reload

\* An advertisement that was judged is taken out.
LEMMA JudgedAway ==
    ASSUME ReloadInv, DataInv', Serene', NEW s \in Slots, AdJudged(s)
    PROVE  Reload'
<1>. DEFINE c == CallOf(s)
            op == "listPendingProviderModels"
            L == page.list[op]
            L2 == Without(L, c.on)
<1>0. /\ Fulfilled(s, "judgeAd") /\ Done(s)
      /\ page' = [page EXCEPT !.list[op] = L2]
  BY DEF AdJudged
<1>1. page'.kind = page.kind /\ page'.project = page.project
      /\ page'.list = [page.list EXCEPT ![op] = L2]
  BY <1>0 DEF ReloadInv, DataInv, Shapes, PageShape
<1>2. /\ Serene /\ DataInv /\ Reload /\ SereneWire' /\ ReadsShown' /\ OnlyAt(s) /\ db' = db
      /\ ShownLists' = ShownLists
      /\ UnderWay' \subseteq UnderWay
      /\ AnsweredCalls' \subseteq AnsweredCalls /\ AnsweredCalls \subseteq AnsweredCalls' \cup DOMAIN wire[s].got
  BY <1>0, <1>1, DoneReload
<1>3. /\ CallsOf(wire[s]) = {c} /\ DOMAIN wire[s].got = {c}
      /\ <<"judgeAd", page.kind, c.op>> \in Singles
  BY <1>0, <1>2, SoleCall
<1>4. c.op \in JudgeOps /\ page.kind = "adQueue"
  BY <1>3 DEF Singles, JudgeOps
<1>5. op \in ReadOps /\ L \in Seq(AdRow)
  <2>1. op \in ReadOps /\ RowsOf(op) = AdRow
    BY DEF ReadOps, RowsOf
  <2>. QED  BY <1>2, <2>1 DEF DataInv, Data, PageTyped, ListsTyped
<1>6. page'.list[op] = L2
  <2>1. page.list = [o \in ReadOps |-> page.list[o]]
    BY <1>2 DEF DataInv, Data, PageTyped, ListsTyped
  <2>. HIDE DEF L2
  <2>. QED  BY <1>1, <1>5, <2>1
<1>7. \A d \in UnderWay : d.op \notin ReadOps
  BY <1>2, <1>3, <1>4, OpsApart, NoReads DEF Reload
<1>8. JudgedIds = JudgedIds' \cup {c.on}
  BY <1>2, <1>3, <1>4 DEF JudgedIds, AnsweredCalls
<1>. HIDE DEF c
<1>9. ListsFit'
  <2>. SUFFICES ASSUME NEW d \in ShownLists PROVE Fits(d)'
    BY <1>2 DEF ListsFit
  <2>1. d = Read(op)
    BY <1>4 DEF ShownLists, Boot, AdQueueLoads
  <2>2. d.op = op
    BY <2>1 DEF Read, Call
  <2>3. Fits(d)
    <3>1. ~Reviewing
      BY <1>4 DEF Reviewing
    <3>. QED  BY <1>2, <1>5, <1>7, <2>2, <3>1 DEF Reload, ListsFit
  <2>. DEFINE Q == RowSet(L)
              A == {r \in Q : r.id # c.on}
              B == {r \in Q : r.id \notin JudgedIds'}
              C == {r \in RowSet(L2) : r.id \notin JudgedIds'}
              D == {r \in Q : r.id \notin JudgedIds}
  <2>4. Listed(d) = Kept(L, D)
    BY <1>4, <2>2, <2>3 DEF Fits, FitsQueue
  <2>5. L2 = Kept(L, A)
    BY DEF Without, RowSet
  <2>6. L \in Seq(Q)
    BY <1>5 DEF RowSet
  <2>7. L2 \in Seq(Q)
    <3>1. Kept(L, A) \in Seq(Q \cap A)
      <4>. HIDE DEF A, L, Q
      <4>. QED  BY <2>6, KeptRows
    <3>. HIDE DEF A, L, Q, L2
    <3>. QED  BY <2>5, <3>1
  <2>8. Kept(L2, C) = Kept(L2, B)
    <3>1. \A i \in DOMAIN L2 : L2[i] \in RowSet(L2)
      BY DEF RowSet
    <3>. HIDE DEF L, L2
    <3>2. \A i \in DOMAIN L2 : L2[i] \in Q
      <4>. HIDE DEF Q
      <4>. QED  BY <2>7
    <3>3. \A i \in DOMAIN L2 : L2[i] \in C <=> L2[i] \in B
      BY <3>1, <3>2
    <3>. HIDE DEF B, C, Q
    <3>. QED  BY <2>7, <3>3, KeptSame
  <2>9. Kept(Kept(L, A), B) = Kept(L, A \cap B)
    <3>. HIDE DEF L, Q, A, B
    <3>. QED  BY <2>6, KeptKept
  <2>10. A \cap B = D
    <3>. HIDE DEF Q
    <3>. QED  BY <1>8
  <2>11. Kept(L2, C) = Listed(d)
    <3>. HIDE DEF L, L2, A, B, C, D
    <3>. QED  BY <2>4, <2>5, <2>8, <2>9, <2>10
  <2>12. Listed(d)' = Listed(d)
    BY <1>2, ListedSame
  <2>13. FitsQueue(d)'
    <3>. HIDE DEF L2
    <3>. QED  BY <1>6, <2>2, <2>11, <2>12 DEF FitsQueue
  <2>. QED  BY <1>1, <1>4, <2>13 DEF Fits, IsFormList, FormKinds
<1>10. NamesKnown'
  BY <1>1, <1>4 DEF NamesKnown, FormKinds
<1>. QED  BY <1>2, <1>9, <1>10 DEF Reload

\* The review page loads its lists again.
LEMMA JudgedAgain ==
    ASSUME ReloadInv, DataInv', Serene', NEW s \in Slots, Judged(s)
    PROVE  Reload'
<1>1. /\ Fulfilled(s, "judge") /\ Send(s, "load", ReviewLoads) /\ UNCHANGED <<db, alone>>
      /\ page' = [page EXCEPT !.loading = TRUE, !.error = FALSE]
  BY DEF Judged
<1>2. page'.kind = page.kind /\ page'.project = page.project
  BY <1>1 DEF ReloadInv, DataInv, Shapes, PageShape
<1>3. page.kind = "review"
  BY <1>1 DEF ReloadInv, Flags, Fulfilled
<1>4. WireShape /\ (Serene => SereneWire) /\ DataInv
  BY DEF ReloadInv, Reload, DataInv, Shapes
<1>5. /\ Serene /\ SereneWire' /\ wire'[s] = Promised("load", ReviewLoads) /\ OnlyAt(s)
      /\ \A t \in Slots \ {s} : ~Clash(ReviewLoads, CallsOf(wire[t]))
      /\ CallsOf(wire'[s]) = ReviewLoads
  BY <1>1, <1>4, SendWire
<1>6. ShownLists = ReviewLoads /\ ShownLists' = ShownLists
  BY <1>2, <1>3, ShownSame DEF ShownLists, Boot
<1>7. Read("listAdminProviders") \in ReviewLoads /\ Read("listAdminProviders").op \in ReadOps
      /\ \A c \in ReviewLoads : c.op # "createAPIKey"
  BY DEF ReviewLoads, Read, Call, ReadOps
<1>8. \A t \in Slots \ {s} : CallsOf(wire'[t]) = {}
  BY <1>5, <1>7 DEF Clash, OnlyAt
<1>9. UnderWay' = ReviewLoads
  BY <1>5, <1>8 DEF UnderWay
<1>10. ReadsShown'
  BY <1>5, <1>6, <1>7, <1>8, <1>9 DEF ReadsShown
<1>11. ListsFit'
  BY <1>6, <1>9 DEF ListsFit
<1>12. NamesKnown'
  BY <1>2, <1>3 DEF NamesKnown, FormKinds
<1>. QED  BY <1>5, <1>10, <1>11, <1>12 DEF Reload

\* An answer changes none of the lists.
LEMMA NothingShown ==
    ASSUME ReloadInv, DataInv', Serene', NEW s \in Slots, KeySetsLoaded(s) \/ AdjustmentAnswered(s)
    PROVE  Reload'
<1>1. Done(s) /\ wire[s].mine /\ wire[s].then \in {"keySets", "adjust"}
  BY DEF KeySetsLoaded, AdjustmentAnswered, Fulfilled, Rejected
<1>2. page'.kind = page.kind /\ page'.project = page.project /\ page'.list = page.list
  BY DEF KeySetsLoaded, AdjustmentAnswered, ReloadInv, DataInv, Shapes, PageShape
<1>3. /\ Serene /\ DataInv /\ Reload /\ SereneWire' /\ ReadsShown' /\ OnlyAt(s) /\ db' = db
      /\ CallsOf(wire'[s]) = {} /\ DOMAIN wire'[s].got = {}
      /\ ShownLists' = ShownLists /\ UnderWay \subseteq UnderWay' \cup CallsOf(wire[s])
  BY <1>1, <1>2, DoneReload
<1>4. ~wire[s].failed
  BY <1>1, <1>3 DEF Reload, SereneWire, Idle
<1>5. Asks(wire[s].then, CallsOf(wire[s]), page.kind)
  BY <1>1, <1>3, <1>4 DEF DataInv, Data, WireOK, GoodPromise
<1>6. \/ page.kind = "wallets"
      \/ page.kind = "home" /\ \A c \in CallsOf(wire[s]) : c.op = "listAPIKeys"
  BY <1>1, <1>5 DEF Asks, Singles
<1>7. page.kind \notin FormKinds /\ page.kind # "review"
  BY <1>6 DEF FormKinds
<1>8. ListsFit'
  <2>. SUFFICES ASSUME NEW c \in ShownLists PROVE c \in UnderWay' \/ Fits(c)'
    BY <1>3 DEF ListsFit
  <2>1. page.kind = "home"
    BY <1>6 DEF ShownLists, Boot
  <2>2. c.op # "listAPIKeys"
    BY <2>1 DEF ShownLists, Boot, HomeLoads, Read, Call
  <2>3. WritesSame
    <3>1. \A d : d.op \notin ReadOps => d \notin DOMAIN wire[s].got
      BY <1>6, <2>1 DEF CallsOf, ReadOps
    <3>. QED  BY <1>3, <3>1 DEF WritesSame, OnlyAt
  <2>4. c \in UnderWay \/ Fits(c)
    BY <1>3, <1>7 DEF Reload, ListsFit, Reviewing
  <2>. QED  BY <1>2, <1>3, <1>6, <2>1, <2>2, <2>3, <2>4, FitsSame
<1>9. NamesKnown'
  BY <1>2, <1>7 DEF NamesKnown
<1>. QED  BY <1>3, <1>8, <1>9 DEF Reload

\* No promise is rejected.
LEMMA NoneRejected ==
    ASSUME ReloadInv, Serene', NEW s \in Slots, Handles(s), wire[s].failed
    PROVE  FALSE
<1>1. Serene
  <2>1. UNCHANGED <<db, alone>> /\ (Done(s) \/ \E then, calls : Send(s, then, calls))
    BY HandlesSend
  <2>. QED  BY <2>1 DEF Serene, Done, Send
<1>. QED  BY <1>1 DEF ReloadInv, Reload, SereneWire, Idle

LEMMA HandlesReload ==
    ASSUME ReloadInv, DataInv', NEW s \in Slots, Handles(s), Serene'
    PROVE  Reload'
<1>. USE DEF ReloadInv, DataInv, Shapes, PageShape
<1>1. CASE \/ ReadLoaded(s) \/ FormLoaded(s) \/ AdQueueLoaded(s) \/ ReviewLoaded(s)
           \/ HomeLoaded(s) \/ KeysPageLoaded(s)
  BY <1>1, LoadsReload
<1>2. CASE Filtered(s)
  <2>1. Done(s) /\ page' = [page EXCEPT !.list["listUsage"] = Answer(s), !.loading = FALSE]
        /\ Fulfilled(s, "filter")
    BY <1>2 DEF Filtered
  <2>2. CallOf(s).op = "listUsage"
    <3>1. <<"filter", page.kind, CallOf(s).op>> \in Singles
      BY <2>1, SoleCall
    <3>. QED  BY <3>1 DEF Singles
  <2>3. /\ page'.kind = page.kind /\ page'.project = page.project /\ page'.editing = page.editing
        /\ page'.list = [page.list EXCEPT ![CallOf(s).op] = Answer(s)]
    BY <2>1, <2>2
  <2>. QED  BY <2>1, <2>3, ReadBack
<1>3. CASE KeysLoaded(s)
  <2>1. Done(s) /\ page' = [page EXCEPT !.list["listAPIKeys"] = Answer(s)] /\ Fulfilled(s, "keys")
    BY <1>3 DEF KeysLoaded
  <2>2. CallOf(s).op = "listAPIKeys"
    <3>1. <<"keys", page.kind, CallOf(s).op>> \in Singles
      BY <2>1, SoleCall
    <3>. QED  BY <3>1 DEF Singles
  <2>3. /\ page'.kind = page.kind /\ page'.project = page.project /\ page'.editing = page.editing
        /\ page'.list = [page.list EXCEPT ![CallOf(s).op] = Answer(s)]
    BY <2>1, <2>2
  <2>. QED  BY <2>1, <2>3, ReadBack
<1>4. CASE KeyCreated(s) \/ ProjectCreated(s) \/ NodeCreated(s) \/ ModelCreated(s)
  <2>. DEFINE op == FormList(page.kind)
  <2>1. PICK then \in {"create", "createKey"} :
            /\ Done(s) /\ Fulfilled(s, then)
            /\ then = "createKey" => page'.list = [page.list EXCEPT !["listAPIKeys"] = <<Answer(s)>> \o @]
            /\ then = "create" => page'.list = [page.list EXCEPT ![op] = <<Answer(s)>> \o @]
            /\ page'.kind = page.kind /\ page'.project = page.project /\ page'.editing = page.editing
    <3>1. CASE KeyCreated(s)
      BY <3>1 DEF KeyCreated
    <3>2. CASE ProjectCreated(s)
      BY <3>2 DEF ProjectCreated, FormList
    <3>3. CASE NodeCreated(s)
      BY <3>3 DEF NodeCreated, FormList
    <3>4. CASE ModelCreated(s)
      BY <3>4 DEF ModelCreated, FormList
    <3>. QED  BY <1>4, <3>1, <3>2, <3>3, <3>4
  <2>2. <<then, page.kind, CallOf(s).op>> \in Singles
    BY <2>1, SoleCall
  <2>3. then = "createKey" => op = "listAPIKeys"
    BY <2>2 DEF Singles, FormList
  <2>4. page'.list = [page.list EXCEPT ![op] = <<Answer(s)>> \o page.list[op]]
    BY <2>1, <2>3
  <2>. QED  BY <2>1, <2>4, Made
<1>5. CASE KeyRevoked(s) \/ StatusSaved(s) \/ ModelPaused(s)
  <2>. DEFINE op == FormList(page.kind)
              c == CallOf(s)
  <2>1. PICK then \in {"revoke", "status", "pause"} :
            /\ Done(s) /\ Fulfilled(s, then)
            /\ then = "revoke" => page'.list = [page.list EXCEPT !["listAPIKeys"] = Marked(@, c.on, "revoked")]
            /\ then = "status" => page'.list = [page.list EXCEPT !["listAdminModels"] = Marked(@, c.on, Answer(s).status)]
            /\ then = "pause"  => page'.list = [page.list EXCEPT !["listAdminModels"] = Marked(@, c.on, "paused")]
            /\ page'.kind = page.kind /\ page'.project = page.project /\ page'.editing \in {page.editing, None}
    BY <1>5 DEF KeyRevoked, StatusSaved, ModelPaused
  <2>2. <<then, page.kind, c.op>> \in Singles /\ GoodAnswer(c, Answer(s))
    BY <2>1, SoleCall
  <2>3. CASE then = "revoke"
    <3>1. op = "listAPIKeys" /\ StatusBy(c) = "revoked"
      BY <2>2, <2>3 DEF Singles, FormList, StatusBy
    <3>2. page'.list = [page.list EXCEPT ![op] = Marked(page.list[op], c.on, StatusBy(c))]
      BY <2>1, <2>3, <3>1
    <3>. QED  BY <2>1, <3>2, Changed
  <2>4. CASE then = "status"
    <3>1. op = "listAdminModels" /\ StatusBy(c) = Answer(s).status
      BY <2>2, <2>4 DEF Singles, FormList, StatusBy, GoodAnswer
    <3>2. page'.list = [page.list EXCEPT ![op] = Marked(page.list[op], c.on, StatusBy(c))]
      BY <2>1, <2>4, <3>1
    <3>. QED  BY <2>1, <3>2, Changed
  <2>5. CASE then = "pause"
    <3>1. op = "listAdminModels" /\ StatusBy(c) = "paused"
      BY <2>2, <2>5 DEF Singles, FormList, StatusBy
    <3>2. page'.list = [page.list EXCEPT ![op] = Marked(page.list[op], c.on, StatusBy(c))]
      BY <2>1, <2>5, <3>1
    <3>. QED  BY <2>1, <3>2, Changed
  <2>. QED  BY <2>3, <2>4, <2>5
<1>6. CASE AdJudged(s)
  BY <1>6, JudgedAway
<1>7. CASE Judged(s)
  BY <1>7, JudgedAgain
<1>8. CASE KeySetsLoaded(s) \/ AdjustmentAnswered(s)
  BY <1>8, NothingShown
<1>9. CASE \/ LoadFailed(s) \/ KeySetsFailed(s) \/ FilterFailed(s) \/ CreateKeyFailed(s)
           \/ KeysCallFailed(s) \/ CreateFailed(s) \/ CatalogueCallFailed(s) \/ JudgeFailed(s)
  <2>1. wire[s].failed
    BY <1>9 DEF LoadFailed, KeySetsFailed, FilterFailed, CreateKeyFailed, KeysCallFailed,
                CreateFailed, CatalogueCallFailed, JudgeFailed, Rejected
  <2>. QED  BY <2>1, NoneRejected
<1>. QED
  BY <1>1, <1>2, <1>3, <1>4, <1>5, <1>6, <1>7, <1>8, <1>9 DEF Handles

-----------------------------------------------------------------------------
(***************************************************************************)
(* The server carries out a call, and the answer comes.                    *)
(***************************************************************************)

\* What holds whatever the call is.
LEMMA ArrivedReload ==
    ASSUME ReloadInv, Reload, NEW s \in Slots, NEW c, NEW r, Arrived(s, c, r), page' = page
    PROVE  /\ SereneWire' /\ ReadsShown' /\ ShownLists' = ShownLists
           /\ UnderWay' = UnderWay /\ Named' = Named
           /\ wire[s].mine /\ (page.kind = "review" => Reviewing')
           /\ AnsweredCalls' = AnsweredCalls \cup {c}
           /\ c \in UnderWay /\ GoodCall(c) /\ GoodResult(c, r)
           /\ \A t \in Slots : \A d \in DOMAIN wire[t].got :
                 d \in DOMAIN wire'[t].got /\ wire'[t].got[d] = wire[t].got[d]
           /\ \A t \in Slots : \A d \in DOMAIN wire'[t].got :
                 d \in DOMAIN wire[t].got \/ (t = s /\ d = c)
           /\ c \in DOMAIN wire'[s].got /\ wire'[s].got[c] = r.answer
<1>1. DataInv /\ SereneWire
  BY DEF ReloadInv, Reload
<1>2. SereneWire'
  BY <1>1, ArrivedWire
<1>3. \A t \in Slots : CallsOf(wire'[t]) = CallsOf(wire[t]) /\ wire'[t].then = wire[t].then
  BY DEF Arrived, OnlyAt
<1>4. UnderWay' = UnderWay
  BY <1>3 DEF UnderWay
<1>5. ShownLists' = ShownLists /\ Named' = Named
  BY <1>4, ShownSame DEF Named
<1>6. ReadsShown'
  BY <1>3, <1>4, <1>5 DEF Reload, ReadsShown
<1>7. c \in CallsOf(wire[s]) /\ wire[s].mine
  BY <1>1, OneWrite DEF Arrived
<1>8. page.kind = "review" => Reviewing'
  <2>1. wire'[s].mine
    BY <1>7 DEF Arrived
  <2>. QED  BY <2>1 DEF Reviewing, Idle
<1>9. DOMAIN wire'[s].got = DOMAIN wire[s].got \cup {c}
      /\ \A x \in DOMAIN wire[s].got : wire'[s].got[x] = wire[s].got[x]
      /\ wire'[s].got[c] = r.answer
  BY DEF Arrived
<1>10. \A t \in Slots \ {s} : DOMAIN wire'[t].got = DOMAIN wire[t].got /\ wire'[t].got = wire[t].got
  BY DEF Arrived, OnlyAt
<1>11. AnsweredCalls' = AnsweredCalls \cup {c}
  BY <1>9, <1>10 DEF AnsweredCalls
<1>12. GoodCall(c) /\ c \in UnderWay
  BY <1>1, <1>7 DEF DataInv, Data, WireOK, GoodPromise, UnderWay
<1>13. GoodResult(c, r)
  BY <1>1, <1>12, ResultsAreGood DEF Arrived, DataInv, Data
<1>14. \A t \in Slots : \A d \in DOMAIN wire[t].got :
          d \in DOMAIN wire'[t].got /\ wire'[t].got[d] = wire[t].got[d]
  BY <1>9, <1>10
<1>15. \A t \in Slots : \A d \in DOMAIN wire'[t].got : d \in DOMAIN wire[t].got \/ (t = s /\ d = c)
  BY <1>9, <1>10
<1>16. c \in DOMAIN wire'[s].got /\ wire'[s].got[c] = r.answer
  BY DEF Arrived
<1>17. SereneWire' /\ ReadsShown' /\ ShownLists' = ShownLists /\ UnderWay' = UnderWay /\ Named' = Named
  BY <1>2, <1>4, <1>5, <1>6
<1>. QED  BY <1>7, <1>8, <1>11, <1>12, <1>13, <1>14, <1>15, <1>16, <1>17

LEMMA ReadComes ==
    ASSUME ReloadInv, Reload, NEW s \in Slots, NEW c, NEW r, Arrived(s, c, r), page' = page, c.op \in ReadOps
    PROVE  Reload'
<1>1. /\ SereneWire' /\ ReadsShown' /\ ShownLists' = ShownLists
      /\ UnderWay' = UnderWay /\ Named' = Named
      /\ (page.kind = "review" => Reviewing')
      /\ \A t \in Slots : \A d \in DOMAIN wire[t].got :
            d \in DOMAIN wire'[t].got /\ wire'[t].got[d] = wire[t].got[d]
      /\ \A t \in Slots : \A d \in DOMAIN wire'[t].got :
            d \in DOMAIN wire[t].got \/ (t = s /\ d = c)
  BY ArrivedReload
<1>2. db' = db
  BY ReadAnswer DEF Arrived
<1>3. WritesSame
  BY <1>1 DEF WritesSame
<1>4. ListsFit'
  <2>. SUFFICES ASSUME NEW d \in ShownLists PROVE d \in UnderWay' \/ Reviewing' \/ Fits(d)'
    BY <1>1 DEF ListsFit
  <2>1. d \in UnderWay \/ page.kind = "review" \/ Fits(d)
    BY DEF Reload, ListsFit, Reviewing
  <2>. QED  BY <1>1, <1>2, <1>3, <2>1, FitsSame
<1>5. NamesKnown'
  <2>. SUFFICES ASSUME page.kind \in FormKinds
                PROVE  /\ Named' \subseteq KnownIds'
                       /\ \A t \in Slots : \A d \in DOMAIN wire'[t].got :
                             d.op \in MakeOps => wire'[t].got[d].id \in KnownIds' \ Named'
    BY DEF NamesKnown
  <2>1. KnownIds' = KnownIds
    BY <1>2 DEF KnownIds
  <2>2. ASSUME NEW t \in Slots, NEW d \in DOMAIN wire'[t].got, d.op \in MakeOps
        PROVE  wire'[t].got[d].id \in KnownIds \ Named
    <3>1. d \in DOMAIN wire[t].got /\ wire'[t].got[d] = wire[t].got[d]
      BY <1>3, <2>2, OpsApart DEF WritesSame
    <3>. QED  BY <2>2, <3>1 DEF Reload, NamesKnown
  <2>. QED  BY <1>1, <2>1, <2>2 DEF Reload, NamesKnown
<1>. QED  BY <1>1, <1>4, <1>5 DEF Reload

\* A write is the only call of its promise, and nothing is read meanwhile.
LEMMA WriteComes ==
    ASSUME ReloadInv, Reload, NEW s \in Slots, NEW c, NEW r, Arrived(s, c, r), c.op \notin ReadOps
    PROVE  /\ CallsOf(wire[s]) = {c} /\ DOMAIN wire[s].got = {} /\ r \in Written(c)
           /\ <<wire[s].then, page.kind, c.op>> \in Singles
           /\ \A d \in UnderWay : d.op \notin ReadOps
           /\ page.kind # "review" => \A d \in ShownLists : d.op \in ReadOps /\ Fits(d)
<1>1. DataInv /\ SereneWire
  BY DEF ReloadInv, Reload
<1>2. c.op # "listAPIKeys"
  BY DEF ReadOps
<1>3. CallsOf(wire[s]) = {c} /\ <<wire[s].then, page.kind, c.op>> \in Singles
  BY <1>1, <1>2, OneWrite DEF Arrived
<1>4. DOMAIN wire[s].got = {}
  BY <1>3 DEF Arrived, CallsOf
<1>5. \A d \in UnderWay : d.op \notin ReadOps
  BY <1>1, <1>3, NoReads
<1>6. \A d \in ShownLists : d.op \in ReadOps
  BY <1>1, ShownAre
<1>7. r \in Written(c)
  BY DEF Arrived, Results
<1>. QED  BY <1>3, <1>4, <1>5, <1>6, <1>7 DEF Reload, ListsFit, Reviewing

\* Lists joined, and a row anywhere in a list.
LEMMA RowsJoined ==
    ASSUME NEW R, NEW a \in Seq(R), NEW b \in Seq(R)
    PROVE  /\ a \o b \in Seq(R) /\ Len(a \o b) = Len(a) + Len(b)
           /\ RowSet(a \o b) = RowSet(a) \cup RowSet(b)
<1>. DEFINE ab == a \o b
<1>1. /\ Len(a) \in Nat /\ DOMAIN a = 1 .. Len(a) /\ Len(b) \in Nat /\ DOMAIN b = 1 .. Len(b)
      /\ ab \in Seq(R) /\ Len(ab) = Len(a) + Len(b) /\ DOMAIN ab = 1 .. Len(a) + Len(b)
  OBVIOUS
<1>2. \A i \in 1 .. Len(a) : ab[i] = a[i]
  OBVIOUS
<1>3. \A i \in 1 .. Len(b) : ab[Len(a) + i] = b[i]
  OBVIOUS
<1>. DEFINE m == Len(a)
            n == Len(b)
<1>4. /\ m \in Nat /\ n \in Nat /\ DOMAIN a = 1 .. m /\ DOMAIN b = 1 .. n /\ DOMAIN ab = 1 .. m + n
      /\ (\A i \in 1 .. m : ab[i] = a[i]) /\ \A i \in 1 .. n : ab[m + i] = b[i]
  BY <1>1, <1>2, <1>3
<1>5. RowSet(ab) = RowSet(a) \cup RowSet(b)
  <2>. HIDE DEF ab, m, n
  <2>1. \A i \in 1 .. m + n : i \in 1 .. m \/ \E j \in 1 .. n : i = m + j
    <3>1. \A i \in 1 .. m + n : i \in 1 .. m \/ (i - m \in 1 .. n /\ i = m + (i - m))
      BY <1>4
    <3>. QED  BY <3>1
  <2>2. RowSet(ab) \subseteq RowSet(a) \cup RowSet(b)
    <3>. SUFFICES ASSUME NEW i \in 1 .. m + n PROVE ab[i] \in RowSet(a) \cup RowSet(b)
      BY <1>4 DEF RowSet
    <3>1. CASE i \in 1 .. m
      BY <1>4, <3>1 DEF RowSet
    <3>2. CASE \E j \in 1 .. n : i = m + j
      <4>1. PICK j \in 1 .. n : i = m + j
        BY <3>2
      <4>2. ab[i] = b[j]
        BY <1>4, <4>1
      <4>. QED  BY <1>4, <4>2 DEF RowSet
    <3>. QED  BY <2>1, <3>1, <3>2
  <2>3. RowSet(a) \subseteq RowSet(ab)
    <3>1. \A i \in 1 .. m : i \in 1 .. m + n
      BY <1>4
    <3>. QED  BY <1>4, <3>1 DEF RowSet
  <2>4. RowSet(b) \subseteq RowSet(ab)
    <3>1. \A i \in 1 .. n : m + i \in 1 .. m + n
      BY <1>4
    <3>. QED  BY <1>4, <3>1 DEF RowSet
  <2>. QED  BY <2>2, <2>3, <2>4
<1>. QED  BY <1>1, <1>5

LEMMA RowsSplit ==
    ASSUME NEW R, NEW rows \in Seq(R), NEW n \in 0 .. Len(rows)
    PROVE  LET a == SubSeq(rows, 1, n)
               b == SubSeq(rows, n + 1, Len(rows))
           IN  a \in Seq(R) /\ b \in Seq(R) /\ a \o b = rows
<1>. DEFINE a == SubSeq(rows, 1, n)
            b == SubSeq(rows, n + 1, Len(rows))
<1>1. a \in Seq(R) /\ Len(a) = n /\ \A i \in 1 .. n : a[i] = rows[i]
  OBVIOUS
<1>2. b \in Seq(R) /\ Len(b) = Len(rows) - n /\ \A i \in 1 .. Len(rows) - n : b[i] = rows[n + i]
  OBVIOUS
<1>3. a \o b = rows
  <2>. DEFINE ab == a \o b
              m == Len(rows)
  <2>0. m \in Nat /\ n \in 0 .. m
    OBVIOUS
  <2>. HIDE DEF a, b, m
  <2>1. ab \in Seq(R) /\ Len(ab) = m
    BY <1>1, <1>2, <2>0 DEF m
  <2>2. \A i \in 1 .. m : ab[i] = rows[i]
    <3>1. \A i \in 1 .. n : ab[i] = a[i]
      BY <1>1, <1>2, <2>0
    <3>2. \A j \in 1 .. m - n : ab[n + j] = b[j]
      BY <1>1, <1>2, <2>0 DEF m
    <3>. HIDE DEF ab
    <3>3. ASSUME NEW i \in 1 .. n
          PROVE  ab[i] = rows[i]
      BY <1>1, <3>1, <3>3
    <3>4. ASSUME NEW j \in 1 .. m - n
          PROVE  ab[n + j] = rows[n + j]
      <4>1. b[j] = rows[n + j]
        BY <1>2, <3>4 DEF m
      <4>. QED  BY <3>2, <4>1
    <3>5. \A i \in 1 .. m : i \in 1 .. n \/ \E j \in 1 .. m - n : i = n + j
      <4>1. \A i \in 1 .. m : i \in 1 .. n \/ (i - n \in 1 .. m - n /\ n + (i - n) = i)
        BY <2>0
      <4>. QED  BY <4>1
    <3>. QED  BY <3>3, <3>4, <3>5
  <2>. HIDE DEF ab
  <2>3. DOMAIN ab = DOMAIN rows /\ ab = [i \in DOMAIN ab |-> ab[i]] /\ rows = [i \in DOMAIN rows |-> rows[i]]
        /\ DOMAIN rows = 1 .. Len(rows)
    BY <2>1 DEF m
  <2>4. ab = rows
    BY <2>2, <2>3 DEF m
  <2>. QED  BY <2>4 DEF ab
<1>. QED  BY <1>1, <1>2, <1>3

LEMMA RowAnywhere ==
    ASSUME NEW R, NEW rows \in Seq(R), NEW x \in R, NEW n \in 0 .. Len(rows)
    PROVE  LET new == SubSeq(rows, 1, n) \o <<x>> \o SubSeq(rows, n + 1, Len(rows))
           IN  Len(new) = Len(rows) + 1 /\ RowSet(new) = {x} \cup RowSet(rows)
<1>. DEFINE a == SubSeq(rows, 1, n)
            b == SubSeq(rows, n + 1, Len(rows))
            ax == a \o <<x>>
            new == ax \o b
<1>1. a \in Seq(R) /\ b \in Seq(R) /\ a \o b = rows
  BY RowsSplit
<1>. HIDE DEF a, b
<1>2. RowSet(rows) = RowSet(a) \cup RowSet(b) /\ Len(rows) = Len(a) + Len(b)
  <2>1. Len(a \o b) = Len(a) + Len(b) /\ RowSet(a \o b) = RowSet(a) \cup RowSet(b)
    <3>1. a \in Seq(R) /\ b \in Seq(R)
      BY <1>1
    <3>. QED  BY <3>1, RowsJoined
  <2>. QED  BY <1>1, <2>1
<1>. DEFINE one == <<x>>
<1>3. one \in Seq(R) /\ Len(one) = 1 /\ RowSet(one) = {x}
  BY DEF RowSet
<1>. HIDE DEF one
<1>4. a \o one \in Seq(R) /\ RowSet(a \o one) = RowSet(a) \cup {x} /\ Len(a \o one) = Len(a) + 1
  <2>1. /\ a \o one \in Seq(R) /\ Len(a \o one) = Len(a) + Len(one)
        /\ RowSet(a \o one) = RowSet(a) \cup RowSet(one)
    BY <1>1, <1>3, RowsJoined
  <2>. QED  BY <1>3, <2>1
<1>0. ax = a \o one
  BY DEF one
<1>. HIDE DEF ax
<1>8. ax \in Seq(R) /\ RowSet(ax) = RowSet(a) \cup {x} /\ Len(ax) = Len(a) + 1
  BY <1>0, <1>4
<1>5. RowSet(new) = RowSet(ax) \cup RowSet(b) /\ Len(new) = Len(ax) + Len(b)
  BY <1>1, <1>8, RowsJoined
<1>. HIDE DEF new
<1>6. Len(a) \in Nat /\ Len(b) \in Nat
  BY <1>1
<1>7. Len(new) = Len(rows) + 1 /\ RowSet(new) = {x} \cup RowSet(rows)
  BY <1>2, <1>5, <1>6, <1>8
<1>. QED  BY <1>7 DEF new, ax, a, b

LEMMA IdsAre ==
    ASSUME NEW rows
    PROVE  Ids(rows) = {x.id : x \in RowSet(rows)}
BY DEF Ids, RowSet

TableNames == {"projects", "keys", "providers", "ads", "models", "requests"}

LEMMA TablesAre ==
    ASSUME DataInv
    PROVE  /\ db["projects"] \in Seq(ProjectRow) /\ db["keys"] \in Seq(KeyRow)
           /\ db["providers"] \in Seq(ProviderRow) /\ db["models"] \in Seq(ModelRow)
           /\ db["ads"] \in Seq(AdRow)
BY DEF DataInv, Data, Tables

LEMMA OneTableSet ==
    ASSUME DataInv, NEW table \in TableNames, NEW rows, db' = [db EXCEPT ![table] = rows]
    PROVE  db'[table] = rows /\ \A other \in TableNames \ {table} : db'[other] = db[other]
BY DEF DataInv, Data, Tables, TableNames

\* What a call that makes a row does to the table of the page's list.
LEMMA TableMade ==
    ASSUME DataInv, NEW c, NEW then, c.op \in MakeOps, <<then, page.kind, c.op>> \in Singles,
           GoodCall(c), NEW r \in Written(c), db' = r.db, page' = page
    PROVE  /\ page.kind \in FormKinds /\ r.answer \in FormRow(page.kind)
           /\ r.answer.id \notin KnownIds /\ KnownIds' = KnownIds \cup {r.answer.id}
           /\ \A other \in TableNames \ {FormTable(page.kind)} : db'[other] = db[other]
           /\ c.op = "createAPIKey" => r.answer.project = c.on
           /\ IF page.kind = "catalogue"
              THEN Len(db'["models"]) = Len(db["models"]) + 1
                   /\ RowSet(db'["models"]) = {r.answer} \cup RowSet(db["models"])
              ELSE db'[FormTable(page.kind)] = <<r.answer>> \o db[FormTable(page.kind)]
<1>. DEFINE table == FormTable(page.kind)
            x == r.answer
            R == FormRow(page.kind)
<1>1. page.kind \in FormKinds
  BY DEF Singles, MakeOps, FormKinds
<1>2. /\ table \in TableNames
      /\ db[table] \in Seq(R)
  BY <1>1, FormListTyped DEF FormTable, TableNames
<1>3. ASSUME NEW new, r \in Inserted(table, new), new \subseteq R, NEW ids,
             \A y \in new : y.id \in Unused(table, ids), page.kind # "catalogue"
      PROVE  /\ x \in new /\ x.id \notin KnownIds /\ KnownIds' = KnownIds \cup {x.id}
             /\ \A other \in TableNames \ {table} : db'[other] = db[other]
             /\ db'[table] = <<x>> \o db[table]
  <2>0. PICK y \in new : r = Result(table, <<y>> \o db[table], y)
    <3>. HIDE DEF table
    <3>. QED  BY <1>3 DEF Inserted
  <2>1. x \in new /\ db' = [db EXCEPT ![table] = <<x>> \o db[table]]
    <3>. HIDE DEF table
    <3>. QED  BY <2>0 DEF Result
  <2>2. db'[table] = <<x>> \o db[table]
        /\ \A other \in TableNames \ {table} : db'[other] = db[other]
    <3>. HIDE DEF table, x
    <3>. QED  BY <1>2, <2>1, OneTableSet
  <2>3. x.id \notin KnownIds
    BY <1>3, <2>1, UnusedIsNew DEF KnownIds, Ids, Rows
  <2>4. Ids(<<x>> \o db[table]) = {x.id} \cup Ids(db[table])
    <3>1. x \in R
      BY <1>3, <2>1
    <3>. HIDE DEF table, x, R
    <3>. QED  BY <1>2, <3>1, FrontIds
  <2>5. KnownIds' = KnownIds \cup {x.id}
    <3>1. KnownIds' = Ids(db'[table])
      BY DEF KnownIds
    <3>. QED  BY <2>2, <2>4, <3>1 DEF KnownIds
  <2>. QED  BY <2>1, <2>2, <2>3, <2>5
<1>4. CASE c.op = "createProject"
  <2>. DEFINE new == [id : Unused("projects", Projects)]
  <2>1. r \in Inserted("projects", new)
    BY <1>4 DEF Written
  <2>2. page.kind = "projects"
    BY <1>4 DEF Singles
  <2>3. new \subseteq R /\ table = "projects" /\ \A y \in new : y.id \in Unused("projects", Projects)
    BY <2>2, UnusedIsNew DEF FormRow, FormTable, ProjectRow
  <2>. HIDE DEF new, x, R, table
  <2>4. /\ x \in new /\ x.id \notin KnownIds /\ KnownIds' = KnownIds \cup {x.id}
        /\ \A other \in TableNames \ {table} : db'[other] = db[other]
        /\ db'[table] = <<x>> \o db[table]
    BY <1>3, <2>1, <2>2, <2>3
  <2>. QED  BY <1>1, <1>4, <2>2, <2>3, <2>4 DEF x, R, table
<1>5. CASE c.op = "createAPIKey"
  <2>. DEFINE new == [id : Unused("keys", Keys), project : {c.on}, status : {"active"}]
  <2>1. r \in Inserted("keys", new)
    BY <1>5 DEF Written
  <2>2. page.kind = "keys"
    BY <1>5 DEF Singles
  <2>3. new \subseteq R /\ table = "keys" /\ (\A y \in new : y.id \in Unused("keys", Keys))
        /\ \A y \in new : y.project = c.on
    BY <1>5, <2>2, UnusedIsNew DEF FormRow, FormTable, KeyRow, GoodCall
  <2>. HIDE DEF new, x, R, table
  <2>4. /\ x \in new /\ x.id \notin KnownIds /\ KnownIds' = KnownIds \cup {x.id}
        /\ \A other \in TableNames \ {table} : db'[other] = db[other]
        /\ db'[table] = <<x>> \o db[table]
    BY <1>3, <2>1, <2>2, <2>3
  <2>. QED  BY <1>1, <1>5, <2>2, <2>3, <2>4 DEF x, R, table
<1>6. CASE c.op = "createProvider"
  <2>. DEFINE new == [id : Unused("providers", Providers), approval : {NewApproval}, status : {"active"}]
  <2>1. r \in Inserted("providers", new)
    BY <1>6 DEF Written
  <2>2. page.kind = "nodes"
    BY <1>6 DEF Singles
  <2>3. new \subseteq R /\ table = "providers" /\ \A y \in new : y.id \in Unused("providers", Providers)
    BY <2>2, UnusedIsNew, ClientAssumption DEF FormRow, FormTable, ProviderRow, Approvals, ClientAssumption
  <2>. HIDE DEF new, x, R, table
  <2>4. /\ x \in new /\ x.id \notin KnownIds /\ KnownIds' = KnownIds \cup {x.id}
        /\ \A other \in TableNames \ {table} : db'[other] = db[other]
        /\ db'[table] = <<x>> \o db[table]
    BY <1>3, <2>1, <2>2, <2>3
  <2>. QED  BY <1>1, <1>6, <2>2, <2>3, <2>4 DEF x, R, table
<1>7. CASE c.op = "createAdminModel"
  <2>1. r \in InsertedModel(c.to)
    BY <1>7 DEF Written
  <2>. DEFINE At(y, i) == SubSeq(db.models, 1, i) \o <<y>> \o SubSeq(db.models, i + 1, Len(db.models))
              With(y, i) == [db |-> [db EXCEPT !.models = At(y, i)], answer |-> y]
              new == [id : Unused("models", Models), status : {c.to}]
  <2>2. InsertedModel(c.to) = {With(y, i) : y \in new, i \in 0 .. Len(db.models)}
    BY DEF InsertedModel
  <2>3. PICK y \in new, i \in 0 .. Len(db.models) : r = With(y, i)
    <3>. HIDE DEF With, new
    <3>. QED  BY <2>1, <2>2
  <2>4. page.kind = "catalogue" /\ table = "models" /\ R = ModelRow
    BY <1>7 DEF Singles, FormTable, FormRow
  <2>. DEFINE rows == At(y, i)
  <2>5. x = y /\ db' = [db EXCEPT !["models"] = rows]
    BY <2>3
  <2>6. y \in ModelRow /\ y.id \in Unused("models", Models)
    BY <1>7, UnusedIsNew DEF ModelRow, GoodCall
  <2>7. Len(rows) = Len(db["models"]) + 1 /\ RowSet(rows) = {y} \cup RowSet(db["models"])
    <3>1. db["models"] \in Seq(ModelRow)
      BY TablesAre
    <3>. DEFINE m == db["models"]
    <3>2. rows = SubSeq(m, 1, i) \o <<y>> \o SubSeq(m, i + 1, Len(m)) /\ i \in 0 .. Len(m) /\ m \in Seq(ModelRow)
      BY <3>1
    <3>. HIDE DEF m, rows
    <3>. QED  BY <2>6, <3>2, RowAnywhere DEF m
  <2>. HIDE DEF rows, x, table, R
  <2>8. /\ db'["models"] = rows
        /\ \A other \in TableNames \ {"models"} : db'[other] = db[other]
    BY <2>5, OneTableSet DEF TableNames
  <2>9. x.id \notin KnownIds
    BY <2>4, <2>5, <2>6, UnusedIsNew DEF KnownIds, Ids, Rows, table
  <2>10. KnownIds' = KnownIds \cup {x.id}
    <3>1. KnownIds' = Ids(rows) /\ KnownIds = Ids(db["models"])
      BY <2>4, <2>8 DEF KnownIds, table
    <3>2. Ids(rows) = {z.id : z \in RowSet(rows)} /\ Ids(db["models"]) = {z.id : z \in RowSet(db["models"])}
      BY IdsAre
    <3>. QED  BY <2>5, <2>7, <3>1, <3>2
  <2>. QED  BY <1>1, <1>7, <2>4, <2>5, <2>6, <2>7, <2>8, <2>9, <2>10 DEF x, table, R
<1>. QED  BY <1>4, <1>5, <1>6, <1>7 DEF MakeOps

\* The lists of a page with a form, as the server holds them.
LEMMA FormShown ==
    ASSUME DataInv, page.kind \in FormKinds, NEW d \in ShownLists
    PROVE  IF d.op = FormList(page.kind)
           THEN page.kind = "keys" => d.on = page.project
           ELSE page.kind = "keys" /\ d.op \in {"listProjects", "listModels"}
<1>1. CASE page.kind = "keys"
  BY <1>1 DEF ShownLists, FormList, Boot, KeysLoads, Read, Call
<1>2. CASE page.kind \in {"projects", "nodes", "catalogue"}
  BY <1>2 DEF ShownLists, FormList, Boot, ProjectsLoads, NodesLoads, CatalogueLoads, Read, Call
<1>. QED  BY <1>1, <1>2 DEF FormKinds

\* It depends on the table of the page alone, and on no other for the others.
KeysOf(p, rows) == Kept(rows, {k \in RowSet(rows) : k.project = p})

LEMMA FormListed ==
    ASSUME DataInv, page.kind \in FormKinds, page' = page, NEW d \in ShownLists,
           \A other \in TableNames \ {FormTable(page.kind)} : db'[other] = db[other]
    PROVE  /\ d.op # FormList(page.kind) => Listed(d)' = Listed(d)
           /\ d.op = FormList(page.kind) =>
                 IF page.kind = "keys"
                 THEN /\ Listed(d) = KeysOf(page.project, db["keys"])
                      /\ Listed(d)' = KeysOf(page.project, db'["keys"])
                 ELSE /\ Listed(d) = db[FormTable(page.kind)]
                      /\ Listed(d)' = db'[FormTable(page.kind)]
<1>1. CASE d.op # FormList(page.kind)
  <2>1. page.kind = "keys" /\ d.op \in {"listProjects", "listModels"}
    BY <1>1, FormShown
  <2>2. db'["projects"] = db["projects"] /\ db'["models"] = db["models"]
    BY <2>1 DEF FormTable, TableNames
  <2>3. d.op = "listProjects" => Listed(d)' = Listed(d)
    BY <2>2 DEF Listed
  <2>4. d.op = "listModels" => Listed(d)' = Listed(d)
    BY <2>2 DEF Listed, Rows
  <2>. QED  BY <1>1, <2>1, <2>3, <2>4
<1>2. CASE d.op = FormList(page.kind) /\ page.kind = "keys"
  <2>1. d.op = "listAPIKeys" /\ d.on = page.project
    BY <1>2, FormShown DEF FormList
  <2>2. Listed(d) = KeysOf(page.project, db["keys"])
    BY <2>1 DEF Listed, KeysOf, Rows, RowSet
  <2>3. Listed(d)' = KeysOf(page.project, db'["keys"])
    BY <2>1 DEF Listed, KeysOf, Rows, RowSet
  <2>. QED  BY <1>2, <2>2, <2>3
<1>3. CASE d.op = FormList(page.kind) /\ page.kind \in {"projects", "nodes", "catalogue"}
  BY <1>3 DEF Listed, FormList, FormTable
<1>. QED  BY <1>1, <1>2, <1>3 DEF FormKinds

LEMMA KeysOfAre ==
    ASSUME NEW rows \in Seq(KeyRow), NEW p
    PROVE  KeysOf(p, rows) = Kept(rows, {k \in KeyRow : k.project = p})
<1>. DEFINE T == {k \in KeyRow : k.project = p}
<1>1. \A i \in DOMAIN rows : rows[i] \in T <=> rows[i] \in {k \in RowSet(rows) : k.project = p}
  BY DEF RowSet
<1>. HIDE DEF T
<1>2. Kept(rows, T) = KeysOf(p, rows)
  BY <1>1, KeptSame DEF KeysOf
<1>. QED  BY <1>2 DEF T

LEMMA KeyInFront ==
    ASSUME NEW rows \in Seq(KeyRow), NEW x \in KeyRow
    PROVE  KeysOf(x.project, <<x>> \o rows) = <<x>> \o KeysOf(x.project, rows)
<1>. DEFINE T == {k \in KeyRow : k.project = x.project}
            new == <<x>> \o rows
<1>1. new \in Seq(KeyRow)
  OBVIOUS
<1>2. x \in T
  OBVIOUS
<1>. HIDE DEF new
<1>3. Kept(rows, T) = KeysOf(x.project, rows) /\ Kept(new, T) = KeysOf(x.project, new)
  BY <1>1, KeysOfAre
<1>. HIDE DEF T
<1>4. Kept(new, T) = <<x>> \o Kept(rows, T)
  BY <1>2, KeptFront DEF new
<1>. QED  BY <1>3, <1>4 DEF new

\* A row was made.
LEMMA MakeComes ==
    ASSUME ReloadInv, Reload, NEW s \in Slots, NEW c, NEW r, Arrived(s, c, r), page' = page,
           c.op \in MakeOps
    PROVE  Reload'
<1>. DEFINE x == r.answer
            op == FormList(page.kind)
            table == FormTable(page.kind)
            R == FormRow(page.kind)
<1>0. DataInv /\ SereneWire /\ Flags /\ c.op \notin ReadOps
  BY OpsApart DEF ReloadInv, Reload
<1>1. /\ SereneWire' /\ ReadsShown' /\ ShownLists' = ShownLists
      /\ UnderWay' = UnderWay /\ Named' = Named
      /\ AnsweredCalls' = AnsweredCalls \cup {c}
      /\ c \in UnderWay /\ GoodCall(c)
      /\ \A t \in Slots : \A d \in DOMAIN wire'[t].got :
            d \in DOMAIN wire[t].got \/ (t = s /\ d = c)
      /\ c \in DOMAIN wire'[s].got /\ wire'[s].got[c] = x
  BY ArrivedReload
<1>2. /\ CallsOf(wire[s]) = {c} /\ DOMAIN wire[s].got = {} /\ r \in Written(c)
      /\ <<wire[s].then, page.kind, c.op>> \in Singles
      /\ page.kind # "review" => \A d \in ShownLists : d.op \in ReadOps /\ Fits(d)
  BY <1>0, WriteComes
<1>3. db' = r.db
  BY DEF Arrived
<1>. HIDE DEF x, R
<1>4. /\ page.kind \in FormKinds /\ x \in R
      /\ x.id \notin KnownIds /\ KnownIds' = KnownIds \cup {x.id}
      /\ \A other \in TableNames \ {table} : db'[other] = db[other]
      /\ c.op = "createAPIKey" => x.project = c.on
      /\ IF page.kind = "catalogue"
         THEN Len(db'["models"]) = Len(db["models"]) + 1
              /\ RowSet(db'["models"]) = {x} \cup RowSet(db["models"])
         ELSE db'[table] = <<x>> \o db[table]
  BY <1>0, <1>1, <1>2, <1>3, TableMade DEF x, R
<1>5. \A d \in AnsweredCalls : d.op \notin MakeOps
  <2>. SUFFICES ASSUME NEW t \in Slots, NEW d \in DOMAIN wire[t].got, d.op \in MakeOps PROVE FALSE
    BY DEF AnsweredCalls
  <2>1. d \in CallsOf(wire[t])
    BY DEF CallsOf
  <2>2. t = s
    BY <1>0, <1>2, <2>1, OneMaker
  <2>. QED  BY <1>2, <2>2
<1>6. Changes' = Changes
  BY <1>1, OpsApart DEF Changes
<1>7. \A d \in ShownLists : d.op \in ReadOps /\ Fits(d)
  BY <1>2, <1>4 DEF FormKinds
<1>8. /\ op \in ReadOps /\ page.list[op] \in Seq(R) /\ db[table] \in Seq(R)
  BY <1>0, <1>4, FormListTyped DEF R
<1>9. ASSUME NEW d \in ShownLists, d.op = op
      PROVE  IF op = "listAdminModels"
             THEN Len(Listed(d)') = Len(Listed(d)) + 1 /\ RowSet(Listed(d)') = {x} \cup RowSet(Listed(d))
             ELSE Listed(d)' = <<x>> \o Listed(d)
  <2>1. IF page.kind = "keys"
        THEN /\ Listed(d) = KeysOf(page.project, db["keys"])
             /\ Listed(d)' = KeysOf(page.project, db'["keys"])
        ELSE /\ Listed(d) = db[table]
             /\ Listed(d)' = db'[table]
    BY <1>0, <1>4, <1>9, FormListed
  <2>2. CASE page.kind = "keys"
    <3>1. table = "keys" /\ op = "listAPIKeys" /\ R = KeyRow
      BY <2>2 DEF FormTable, FormList, FormRow, R
    <3>2. c.op = "createAPIKey"
      BY <1>2, <2>2 DEF Singles, MakeOps
    <3>3. x.project = page.project
      BY <1>1, <1>4, <3>2 DEF Reload, ReadsShown
    <3>4. db'["keys"] = <<x>> \o db["keys"] /\ db["keys"] \in Seq(KeyRow) /\ x \in KeyRow
      BY <1>4, <1>8, <2>2, <3>1
    <3>5. KeysOf(x.project, <<x>> \o db["keys"]) = <<x>> \o KeysOf(x.project, db["keys"])
      BY <3>4, KeyInFront
    <3>. QED  BY <2>1, <2>2, <3>1, <3>3, <3>4, <3>5
  <2>3. CASE page.kind = "catalogue"
    <3>1. table = "models" /\ op = "listAdminModels"
      BY <2>3 DEF FormTable, FormList
    <3>. QED  BY <1>4, <2>1, <2>3, <3>1
  <2>4. CASE page.kind \in {"projects", "nodes"}
    <3>1. op # "listAdminModels" /\ page.kind # "catalogue" /\ page.kind # "keys"
      BY <2>4 DEF FormList
    <3>. QED  BY <1>4, <2>1, <3>1
  <2>. QED  BY <1>4, <2>2, <2>3, <2>4 DEF FormKinds
<1>. HIDE DEF op, table
<1>10. ASSUME NEW d \in ShownLists
       PROVE  Fits(d)'
  <2>1. d.op \in ReadOps /\ Fits(d) /\ page.kind # "adQueue"
    BY <1>4, <1>7 DEF FormKinds
  <2>2. CASE d.op = op
    <3>. DEFINE L == page.list[op]
                rows == DueRows(Changes, L)
    <3>1. IsFormList(d)
      BY <1>4, <2>2 DEF IsFormList, op
    <3>2. SameRows(op, rows, Listed(d))
      BY <1>5, <2>1, <2>2, <3>1 DEF Fits, FitsForm
    <3>3. rows \in Seq(RowSet(rows) \cup {x})
      <4>1. Len(L) \in Nat /\ DOMAIN L = 1 .. Len(L)
        BY <1>8
      <4>2. DOMAIN rows = 1 .. Len(L) /\ rows = [i \in 1 .. Len(L) |-> rows[i]]
        BY <4>1 DEF DueRows
      <4>. HIDE DEF rows, L
      <4>3. rows \in [1 .. Len(L) -> RowSet(rows) \cup {x}]
        BY <4>2 DEF RowSet
      <4>. QED  BY <4>1, <4>3
    <3>. HIDE DEF rows
    <3>4. SameRows(op, <<x>> \o rows, Listed(d)')
      BY <1>9, <2>2, <3>2, <3>3, SameFront
    <3>5. DueRows(Changes', page'.list[d.op]) = rows
      BY <1>6, <2>2 DEF rows
    <3>6. \A t \in Slots : \A e \in DOMAIN wire'[t].got :
             e.op \in MakeOps => SameRows(d.op, <<wire'[t].got[e]>> \o rows, Listed(d)')
      <4>. SUFFICES ASSUME NEW t \in Slots, NEW e \in DOMAIN wire'[t].got, e.op \in MakeOps
                    PROVE  SameRows(d.op, <<wire'[t].got[e]>> \o rows, Listed(d)')
        OBVIOUS
      <4>1. t = s /\ e = c
        BY <1>1, <1>5 DEF AnsweredCalls
      <4>2. wire'[t].got[e] = x
        BY <1>1, <4>1
      <4>. QED  BY <2>2, <3>4, <4>2
    <3>7. FitsForm(d)'
      BY <1>1, <3>5, <3>6 DEF FitsForm
    <3>. QED  BY <2>1, <3>1, <3>7 DEF Fits, IsFormList
  <2>3. CASE d.op # op
    <3>1. ~IsFormList(d)
      BY <1>4, <2>3 DEF IsFormList, op
    <3>2. page.list[d.op] = Listed(d)
      BY <2>1, <3>1 DEF Fits
    <3>3. Listed(d)' = Listed(d)
      BY <1>0, <1>4, <2>3, FormListed DEF op, table
    <3>. QED  BY <2>1, <3>1, <3>2, <3>3 DEF Fits, IsFormList
  <2>. QED  BY <2>2, <2>3
<1>11. ListsFit'
  BY <1>1, <1>10 DEF ListsFit
<1>12. NamesKnown'
  <2>1. Named \subseteq KnownIds
    BY <1>4 DEF Reload, NamesKnown
  <2>2. ASSUME NEW t \in Slots, NEW e \in DOMAIN wire'[t].got, e.op \in MakeOps
        PROVE  wire'[t].got[e].id \in KnownIds' \ Named'
    <3>1. t = s /\ e = c
      BY <1>1, <1>5, <2>2 DEF AnsweredCalls
    <3>2. wire'[t].got[e] = x
      BY <1>1, <3>1
    <3>. QED  BY <1>1, <1>4, <2>1, <3>2
  <2>. QED  BY <1>1, <1>4, <2>1, <2>2 DEF NamesKnown
<1>. QED  BY <1>1, <1>11, <1>12 DEF Reload

\* What a call that changes a row does to the table of the page's list.
LEMMA TableChanged ==
    ASSUME DataInv, NEW c, NEW then, c.op \in ChangeOps, <<then, page.kind, c.op>> \in Singles,
           NEW r \in Written(c), db' = r.db, page' = page
    PROVE  /\ page.kind \in {"keys", "catalogue"}
           /\ page.kind = "keys" => StatusBy(c) = "revoked"
           /\ db'[FormTable(page.kind)] = Marked(db[FormTable(page.kind)], c.on, StatusBy(c))
           /\ \A other \in TableNames \ {FormTable(page.kind)} : db'[other] = db[other]
           /\ KnownIds' = KnownIds
<1>. DEFINE table == FormTable(page.kind)
            rows == Marked(db[table], c.on, StatusBy(c))
<1>1. page.kind \in {"keys", "catalogue"}
  BY DEF Singles, ChangeOps
<1>2. page.kind = "keys" => StatusBy(c) = "revoked"
  BY DEF Singles, ChangeOps, StatusBy
<1>3. db' = [db EXCEPT ![table] = rows]
  <2>1. CASE c.op = "revokeAPIKey"
    <3>1. table = "keys" /\ StatusBy(c) = "revoked"
      BY <2>1 DEF Singles, FormTable, StatusBy
    <3>2. r \in SetStatus("keys", c.on, "revoked")
      BY <2>1 DEF Written
    <3>3. r = Result("keys", Marked(db["keys"], c.on, "revoked"), None)
      BY <3>2 DEF SetStatus
    <3>. QED  BY <3>1, <3>3 DEF Result
  <2>2. CASE c.op = "updateAdminModel"
    <3>1. table = "models" /\ StatusBy(c) = c.to
      BY <2>2 DEF Singles, FormTable, StatusBy
    <3>2. PICK q \in SetStatus("models", c.on, c.to) :
              r = [q EXCEPT !.answer = [id |-> c.on, status |-> c.to]]
      BY <2>2 DEF Written
    <3>3. q = Result("models", Marked(db["models"], c.on, c.to), None)
      BY <3>2 DEF SetStatus
    <3>4. r.db = q.db
      BY <3>2, <3>3 DEF Result
    <3>. QED  BY <3>1, <3>3, <3>4 DEF Result
  <2>3. CASE c.op = "pauseAdminModel"
    <3>1. table = "models" /\ StatusBy(c) = "paused"
      BY <2>3 DEF Singles, FormTable, StatusBy
    <3>2. r \in SetStatus("models", c.on, "paused")
      BY <2>3 DEF Written
    <3>3. r = Result("models", Marked(db["models"], c.on, "paused"), None)
      BY <3>2 DEF SetStatus
    <3>. QED  BY <3>1, <3>3 DEF Result
  <2>. QED  BY <2>1, <2>2, <2>3 DEF ChangeOps
<1>4. table \in TableNames
  BY <1>1 DEF FormTable, TableNames
<1>5. Ids(rows) = Ids(db[table])
  <2>1. /\ db[table] \in Seq(FormRow(page.kind)) /\ Tabular(FormRow(page.kind))
    BY <1>1, FormListTyped DEF FormKinds
  <2>. QED  BY <2>1, MarkedIds
<1>. HIDE DEF rows, table
<1>6. db'[table] = rows /\ \A other \in TableNames \ {table} : db'[other] = db[other]
  BY <1>3, <1>4, OneTableSet
<1>7. KnownIds' = KnownIds
  BY <1>5, <1>6 DEF KnownIds, table
<1>. QED  BY <1>1, <1>2, <1>6, <1>7 DEF table, rows

\* What Kept makes of a list with a status changed.
MarkRow(x, id, status) == IF x.id = id THEN [x EXCEPT !.status = status] ELSE x

LEMMA KeptMarked ==
    ASSUME NEW R, NEW rows \in Seq(R), NEW id, NEW status, NEW T, NEW U,
           \A x \in R : MarkRow(x, id, status) \in U <=> x \in T
    PROVE  Kept(Marked(rows, id, status), U) = Marked(Kept(rows, T), id, status)
<1>. DEFINE f == [x \in R |-> MarkRow(x, id, status)]
<1>2. \A x \in R : f[x] \in U <=> x \in T
  OBVIOUS
<1>3. ASSUME NEW s \in Seq(R)
      PROVE  Mapped(f, s) = Marked(s, id, status)
  <2>1. \A i \in DOMAIN s : s[i] \in R
    OBVIOUS
  <2>. QED  BY <2>1 DEF Mapped, Marked, MarkRow
<1>. HIDE DEF f
<1>4. Kept(Mapped(f, rows), U) = Mapped(f, Kept(rows, T))
  BY <1>2, KeptMapped
<1>. DEFINE K == Kept(rows, T)
<1>5. K \in Seq(R \cap T)
  BY KeptRows
<1>. HIDE DEF K
<1>6. K \in Seq(R)
  BY <1>5
<1>7. Mapped(f, rows) = Marked(rows, id, status) /\ Mapped(f, K) = Marked(K, id, status)
  BY <1>3, <1>6
<1>. QED  BY <1>4, <1>7 DEF K

LEMMA KeyMarked ==
    ASSUME NEW rows \in Seq(KeyRow), NEW p, NEW id
    PROVE  KeysOf(p, Marked(rows, id, "revoked")) = Marked(KeysOf(p, rows), id, "revoked")
<1>. DEFINE T == {k \in KeyRow : k.project = p}
            M == Marked(rows, id, "revoked")
<1>1. \A k \in KeyRow : MarkRow(k, id, "revoked") \in T <=> k \in T
  BY DEF KeyRow, MarkRow
<1>2. M \in Seq(KeyRow)
  BY MarkedRows
<1>. HIDE DEF M
<1>3. KeysOf(p, rows) = Kept(rows, T) /\ KeysOf(p, M) = Kept(M, T)
  BY <1>2, KeysOfAre
<1>. HIDE DEF T
<1>4. Kept(Marked(rows, id, "revoked"), T) = Marked(Kept(rows, T), id, "revoked")
  BY <1>1, KeptMarked
<1>. QED  BY <1>3, <1>4 DEF M

\* A row was changed.
LEMMA ChangeComes ==
    ASSUME ReloadInv, Reload, NEW s \in Slots, NEW c, NEW r, Arrived(s, c, r), page' = page,
           c.op \in ChangeOps
    PROVE  Reload'
<1>. DEFINE op == FormList(page.kind)
            table == FormTable(page.kind)
            R == FormRow(page.kind)
            status == StatusBy(c)
            L == page.list[op]
<1>0. DataInv /\ SereneWire /\ c.op \notin ReadOps /\ c.op \notin MakeOps
  BY OpsApart DEF ReloadInv, Reload
<1>1. /\ SereneWire' /\ ReadsShown' /\ ShownLists' = ShownLists
      /\ UnderWay' = UnderWay /\ Named' = Named
      /\ AnsweredCalls' = AnsweredCalls \cup {c}
      /\ c \in UnderWay
      /\ \A t \in Slots : \A d \in DOMAIN wire[t].got :
            d \in DOMAIN wire'[t].got /\ wire'[t].got[d] = wire[t].got[d]
      /\ \A t \in Slots : \A d \in DOMAIN wire'[t].got :
            d \in DOMAIN wire[t].got \/ (t = s /\ d = c)
  BY ArrivedReload
<1>2. /\ CallsOf(wire[s]) = {c} /\ DOMAIN wire[s].got = {} /\ r \in Written(c)
      /\ <<wire[s].then, page.kind, c.op>> \in Singles
      /\ page.kind # "review" => \A d \in ShownLists : d.op \in ReadOps /\ Fits(d)
  BY <1>0, WriteComes
<1>3. db' = r.db
  BY DEF Arrived
<1>4. /\ page.kind \in {"keys", "catalogue"}
      /\ page.kind = "keys" => status = "revoked"
      /\ db'[table] = Marked(db[table], c.on, status)
      /\ \A other \in TableNames \ {table} : db'[other] = db[other]
      /\ KnownIds' = KnownIds
  BY <1>0, <1>2, <1>3, TableChanged
<1>5. page.kind \in FormKinds
  BY <1>4 DEF FormKinds
<1>6. /\ op \in ReadOps /\ L \in Seq(R) /\ db[table] \in Seq(R) /\ Tabular(R)
  BY <1>0, <1>5, FormListTyped
<1>. HIDE DEF status, R, L
<1>7. \A t \in Slots : \A d \in DOMAIN wire'[t].got : d.op \in MakeOps =>
          d \in DOMAIN wire[t].got /\ wire'[t].got[d] = wire[t].got[d]
  BY <1>0, <1>1
<1>8. DueRows(Changes', L) = Marked(DueRows(Changes, L), c.on, status)
  <2>1. c \notin Changes
    <3>. SUFFICES ASSUME NEW t \in Slots, c \in DOMAIN wire[t].got PROVE FALSE
      BY DEF Changes, AnsweredCalls
    <3>1. c \in CallsOf(wire[t])
      BY DEF CallsOf
    <3>2. t = s
      BY <1>0, <1>2, <3>1, ChangesApart
    <3>. QED  BY <1>2, <3>2
  <2>2. Changes' = Changes \cup {c}
    BY <1>1 DEF Changes
  <2>3. Changes \cup {c} \subseteq {d \in UnderWay : d.op \in ChangeOps}
    BY <1>1 DEF Changes, AnsweredCalls, UnderWay, CallsOf
  <2>4. OnePerRow(Changes \cup {c})
    BY <1>0, <2>3, ChangesApart DEF OnePerRow
  <2>. QED  BY <1>6, <2>1, <2>2, <2>4, DueAnswered DEF status
<1>9. ASSUME NEW d \in ShownLists, d.op = op
      PROVE  Listed(d)' = Marked(Listed(d), c.on, status)
  <2>1. IF page.kind = "keys"
        THEN /\ Listed(d) = KeysOf(page.project, db["keys"])
             /\ Listed(d)' = KeysOf(page.project, db'["keys"])
        ELSE /\ Listed(d) = db[table]
             /\ Listed(d)' = db'[table]
    BY <1>0, <1>4, <1>5, <1>9, FormListed
  <2>2. CASE page.kind = "keys"
    <3>1. table = "keys" /\ R = KeyRow
      BY <2>2 DEF FormTable, FormRow, R
    <3>2. /\ db'["keys"] = Marked(db["keys"], c.on, "revoked") /\ db["keys"] \in Seq(KeyRow)
          /\ status = "revoked"
      BY <1>4, <1>6, <2>2, <3>1
    <3>3. KeysOf(page.project, Marked(db["keys"], c.on, "revoked"))
            = Marked(KeysOf(page.project, db["keys"]), c.on, "revoked")
      BY <3>2, KeyMarked
    <3>. QED  BY <2>1, <2>2, <3>2, <3>3
  <2>3. CASE page.kind # "keys"
    BY <1>4, <2>1, <2>3
  <2>. QED  BY <2>2, <2>3
<1>. HIDE DEF op, table
<1>10. ASSUME NEW d \in ShownLists
       PROVE  Fits(d)'
  <2>1. d.op \in ReadOps /\ Fits(d) /\ page.kind # "adQueue"
    BY <1>2, <1>4
  <2>2. CASE d.op = op
    <3>. DEFINE rows == DueRows(Changes, L)
                held == Listed(d)
    <3>1. IsFormList(d)
      BY <1>5, <2>2 DEF IsFormList, op
    <3>2. /\ \A t \in Slots : \A e \in DOMAIN wire[t].got :
                e.op \in MakeOps => SameRows(op, <<wire[t].got[e]>> \o rows, held)
          /\ (\A e \in AnsweredCalls : e.op \notin MakeOps) => SameRows(op, rows, held)
      BY <2>1, <2>2, <3>1 DEF Fits, FitsForm, L
    <3>3. rows \in Seq(RowSet(rows)) /\ held \in Seq(RowsOf(op))
      <4>1. Len(L) \in Nat /\ DOMAIN L = 1 .. Len(L)
        BY <1>6
      <4>2. DOMAIN rows = 1 .. Len(L) /\ rows = [i \in 1 .. Len(L) |-> rows[i]]
        BY <4>1 DEF DueRows
      <4>3. held \in Seq(RowsOf(op))
        BY <1>0, <2>1, <2>2, ListedRows DEF DataInv, Data
      <4>. HIDE DEF rows, held
      <4>4. rows \in [1 .. Len(L) -> RowSet(rows)]
        BY <4>2 DEF RowSet
      <4>. QED  BY <4>1, <4>3, <4>4
    <3>4. held' = Marked(held, c.on, status)
      BY <1>9, <2>2
    <3>5. DueRows(Changes', page'.list[d.op]) = Marked(rows, c.on, status)
      BY <1>8, <2>2 DEF L
    <3>. HIDE DEF rows, held
    <3>6. ASSUME NEW t \in Slots, NEW e \in DOMAIN wire'[t].got, e.op \in MakeOps
          PROVE  SameRows(op, <<wire'[t].got[e]>> \o Marked(rows, c.on, status), held')
      <4>. DEFINE y == wire[t].got[e]
                  new == <<y>> \o rows
      <4>1. e \in DOMAIN wire[t].got /\ wire'[t].got[e] = y
        BY <1>7, <3>6
      <4>2. y.id # c.on
        <5>1. y.id \notin Named
          BY <1>5, <3>6, <4>1 DEF Reload, NamesKnown
        <5>2. c.on \in Named
          BY <1>1 DEF Named
        <5>. QED  BY <5>1, <5>2
      <4>3. SameRows(op, new, held)
        BY <3>2, <3>6, <4>1
      <4>. HIDE DEF y
      <4>4. new \in Seq(RowSet(rows) \cup {y})
        BY <3>3
      <4>5. Marked(new, c.on, status) = <<y>> \o Marked(rows, c.on, status)
        <5>1. rows \in Seq(RowSet(rows))
          BY <3>3
        <5>2. Marked(<<y>> \o rows, c.on, status) = <<y>> \o Marked(rows, c.on, status)
          BY <4>2, <5>1, MarkedFront
        <5>. QED  BY <5>2
      <4>. HIDE DEF new
      <4>6. SameRows(op, Marked(new, c.on, status), Marked(held, c.on, status))
        BY <3>3, <4>3, <4>4, SameMarked
      <4>. QED  BY <3>4, <4>1, <4>5, <4>6
    <3>7. ASSUME \A e \in AnsweredCalls' : e.op \notin MakeOps
          PROVE  SameRows(op, Marked(rows, c.on, status), held')
      <4>1. SameRows(op, rows, held)
        BY <1>1, <3>2, <3>7
      <4>2. SameRows(op, Marked(rows, c.on, status), Marked(held, c.on, status))
        BY <3>3, <4>1, SameMarked
      <4>. QED  BY <3>4, <4>2
    <3>8. FitsForm(d)'
      BY <1>1, <2>2, <3>5, <3>6, <3>7 DEF FitsForm, held
    <3>. QED  BY <2>1, <3>1, <3>8 DEF Fits, IsFormList
  <2>3. CASE d.op # op
    <3>1. ~IsFormList(d)
      BY <1>5, <2>3 DEF IsFormList, op
    <3>2. page.list[d.op] = Listed(d)
      BY <2>1, <3>1 DEF Fits
    <3>3. Listed(d)' = Listed(d)
      BY <1>0, <1>4, <1>5, <2>3, FormListed DEF op, table
    <3>. QED  BY <2>1, <3>1, <3>2, <3>3 DEF Fits, IsFormList
  <2>. QED  BY <2>2, <2>3
<1>11. ListsFit'
  BY <1>1, <1>10 DEF ListsFit
<1>12. NamesKnown'
  BY <1>1, <1>4, <1>5, <1>7 DEF Reload, NamesKnown
<1>. QED  BY <1>1, <1>11, <1>12 DEF Reload

\* The review page will load again whatever has come; the page of the wallets
\* shows nothing.
LEMMA NoListComes ==
    ASSUME ReloadInv, Reload, NEW s \in Slots, NEW c, NEW r, Arrived(s, c, r), page' = page,
           page.kind \in {"review", "wallets"}
    PROVE  Reload'
<1>1. /\ SereneWire' /\ ReadsShown' /\ ShownLists' = ShownLists
      /\ (page.kind = "review" => Reviewing')
  BY ArrivedReload
<1>2. page.kind = "wallets" => ShownLists = {}
  BY DEF ShownLists, Boot
<1>3. ListsFit'
  BY <1>1, <1>2 DEF ListsFit
<1>4. NamesKnown'
  BY DEF NamesKnown, FormKinds
<1>. QED  BY <1>1, <1>3, <1>4 DEF Reload

\* An advertisement that was judged is in the queue no longer.
PendingAds  == {a \in AdRow : a.status = "pending"}
AdsBut(ids) == {a \in AdRow : a.id \notin ids}

LEMMA QueueJudged ==
    ASSUME NEW ads \in Seq(AdRow), NEW list \in Seq(AdRow), NEW id, NEW status \in {"approved", "rejected"},
           NEW judged, Kept(ads, PendingAds) = Kept(list, AdsBut(judged))
    PROVE  Kept(Marked(ads, id, status), PendingAds) = Kept(list, AdsBut(judged \cup {id}))
<1>. DEFINE U == PendingAds
            W == AdsBut(judged)
            V == AdsBut(judged \cup {id})
            N == {a \in AdRow : a.id # id}
            T == U \cap N
            M == Marked(ads, id, status)
            K == Kept(ads, T)
<1>1. \A a \in AdRow : MarkRow(a, id, status) \in U <=> a \in T
  BY DEF AdRow, MarkRow, PendingAds
<1>2. T = U \cap N /\ V = W \cap N
  BY DEF AdsBut
<1>. HIDE DEF T
<1>3. Kept(M, U) = Marked(K, id, status)
  BY <1>1, KeptMarked
<1>4. K \in Seq(AdRow \cap T)
  BY KeptRows
<1>. HIDE DEF K, M
<1>5. Marked(K, id, status) = K
  <2>1. \A i \in DOMAIN K : K[i] \in T
    BY <1>4
  <2>2. \A i \in DOMAIN K : K[i].id # id
    BY <1>2, <2>1
  <2>3. K = [i \in DOMAIN K |-> K[i]]
    BY <1>4
  <2>. QED  BY <2>2, <2>3 DEF Marked
<1>. HIDE DEF N
<1>6. Kept(Kept(ads, U), N) = K
  <2>1. Kept(Kept(ads, U), N) = Kept(ads, U \cap N)
    BY KeptKept
  <2>. QED  BY <1>2, <2>1 DEF K
<1>7. Kept(Kept(list, W), N) = Kept(list, V)
  <2>1. Kept(Kept(list, W), N) = Kept(list, W \cap N)
    BY KeptKept
  <2>. QED  BY <1>2, <2>1
<1>. QED  BY <1>3, <1>5, <1>6, <1>7 DEF M

LEMMA JudgeComes ==
    ASSUME ReloadInv, Reload, NEW s \in Slots, NEW c, NEW r, Arrived(s, c, r), page' = page,
           page.kind = "adQueue", c.op \in JudgeOps
    PROVE  Reload'
<1>. DEFINE op == "listPendingProviderModels"
            L == page.list[op]
            d == Read(op)
            U == PendingAds
            W == AdsBut(JudgedIds)
            V == AdsBut(JudgedIds \cup {c.on})
<1>0. DataInv /\ c.op \notin ReadOps
  BY OpsApart DEF ReloadInv
<1>1. /\ SereneWire' /\ ReadsShown' /\ ShownLists' = ShownLists
      /\ AnsweredCalls' = AnsweredCalls \cup {c}
  BY ArrivedReload
<1>2. /\ r \in Written(c)
      /\ \A e \in ShownLists : e.op \in ReadOps /\ Fits(e)
  BY <1>0, WriteComes
<1>3. ShownLists = {d} /\ d.op = op
  BY DEF ShownLists, Boot, AdQueueLoads, Read, Call
<1>4. JudgedIds' = JudgedIds \cup {c.on}
  BY <1>1 DEF JudgedIds
<1>5. PICK status \in {"approved", "rejected"} : db'["ads"] = Marked(db["ads"], c.on, status)
  <2>1. PICK status \in {"approved", "rejected"} : r \in SetStatus("ads", c.on, status)
    BY <1>2 DEF Written, JudgeOps
  <2>2. r = Result("ads", Marked(db["ads"], c.on, status), None)
    BY <2>1 DEF SetStatus
  <2>3. db' = [db EXCEPT !["ads"] = Marked(db["ads"], c.on, status)]
    BY <2>2 DEF Result, Arrived
  <2>. QED  BY <1>0, <2>3, OneTableSet DEF TableNames
<1>6. db["ads"] \in Seq(AdRow) /\ L \in Seq(AdRow)
  <2>1. L \in Seq(RowsOf(op))
    BY <1>0 DEF DataInv, Data, PageTyped, ListsTyped, ReadOps
  <2>. QED  BY <1>0, <2>1, TablesAre DEF RowsOf
<1>7. Marked(db["ads"], c.on, status) \in Seq(AdRow)
  BY <1>6, MarkedRows DEF Approvals
<1>. HIDE DEF L
<1>8. ASSUME NEW rows \in Seq(AdRow)
      PROVE  /\ Kept(rows, {a \in RowSet(rows) : a.status = "pending"}) = Kept(rows, U)
             /\ Kept(rows, {a \in RowSet(rows) : a.id \notin JudgedIds}) = Kept(rows, W)
             /\ Kept(rows, {a \in RowSet(rows) : a.id \notin JudgedIds \cup {c.on}}) = Kept(rows, V)
  <2>. DEFINE UU == {a \in RowSet(rows) : a.status = "pending"}
              WW == {a \in RowSet(rows) : a.id \notin JudgedIds}
              VV == {a \in RowSet(rows) : a.id \notin JudgedIds \cup {c.on}}
  <2>1. \A i \in DOMAIN rows : rows[i] \in RowSet(rows) /\ rows[i] \in AdRow
    BY DEF RowSet
  <2>2. \A i \in DOMAIN rows : /\ rows[i] \in UU <=> rows[i] \in U
                               /\ rows[i] \in WW <=> rows[i] \in W
                               /\ rows[i] \in VV <=> rows[i] \in V
    BY <2>1 DEF PendingAds, AdsBut
  <2>. HIDE DEF U, V, W, UU, VV, WW
  <2>3. Kept(rows, UU) = Kept(rows, U)
    BY <2>2, KeptSame
  <2>4. Kept(rows, WW) = Kept(rows, W)
    BY <2>2, KeptSame
  <2>5. Kept(rows, VV) = Kept(rows, V)
    BY <2>2, KeptSame
  <2>. QED  BY <2>3, <2>4, <2>5 DEF UU, VV, WW
<1>9. /\ Listed(d) = Kept(db["ads"], {a \in RowSet(db["ads"]) : a.status = "pending"})
      /\ Listed(d)' = Kept(db'["ads"], {a \in RowSet(db'["ads"]) : a.status = "pending"})
  BY <1>3 DEF Listed, Rows, RowSet, Read, Call
<1>10. Listed(d) = Kept(L, {a \in RowSet(L) : a.id \notin JudgedIds})
  BY <1>2, <1>3 DEF Fits, FitsQueue, L
<1>11. Kept(db["ads"], U) = Kept(L, W)
  BY <1>6, <1>8, <1>9, <1>10
<1>12. Listed(d)' = Kept(L, {a \in RowSet(L) : a.id \notin JudgedIds \cup {c.on}})
  <2>1. Kept(Marked(db["ads"], c.on, status), U) = Kept(L, V)
    BY <1>6, <1>11, QueueJudged
  <2>. HIDE DEF U, V
  <2>2. Listed(d)' = Kept(db'["ads"], U)
    BY <1>5, <1>7, <1>8, <1>9
  <2>. QED  BY <1>5, <1>6, <1>8, <2>1, <2>2
<1>13. ListsFit'
  <2>1. FitsQueue(d)'
    BY <1>3, <1>4, <1>12 DEF FitsQueue, L
  <2>2. Fits(d)'
    BY <2>1 DEF Fits, IsFormList, FormKinds
  <2>. HIDE DEF d
  <2>. QED  BY <1>1, <1>3, <2>2 DEF ListsFit
<1>14. NamesKnown'
  BY DEF NamesKnown, FormKinds
<1>. QED  BY <1>1, <1>13, <1>14 DEF Reload

\* Whatever the call.
LEMMA AnsweredReload ==
    ASSUME ReloadInv, Reload, NEW s \in Slots, Answered(s)
    PROVE  Reload'
<1>1. DataInv /\ page' = page
  BY DEF ReloadInv, Answered
<1>2. PICK c, r : Arrived(s, c, r)
  BY <1>1, AnswerArrives
<1>3. CASE c.op \in ReadOps
  BY <1>1, <1>2, <1>3, ReadComes
<1>4. CASE c.op \notin ReadOps
  <2>1. <<wire[s].then, page.kind, c.op>> \in Singles
    BY <1>2, <1>4, WriteComes
  <2>2. \/ page.kind \in {"review", "wallets"}
        \/ page.kind = "adQueue" /\ c.op \in JudgeOps
        \/ c.op \in MakeOps \cup ChangeOps
    BY <1>4, <2>1 DEF Singles, MakeOps, ChangeOps, JudgeOps, ReadOps
  <2>. QED  BY <1>1, <1>2, <2>2, NoListComes, JudgeComes, MakeComes, ChangeComes
<1>. QED  BY <1>3, <1>4

-----------------------------------------------------------------------------
(***************************************************************************)
(* A page that has just been mounted, with nothing under way but its load. *)
(***************************************************************************)
FreshPage ==
    /\ page = Mounted(page.kind)
    /\ \/ Boot(page.kind) = {} /\ \A s \in Slots : wire[s] = Idle
       \/ \E s \in Slots : /\ wire[s] = Promised("load", Boot(page.kind))
                           /\ \A t \in Slots \ {s} : wire[t] = Idle

LEMMA FreshReload == DataInv /\ FreshPage => Reload
<1>. SUFFICES ASSUME DataInv, FreshPage PROVE Reload
  OBVIOUS
<1>0. page.kind \in AllPages
  BY DEF DataInv, Shapes, PageShape
<1>1. /\ page.project = None /\ page.editing = None
      /\ \A op \in ReadOps : page.list[op] = << >>
  BY DEF FreshPage, Mounted
<1>2. \A c \in Boot(page.kind) : c.op \in ReadOps
  BY <1>0, BootReads
<1>3. ShownLists = Boot(page.kind)
  BY <1>1 DEF ShownLists, Boot, UsageLoads, Read
<1>4. /\ UnderWay = Boot(page.kind)
      /\ \A s \in Slots : /\ DOMAIN wire[s].got = {}
                          /\ CallsOf(wire[s]) \subseteq Boot(page.kind)
                          /\ wire[s] = Idle \/ (wire[s].mine /\ ~wire[s].failed)
      /\ \A s, t \in Slots : s # t => CallsOf(wire[s]) = {} \/ CallsOf(wire[t]) = {}
  <2>1. CASE Boot(page.kind) = {} /\ \A s \in Slots : wire[s] = Idle
    BY <2>1, IdleHasNone DEF UnderWay
  <2>2. CASE \E s \in Slots : /\ wire[s] = Promised("load", Boot(page.kind))
                              /\ \A t \in Slots \ {s} : wire[t] = Idle
    <3>1. PICK s \in Slots : /\ wire[s] = Promised("load", Boot(page.kind))
                             /\ \A t \in Slots \ {s} : wire[t] = Idle
      BY <2>2
    <3>2. /\ CallsOf(wire[s]) = Boot(page.kind) /\ DOMAIN wire[s].got = {}
          /\ wire[s].mine /\ ~wire[s].failed
      BY <3>1, PromisedHas
    <3>3. \A t \in Slots \ {s} : CallsOf(wire[t]) = {} /\ DOMAIN wire[t].got = {}
      BY <3>1, IdleHasNone
    <3>4. UnderWay = Boot(page.kind)
      BY <3>2, <3>3 DEF UnderWay
    <3>. QED  BY <3>1, <3>2, <3>3, <3>4
  <2>. QED  BY <2>1, <2>2 DEF FreshPage
<1>5. SereneWire
  BY <1>4 DEF SereneWire, Clash
<1>6. ReadsShown
  <2>1. \A c \in UnderWay : c.op # "createAPIKey"
    BY <1>2, <1>4 DEF ReadOps
  <2>. QED  BY <1>3, <1>4, <2>1 DEF ReadsShown
<1>7. ListsFit
  BY <1>3, <1>4 DEF ListsFit
<1>8. NamesKnown
  <2>. SUFFICES ASSUME page.kind \in FormKinds PROVE Named = {}
    BY <1>4 DEF NamesKnown
  <2>1. page.list[FormList(page.kind)] = << >>
    BY <1>1 DEF FormList, ReadOps
  <2>2. Ids(<< >>) = {}
    BY DEF Ids
  <2>3. {d \in UnderWay : d.op \in ChangeOps} = {}
    BY <1>2, <1>4, OpsApart
  <2>. QED  BY <1>1, <2>1, <2>2, <2>3 DEF Named
<1>. QED  BY <1>5, <1>6, <1>7, <1>8 DEF Reload

LEMMA InitFresh == Init => FreshPage
<1>. SUFFICES ASSUME Init PROVE FreshPage
  OBVIOUS
<1>1. PICK kind \in Pages :
        /\ page = Mounted(kind)
        /\ wire = [s \in Slots |-> IF s = 1 /\ Boot(kind) # {} THEN Promised("load", Boot(kind)) ELSE Idle]
  BY DEF Init
<1>2. page.kind = kind /\ 1 \in Slots
  BY <1>1, ClientAssumption DEF ClientAssumption, Slots, Mounted
<1>3. CASE Boot(kind) = {}
  BY <1>1, <1>2, <1>3 DEF FreshPage
<1>4. CASE Boot(kind) # {}
  <2>1. wire[1] = Promised("load", Boot(kind)) /\ \A t \in Slots \ {1} : wire[t] = Idle
    BY <1>1, <1>2, <1>4
  <2>. QED  BY <1>1, <1>2, <2>1 DEF FreshPage
<1>. QED  BY <1>3, <1>4

LEMMA RemountFresh ==
    ASSUME Remount, Serene'
    PROVE  FreshPage'
<1>. DEFINE left == [s \in Slots |-> Left(wire[s])]
<1>1. page' = Mounted(page.kind) /\ page'.kind = page.kind
  BY DEF Remount, Mounted
<1>2. \A s \in Slots : left[s] = Idle
  BY DEF Remount, Serene
<1>3. CASE Boot(page.kind) = {}
  <2>1. wire' = left
    BY <1>3 DEF Remount
  <2>. HIDE DEF left
  <2>. QED  BY <1>1, <1>2, <1>3, <2>1 DEF FreshPage
<1>4. CASE Boot(page.kind) # {}
  <2>1. PICK s \in Slots : wire' = [left EXCEPT ![s] = Promised("load", Boot(page.kind))]
    BY <1>4 DEF Remount
  <2>2. wire'[s] = Promised("load", Boot(page.kind)) /\ \A t \in Slots \ {s} : wire'[t] = left[t]
    BY <2>1
  <2>. HIDE DEF left
  <2>. QED  BY <1>1, <1>2, <2>2 DEF FreshPage
<1>. QED  BY <1>3, <1>4

-----------------------------------------------------------------------------
\* ReloadInv is inductive.
LEMMA ReloadStep ==
    ASSUME ReloadInv, [Next]_vars, DataInv', Serene'
    PROVE  Reload'
<1>1. ASSUME NEW s \in Slots, Acts(s)
      PROVE  Reload'
  BY <1>1, ActsReload
<1>2. ASSUME NEW s \in Slots, Handles(s)
      PROVE  Reload'
  BY <1>2, HandlesReload
<1>3. ASSUME NEW s \in Slots, Answered(s)
      PROVE  Reload'
  <2>1. Serene
    BY <1>3 DEF Answered, Serene
  <2>. QED  BY <1>3, <2>1, AnsweredReload DEF ReloadInv
<1>4. ASSUME NEW s \in Slots, Failed(s)
      PROVE  FALSE
  BY <1>4 DEF Failed, Serene
<1>5. ASSUME NEW s \in Slots, Ignored(s)
      PROVE  FALSE
  <2>1. SereneWire
    BY <1>5 DEF Ignored, Serene, ReloadInv, Reload
  <2>. QED  BY <1>5, <2>1, IdleHasNone DEF Ignored, SereneWire
<1>6. CASE Clicks \/ Elsewhere(Others) \/ UNCHANGED vars
  BY <1>6, ClicksReload
<1>7. CASE Remount
  <2>1. FreshPage'
    BY <1>7, RemountFresh
  <2>2. (DataInv /\ FreshPage => Reload)'
    BY FreshReload, PTL
  <2>. QED  BY <2>1, <2>2
<1>. QED  BY <1>1, <1>2, <1>3, <1>4, <1>5, <1>6, <1>7 DEF Next

LEMMA ReloadInductive == Spec => []ReloadInv
<1>1. Init => ReloadInv
  BY InitFresh, FreshReload, InitMounts, InitData, MountedFlags DEF ReloadInv, DataInv
<1>2. ReloadInv /\ [Next]_vars /\ DataInv' /\ FlagsInv' => ReloadInv'
  BY ReloadStep DEF ReloadInv, FlagsInv
<1>. QED  BY <1>1, <1>2, DataInductive, FlagsInductive, PTL DEF Spec

-----------------------------------------------------------------------------
(***************************************************************************)
(* The start page.  Nothing patches it; what it says of the keys comes     *)
(* from a list of each of the projects it has read before.                 *)
(***************************************************************************)
ProjectIds == Ids(db["projects"])

KeysKnown == \A k \in RowSet(db["keys"]) : k.project \in ProjectIds

KeyCalls == {Call("listAPIKeys", p, None) : p \in ProjectIds}

KeysOfAll ==
    \A s \in Slots : wire[s].mine /\ wire[s].then = "keySets" => CallsOf(wire[s]) = KeyCalls

HomeKey == AKeyIsActive => page.loading \/ page.hasKey

HomeFits == page.kind = "home" => KeysKnown /\ (Serene => KeysOfAll /\ HomeKey)
HomeInv  == ReloadInv /\ CurrentInv /\ HomeFits

LEMMA KnownIsHad == KeysHaveProjects(db) <=> KeysKnown
BY DEF KeysHaveProjects, KeysKnown, RowSet, ProjectIds, Ids

\* What others change on the start page leaves every key with its project.
LEMMA StillKnown ==
    ASSUME DataInv, KeysKnown, page.kind = "home", Elsewhere(Others)
    PROVE  KeysKnown'
<1>1. PICK c \in OnProjects \cup OnKeys \cup OnRequests : \E r \in Results(c) : db' = r.db
  BY DEF Elsewhere, Others
<1>2. PICK r \in Results(c) : db' = r.db
  BY <1>1
<1>3. db["projects"] \in Seq(ProjectRow) /\ db["keys"] \in Seq(KeyRow)
  BY TablesAre
<1>4. ASSUME db'["keys"] = db["keys"], ProjectIds \subseteq ProjectIds'
      PROVE  KeysKnown'
  BY <1>4 DEF KeysKnown
<1>5. ASSUME NEW table \in TableNames, NEW new, r \in Inserted(table, new)
      PROVE  \E x \in new : /\ db'[table] = <<x>> \o db[table]
                            /\ \A other \in TableNames \ {table} : db'[other] = db[other]
  <2>1. PICK x \in new : r = Result(table, <<x>> \o db[table], x)
    BY <1>5 DEF Inserted
  <2>. DEFINE rows == <<x>> \o db[table]
  <2>2. db' = [db EXCEPT ![table] = rows]
    BY <1>2, <2>1 DEF Result
  <2>. HIDE DEF rows
  <2>3. db'[table] = rows /\ \A other \in TableNames \ {table} : db'[other] = db[other]
    BY <2>2, OneTableSet
  <2>. QED  BY <2>3 DEF rows
<1>6. CASE c.op = "createProject"
  <2>. DEFINE new == [id : Unused("projects", Projects)]
  <2>1. r \in Inserted("projects", new)
    BY <1>2, <1>6 DEF Results, Written, ReadOps
  <2>2. new \subseteq ProjectRow
    BY UnusedIsNew DEF ProjectRow
  <2>. HIDE DEF new
  <2>3. PICK x \in new : /\ db'["projects"] = <<x>> \o db["projects"]
                         /\ \A other \in TableNames \ {"projects"} : db'[other] = db[other]
    BY <1>5, <2>1 DEF TableNames
  <2>4. Ids(<<x>> \o db["projects"]) = {x.id} \cup Ids(db["projects"])
    BY <1>3, <2>2, FrontIds
  <2>. QED  BY <1>4, <2>3, <2>4 DEF ProjectIds, TableNames
<1>7. CASE c.op = "createAPIKey"
  <2>. DEFINE new == [id : Unused("keys", Keys), project : {c.on}, status : {"active"}]
  <2>1. r \in Inserted("keys", new)
    BY <1>2, <1>7 DEF Results, Written, ReadOps
  <2>2. c.on \in ProjectIds
    BY <1>7 DEF OnProjects, OnKeys, OnRequests, Call, ProjectIds, Ids, Rows
  <2>3. \A x \in new : x.project = c.on
    OBVIOUS
  <2>. HIDE DEF new
  <2>4. PICK x \in new : /\ db'["keys"] = <<x>> \o db["keys"]
                         /\ \A other \in TableNames \ {"keys"} : db'[other] = db[other]
    BY <1>5, <2>1 DEF TableNames
  <2>5. RowSet(db'["keys"]) = {x} \cup RowSet(db["keys"])
    <3>1. db["keys"] \in Seq(KeyRow \cup {x})
      BY <1>3
    <3>. QED  BY <2>4, <3>1, RowSetFront
  <2>6. ProjectIds' = ProjectIds
    BY <2>4 DEF ProjectIds, TableNames
  <2>. QED  BY <2>2, <2>3, <2>5, <2>6 DEF KeysKnown
<1>8. CASE c.op = "revokeAPIKey"
  <2>1. r \in SetStatus("keys", c.on, "revoked")
    BY <1>2, <1>8 DEF Results, Written, ReadOps
  <2>. DEFINE M == Marked(db["keys"], c.on, "revoked")
  <2>2. db' = [db EXCEPT !["keys"] = M]
    BY <1>2, <2>1 DEF SetStatus, Result
  <2>3. \A i \in DOMAIN M : i \in DOMAIN db["keys"] /\ M[i].project = db["keys"][i].project
    <3>1. \A i \in DOMAIN db["keys"] : db["keys"][i] \in KeyRow
      BY <1>3
    <3>. QED  BY <3>1 DEF Marked, KeyRow
  <2>. HIDE DEF M
  <2>4. db'["keys"] = M /\ db'["projects"] = db["projects"]
    BY <2>2, OneTableSet DEF TableNames
  <2>. QED  BY <2>3, <2>4 DEF KeysKnown, RowSet, ProjectIds
<1>9. CASE c.op = "settle"
  <2>1. r \in Inserted("requests", [id : Unused("requests", Requests), project : {c.on}])
    BY <1>2, <1>9 DEF Results, Written, ReadOps
  <2>2. \A other \in TableNames \ {"requests"} : db'[other] = db[other]
    BY <1>5, <2>1 DEF TableNames
  <2>. QED  BY <1>4, <2>2 DEF TableNames, ProjectIds
<1>. QED  BY <1>6, <1>7, <1>8, <1>9 DEF OnProjects, OnKeys, OnRequests, Call

\* What happens on the start page.
LEMMA HomeActs ==
    ASSUME DataInv, page.kind = "home"
    PROVE  /\ ~Clicks /\ \A s \in Slots : ~Acts(s)
           /\ \A s \in Slots : Handles(s) => HomeLoaded(s) \/ KeySetsLoaded(s) \/ wire[s].failed
<1>1. ~Clicks
  BY DEF Clicks, SubmitInvalid, ShowNodeForm, EditModel, Tick, DismissAdjustment, TurnTo, JudgeDismissed
<1>2. \A s \in Slots : ~Acts(s)
  BY DEF Acts, Filter, ChooseProject, SubmitKey, Revoke, SubmitProject, SubmitNode, SubmitModel,
         SubmitAdjustment, SaveStatus, Pause, Judge, JudgeAd
<1>3. ASSUME NEW s \in Slots, Handles(s), ~wire[s].failed
      PROVE  HomeLoaded(s) \/ KeySetsLoaded(s)
  <2>1. \/ HomeLoaded(s) \/ KeySetsLoaded(s)
        \/ \E then \in {"filter", "keys", "createKey", "revoke", "status", "pause", "judgeAd", "judge", "adjust"} :
              Fulfilled(s, then)
    BY <1>3 DEF Handles, ReadLoaded, LoadFailed, KeySetsFailed, Filtered, FilterFailed,
         KeysPageLoaded, KeysLoaded, KeyCreated, CreateKeyFailed, KeyRevoked, KeysCallFailed,
         FormLoaded, CreateFailed, ProjectCreated, NodeCreated, ModelCreated, StatusSaved,
         ModelPaused, CatalogueCallFailed, AdjustmentAnswered, ReviewLoaded, Judged, AdQueueLoaded,
         AdJudged, JudgeFailed, Rejected
  <2>2. ASSUME NEW then \in {"filter", "keys", "createKey", "revoke", "status", "pause", "judgeAd", "judge", "adjust"},
               Fulfilled(s, then)
        PROVE  FALSE
    <3>1. <<then, page.kind, CallOf(s).op>> \in Singles
      BY <2>2, SoleCall
    <3>. QED  BY <3>1 DEF Singles
  <2>. QED  BY <2>1, <2>2
<1>. QED  BY <1>1, <1>2, <1>3

\* The first round: the projects it asks with are all there are.
LEMMA HomeAsks ==
    ASSUME HomeInv, page.kind = "home", NEW s \in Slots, HomeLoaded(s), Serene'
    PROVE  KeysOfAll' /\ HomeKey'
<1>1. /\ page'.kind = page.kind /\ UNCHANGED <<db, alone>> /\ Fulfilled(s, "load")
      /\ DataInv /\ Flags
  BY DEF HomeLoaded, Done, HomeInv, ReloadInv, DataInv, Shapes, PageShape
<1>2. Serene
  BY <1>1 DEF HomeLoaded, Done, Send, Serene
<1>3. SereneWire /\ KeysOfAll /\ KeysKnown
  BY <1>2 DEF HomeInv, ReloadInv, Reload, HomeFits
<1>4. ProjectIds' = ProjectIds /\ KeyCalls' = KeyCalls /\ (AKeyIsActive' <=> AKeyIsActive)
  <2>1. ProjectIds' = ProjectIds
    BY <1>1 DEF ProjectIds
  <2>. QED  BY <1>1, <2>1, ListedSame DEF KeyCalls
<1>. DEFINE projects == Got(s, "listProjects")
<1>5. projects = db["projects"]
  <2>. DEFINE c == Read("listProjects")
  <2>1. c \in Boot(page.kind) /\ c.op = "listProjects" /\ "listProjects" \in ReadOps
    BY DEF Boot, HomeLoads, Read, Call, ReadOps
  <2>2. DOMAIN wire[s].got = Boot(page.kind) /\ Filled(s)[c.op] = Listed(c)
    BY <1>1, <1>3, <2>1, FilledHeld
  <2>3. Filled(s)["listProjects"] = projects
    BY <2>1, <2>2 DEF Filled
  <2>4. Listed(c) = db["projects"]
    BY <2>1 DEF Listed
  <2>. QED  BY <2>1, <2>2, <2>3, <2>4
<1>6. CASE projects = << >>
  <2>1. Done(s)
    BY <1>6 DEF HomeLoaded
  <2>2. wire'[s] = Idle /\ OnlyAt(s)
    BY <1>1, <2>1, DoneEffect DEF DataInv, Shapes
  <2>3. KeysOfAll'
    BY <1>3, <1>4, <2>2 DEF KeysOfAll, OnlyAt, Idle
  <2>4. ~AKeyIsActive
    <3>1. ProjectIds = {}
      BY <1>5, <1>6 DEF ProjectIds, Ids
    <3>. QED  BY <1>3, <3>1 DEF KeysKnown, AKeyIsActive, Rows, RowSet
  <2>. QED  BY <1>4, <2>3, <2>4 DEF HomeKey
<1>7. CASE projects # << >>
  <2>. DEFINE calls == {Call("listAPIKeys", projects[i].id, None) : i \in DOMAIN projects}
  <2>1. Send(s, "keySets", calls) /\ page' = [page EXCEPT !.list = Filled(s)]
    BY <1>7 DEF HomeLoaded
  <2>2. calls = KeyCalls
    BY <1>5 DEF KeyCalls, ProjectIds, Ids
  <2>. HIDE DEF calls
  <2>3. wire'[s] = Promised("keySets", calls) /\ OnlyAt(s)
    BY <1>1, <2>1, SendEffect DEF DataInv, Shapes
  <2>4. KeysOfAll'
    BY <1>3, <1>4, <2>2, <2>3, PromisedHas DEF KeysOfAll, OnlyAt
  <2>5. page.loading
    BY <1>1 DEF Flags, LoadsOnce, Waits, Loading, Fulfilled
  <2>6. page'.loading
    BY <1>1, <2>1, <2>5 DEF DataInv, Shapes, PageShape
  <2>. QED  BY <2>4, <2>6 DEF HomeKey
<1>. QED  BY <1>6, <1>7

\* A row that is in T is kept.
LEMMA KeptHas ==
    ASSUME NEW S, NEW rows \in Seq(S), NEW T, NEW i \in DOMAIN rows, rows[i] \in T
    PROVE  \E j \in DOMAIN Kept(rows, T) : Kept(rows, T)[j] = rows[i]
<1>. DEFINE K == Kept(rows, T)
            one == {rows[i]}
<1>1. K \in Seq(S)
  <2>1. K \in Seq(S \cap T)
    BY KeptRows
  <2>. HIDE DEF K
  <2>. QED  BY <2>1
<1>2. Kept(K, one) = Kept(rows, T \cap one)
  <2>. HIDE DEF one
  <2>. QED  BY KeptKept
<1>3. Kept(rows, T \cap one) # << >>
  <2>1. rows[i] \in T \cap one
    OBVIOUS
  <2>. HIDE DEF one
  <2>. QED  BY <2>1, KeptRows
<1>. HIDE DEF K
<1>4. ~(\A j \in DOMAIN K : K[j] \notin one)
  <2>. HIDE DEF one
  <2>. QED  BY <1>1, <1>2, <1>3, KeptRows
<1>. QED  BY <1>4 DEF K

\* The second round: an active key is in the answer for its project.
LEMMA HomeHears ==
    ASSUME HomeInv, page.kind = "home", NEW s \in Slots, KeySetsLoaded(s), Serene'
    PROVE  KeysOfAll' /\ HomeKey'
<1>1. /\ page'.kind = page.kind /\ UNCHANGED <<db, calm, alone>> /\ Fulfilled(s, "keySets") /\ Done(s)
      /\ DataInv /\ AnswersCurrent /\ (page'.hasKey <=> HasActiveKey(s))
  BY DEF KeySetsLoaded, Done, HomeInv, ReloadInv, DataInv, Shapes, PageShape, CurrentInv, Current, ReadKinds
<1>2. Serene /\ KeysOfAll /\ KeysKnown
  BY <1>1 DEF Serene, HomeInv, HomeFits
<1>3. KeyCalls' = KeyCalls /\ (AKeyIsActive' <=> AKeyIsActive)
  <2>1. ProjectIds' = ProjectIds
    BY <1>1 DEF ProjectIds
  <2>. QED  BY <1>1, <2>1, ListedSame DEF KeyCalls
<1>4. wire'[s] = Idle /\ OnlyAt(s)
  BY <1>1, DoneEffect DEF DataInv, Shapes
<1>5. KeysOfAll'
  BY <1>2, <1>3, <1>4 DEF KeysOfAll, OnlyAt, Idle
<1>6. DOMAIN wire[s].got = KeyCalls
  BY <1>1, <1>2 DEF KeysOfAll, Fulfilled, CallsOf
<1>7. ASSUME AKeyIsActive
      PROVE  HasActiveKey(s)
  <2>1. PICK i \in DOMAIN db["keys"] : db["keys"][i].status = "active"
    BY <1>7 DEF AKeyIsActive, Rows
  <2>. DEFINE k == db["keys"][i]
              c == Call("listAPIKeys", k.project, None)
              T == {x \in Rows("keys") : x.project = c.on}
  <2>2. c \in DOMAIN wire[s].got
    <3>1. k.project \in ProjectIds
      BY <1>2, <2>1 DEF KeysKnown, RowSet
    <3>. QED  BY <1>6, <3>1 DEF KeyCalls
  <2>3. wire[s].got[c] = Listed(c)
    BY <1>1, <1>2, <2>2 DEF AnswersCurrent, Serene
  <2>4. Listed(c) = Kept(db["keys"], T)
    BY DEF Listed, Call
  <2>5. k \in T
    BY <2>1 DEF Rows, Call
  <2>6. db["keys"] \in Seq(KeyRow)
    BY <1>1, TablesAre
  <2>. HIDE DEF T, c
  <2>7. \E j \in DOMAIN Kept(db["keys"], T) : Kept(db["keys"], T)[j] = k
    BY <2>1, <2>5, <2>6, KeptHas
  <2>. QED  BY <2>1, <2>2, <2>3, <2>4, <2>7 DEF HasActiveKey
<1>. QED  BY <1>1, <1>3, <1>5, <1>7 DEF HomeKey

\* HomeInv is inductive.
LEMMA HomeSame ==
    ASSUME HomeFits, page.kind = "home", page' = page, UNCHANGED <<db, calm, alone>>,
           \A s \in Slots : /\ wire'[s].mine = wire[s].mine /\ wire'[s].then = wire[s].then
                            /\ CallsOf(wire'[s]) = CallsOf(wire[s])
    PROVE  HomeFits'
<1>1. ProjectIds' = ProjectIds
  BY DEF ProjectIds
<1>2. KeyCalls' = KeyCalls /\ (AKeyIsActive' <=> AKeyIsActive)
  BY <1>1, ListedSame DEF KeyCalls
<1>3. KeysKnown'
  BY <1>1 DEF HomeFits, KeysKnown
<1>4. ASSUME Serene'
      PROVE  KeysOfAll' /\ HomeKey'
  <2>1. KeysOfAll /\ HomeKey
    BY <1>4 DEF HomeFits, Serene
  <2>. QED  BY <1>2, <2>1 DEF KeysOfAll, HomeKey
<1>. QED  BY <1>3, <1>4 DEF HomeFits

LEMMA HomeStep ==
    ASSUME HomeInv, [Next]_vars
    PROVE  HomeFits'
<1>1. DataInv /\ Flags /\ ReloadInv /\ CurrentInv /\ HomeFits /\ Shapes
  BY DEF HomeInv, ReloadInv, DataInv
<1>2. CASE page'.kind # "home"
  BY <1>2 DEF HomeFits
<1>3. CASE page'.kind = "home"
  <2>1. page.kind = "home"
    BY <1>1, <1>3, NextEffects DEF Effects, Mounted
  <2>2. KeysKnown /\ AnswersCurrent
    BY <1>1, <2>1 DEF HomeFits, CurrentInv, Current, ReadKinds
  <2>3. UNCHANGED db => KeysKnown'
    BY <2>2 DEF KeysKnown, ProjectIds
  <2>4. ASSUME NEW s \in Slots, NEW c \in wire[s].todo, NEW r \in Results(c)
        PROVE  r.db = db
    <3>1. c.op \in ReadOps
      BY <2>2 DEF AnswersCurrent
    <3>. QED  BY <3>1, ReadAnswer
  <2>5. ASSUME NEW s \in Slots, Handles(s)
        PROVE  HomeFits'
    <3>1. KeysKnown'
      BY <2>3, <2>5, HandlesSend
    <3>2. Serene' => KeysOfAll' /\ HomeKey'
      BY <1>1, <2>1, <2>5, HomeActs, HomeAsks, HomeHears, NoneRejected
    <3>. QED  BY <3>1, <3>2 DEF HomeFits
  <2>6. ASSUME NEW s \in Slots, Answered(s)
        PROVE  HomeFits'
    <3>1. PICK c, r : Arrived(s, c, r)
      BY <1>1, <2>6, AnswerArrives
    <3>2. db' = db
      BY <2>4, <3>1 DEF Arrived
    <3>3. \A t \in Slots : /\ wire'[t].mine = wire[t].mine /\ wire'[t].then = wire[t].then
                           /\ CallsOf(wire'[t]) = CallsOf(wire[t])
      BY <3>1 DEF Arrived, OnlyAt
    <3>. QED  BY <1>1, <2>1, <2>6, <3>2, <3>3, HomeSame DEF Answered
  <2>7. ASSUME NEW s \in Slots, Failed(s)
        PROVE  HomeFits'
    <3>1. UNCHANGED db
      BY <2>4, <2>7 DEF Failed
    <3>2. ~Serene'
      BY <2>7 DEF Failed, Serene
    <3>. QED  BY <2>3, <3>1, <3>2 DEF HomeFits
  <2>8. ASSUME NEW s \in Slots, Ignored(s)
        PROVE  FALSE
    BY <1>1, <2>2, <2>8 DEF Ignored, AnswersCurrent, DataInv, Data, WireOK, GoodPromise
  <2>9. CASE Remount
    <3>1. KeysKnown'
      BY <2>3, <2>9 DEF Remount
    <3>2. JustMounted'
      BY <1>1, <2>9, RemountMounts
    <3>3. page'.loading /\ \A s \in Slots : wire'[s].mine => wire'[s].then = "load"
      BY <1>3, <3>2 DEF JustMounted
    <3>4. KeysOfAll' /\ HomeKey'
      BY <3>3 DEF KeysOfAll, HomeKey
    <3>. QED  BY <3>1, <3>4 DEF HomeFits
  <2>10. CASE Elsewhere(Others)
    <3>1. KeysKnown'
      BY <1>1, <2>1, <2>2, <2>10, StillKnown
    <3>2. ~Serene'
      BY <2>10 DEF Elsewhere, Serene
    <3>. QED  BY <3>1, <3>2 DEF HomeFits
  <2>11. CASE UNCHANGED vars
    BY <1>1, <2>1, <2>11, HomeSame DEF vars
  <2>12. ~Clicks /\ \A s \in Slots : ~Acts(s)
    BY <1>1, <2>1, HomeActs
  <2>. QED  BY <2>5, <2>6, <2>7, <2>8, <2>9, <2>10, <2>11, <2>12 DEF Next
<1>. QED  BY <1>2, <1>3

LEMMA HomeInductive == Spec => []HomeInv
<1>1. Init => HomeFits
  <2>. SUFFICES ASSUME Init, page.kind = "home"
                PROVE  KeysKnown /\ KeysOfAll /\ HomeKey
    BY DEF HomeFits
  <2>1. PICK kind \in Pages : db \in Found[kind]
    BY DEF Init
  <2>2. KeysHaveProjects(db)
    BY <2>1, FoundAssumption
  <2>3. JustMounted
    BY InitMounts
  <2>4. page.loading /\ \A s \in Slots : wire[s].mine => wire[s].then = "load"
    BY <2>3 DEF JustMounted
  <2>. QED  BY <2>2, <2>4, KnownIsHad DEF KeysOfAll, HomeKey
<1>2. HomeInv /\ [Next]_vars => HomeFits'
  BY HomeStep
<1>. QED  BY <1>1, <1>2, ReloadInductive, CurrentInductive, PTL DEF Spec, HomeInv

-----------------------------------------------------------------------------
(***************************************************************************)
(* What a page has patched together is what loading it again would show:   *)
(* new rows are in front, changed rows changed and judged rows gone, for   *)
(* any number of calls under way at a time whose answers are handled in    *)
(* any order, whenever nobody else has changed the rows, none has failed   *)
(* and none was made while another it could interfere with was under way.  *)
(* The start page shows an active key exactly when there is one.           *)
(***************************************************************************)
THEOREM PatchedIsLikeAReload == Spec => []LikeAReload
<1>1. ASSUME HomeInv, calm, alone, \A s \in Slots : wire[s] = Idle
      PROVE  /\ \A c \in ShownLists : SameRows(c.op, page.list[c.op], Listed(c))
             /\ page.kind = "home" => (page.hasKey <=> AKeyIsActive)
  <2>1. DataInv /\ Flags /\ Reload /\ Serene
    BY <1>1 DEF HomeInv, ReloadInv, Serene
  <2>2. UnderWay = {} /\ AnsweredCalls = {} /\ ~Reviewing
    BY <1>1, IdleHasNone DEF UnderWay, AnsweredCalls, Reviewing
  <2>3. Changes = {} /\ JudgedIds = {}
    BY <2>2 DEF Changes, JudgedIds
  <2>4. ASSUME NEW c \in ShownLists
        PROVE  SameRows(c.op, page.list[c.op], Listed(c))
    <3>1. Fits(c)
      BY <2>1, <2>2 DEF Reload, ListsFit
    <3>2. CASE IsFormList(c)
      <4>1. SameRows(c.op, DueRows(Changes, page.list[c.op]), Listed(c))
        BY <2>2, <3>1, <3>2 DEF Fits, FitsForm
      <4>2. page.list[c.op] \in Seq(FormRow(page.kind))
        BY <2>1, <3>2, FormListTyped DEF IsFormList
      <4>3. DueRows(Changes, page.list[c.op]) = page.list[c.op]
        BY <2>3, <4>2, NoneDue
      <4>. QED  BY <4>1, <4>3
    <3>3. CASE page.kind = "adQueue"
      <4>. DEFINE shown == page.list[c.op]
                  rest == {r \in RowSet(shown) : r.id \notin JudgedIds}
      <4>1. Listed(c) = Kept(shown, rest)
        BY <3>1, <3>3 DEF Fits, FitsQueue
      <4>2. c.op \in ReadOps
        BY <2>1, <3>3, BootReads DEF ShownLists, DataInv, Shapes, PageShape
      <4>3. shown \in Seq(RowsOf(c.op))
        BY <2>1, <4>2 DEF DataInv, Data, PageTyped, ListsTyped
      <4>4. \A i \in DOMAIN shown : shown[i] \in rest
        BY <2>3 DEF RowSet
      <4>. HIDE DEF shown, rest
      <4>5. Kept(shown, rest) = shown
        BY <4>3, <4>4, KeptAll
      <4>. QED  BY <4>1, <4>5, SameIsSame DEF shown
    <3>4. CASE ~IsFormList(c) /\ page.kind # "adQueue"
      BY <3>1, <3>4, SameIsSame DEF Fits
    <3>. QED  BY <3>2, <3>3, <3>4
  <2>5. ASSUME page.kind = "home"
        PROVE  page.hasKey <=> AKeyIsActive
    <3>1. ~page.loading
      BY <1>1, <2>1 DEF Flags, Waits, Idle
    <3>2. AKeyIsActive => page.hasKey
      BY <1>1, <2>1, <2>5, <3>1 DEF HomeInv, HomeFits, HomeKey
    <3>3. page.hasKey => AKeyIsActive
      BY <1>1, <2>5 DEF HomeInv, CurrentInv, Current, ReadKinds, PageCurrent
    <3>. QED  BY <3>2, <3>3
  <2>. QED  BY <2>4, <2>5
<1>2. HomeInv => LikeAReload
  BY <1>1 DEF LikeAReload
<1>. QED  BY <1>2, HomeInductive, PTL
=============================================================================
