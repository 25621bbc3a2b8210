----------------------------- MODULE ShellProofs -----------------------------
(***************************************************************************)
(* Proofs about the shell of module Shell, the console under it and the    *)
(* comparisons of string.c, for every size of the screen, the line, argv   *)
(* and the history, every set of characters and every table of commands.   *)
(* The inductive invariant has three parts: the screen is blank from the   *)
(* cursor on and the variables have their types (Shape), the history is    *)
(* the end of what was entered (Recent), and the parser stands in the line *)
(* where Words' scan of it stands (ParserStands), which is what makes the  *)
(* texts left in parse_buffer the line's words.                            *)
(***************************************************************************)
EXTENDS Shell, Extrema, SequenceTheorems, FiniteSetTheorems

(* FoldLeft recurs on the parts of a sequence's domain, taking the last      *)
(* element of a part last.                                                   *)
IsFold(g, T, n, s, base, step) ==
    /\ g \in [SUBSET (1 .. n) -> T]
    /\ \A D \in SUBSET (1 .. n) :
          g[D] = IF D = {} THEN base ELSE step[<<g[D \ {Max(D)}], s[Max(D)]>>]

(* A fold that steps within a set has the function it recurs by. *)
LEMMA FoldExists ==
    ASSUME NEW T, NEW E, NEW base \in T, NEW n \in Nat, NEW s \in [1 .. n -> E],
           NEW step \in [T \X E -> T]
    PROVE  \E g : IsFold(g, T, n, s, base, step)
<1> DEFINE Val(g, D) == IF D = {} THEN base ELSE step[<<g[D \ {Max(D)}], s[Max(D)]>>]
           Good(m) == \E g \in [SUBSET (1 .. m) -> T] :
                         \A D \in SUBSET (1 .. m) : g[D] = Val(g, D)
           Bad == {m \in 0 .. n : ~Good(m)}
<1>1. Good(0)
  <2> DEFINE g == [D \in SUBSET (1 .. 0) |-> base]
  <2>1. 1 .. 0 = {}
    OBVIOUS
  <2>2. g \in [SUBSET (1 .. 0) -> T] /\ \A D \in SUBSET (1 .. 0) : g[D] = Val(g, D)
    BY <2>1
  <2> QED
    BY <2>2
<1>2. ASSUME NEW m \in 1 .. n, Good(m - 1) PROVE Good(m)
  <2>1. PICK g \in [SUBSET (1 .. m - 1) -> T] : \A D \in SUBSET (1 .. m - 1) : g[D] = Val(g, D)
    BY <1>2
  <2> DEFINE h == [D \in SUBSET (1 .. m) |->
                      IF m \in D THEN step[<<g[D \ {m}], s[m]>>] ELSE g[D]]
  <2>2. ASSUME NEW D \in SUBSET (1 .. m) PROVE D \ {m} \in SUBSET (1 .. m - 1)
    OBVIOUS
  <2>3. h \in [SUBSET (1 .. m) -> T]
    <3>1. ASSUME NEW D \in SUBSET (1 .. m), m \in D PROVE step[<<g[D \ {m}], s[m]>>] \in T
      BY <2>2
    <3>2. ASSUME NEW D \in SUBSET (1 .. m), m \notin D PROVE g[D] \in T
      <4>1. D \in SUBSET (1 .. m - 1)
        BY <3>2
      <4> QED
        BY <4>1
    <3> QED
      BY <3>1, <3>2
  <2>4. ASSUME NEW D \in SUBSET (1 .. m) PROVE h[D] = Val(h, D)
    <3>1. CASE m \in D
      <4>1. D \in SUBSET Nat /\ (\A k \in D : k <= m) /\ m \in Nat
        OBVIOUS
      <4>2. Max(D) = m
        <5>1. Max(D) \in D /\ \A k \in D : k <= Max(D)
          BY <3>1, <4>1, MaxIsGreatest
        <5>2. m <= Max(D) /\ Max(D) <= m /\ Max(D) \in Nat
          BY <3>1, <4>1, <5>1, Zenon
        <5> QED
          BY <4>1, <5>2
      <4>3. h[D \ {m}] = g[D \ {m}]
        BY <2>2
      <4>4. h[D] = step[<<g[D \ {m}], s[m]>>]
        BY <3>1
      <4> QED
        BY <3>1, <4>2, <4>3, <4>4
    <3>2. CASE m \notin D
      <4>0. D \in SUBSET (1 .. m - 1)
        <5>1. \A k \in D : k \in 1 .. m /\ k # m
          BY <3>2
        <5> QED
          BY <5>1
      <4>1. D \in SUBSET (1 .. m - 1) /\ h[D] = g[D] /\ g[D] = Val(g, D)
        BY <2>1, <3>2, <4>0
      <4>2. CASE D # {}
        <5>1. D \ {Max(D)} \in SUBSET (1 .. m - 1) /\ D \ {Max(D)} \in SUBSET (1 .. m)
          BY <4>1
        <5>2. h[D \ {Max(D)}] = g[D \ {Max(D)}]
          BY <3>2, <5>1
        <5> QED
          BY <4>1, <4>2, <5>2
      <4> QED
        BY <4>1, <4>2
    <3> QED
      BY <3>1, <3>2
  <2> HIDE DEF h
  <2> QED
    BY <2>3, <2>4
<1>3. Bad = {}
  <2> SUFFICES ASSUME Bad # {} PROVE FALSE
    OBVIOUS
  <2> HIDE DEF Good
  <2>1. Bad \in SUBSET Nat
    OBVIOUS
  <2>2. PICK m \in Bad : \A k \in Bad : m <= k
    BY <2>1, LeastNatural
  <2>3. m \in 0 .. n /\ ~Good(m)
    OBVIOUS
  <2>4. m # 0
    BY <1>1, <2>3
  <2>5. m - 1 \in 0 .. n /\ m - 1 \notin Bad
    BY <2>2, <2>3, <2>4
  <2> QED
    BY <1>2, <2>3, <2>4, <2>5
<1>4. Good(n)
  <2> HIDE DEF Good
  <2> QED
    BY <1>3
<1> QED
  BY <1>4 DEF IsFold

(* And what it steps to stays in the set. *)
LEMMA FoldClosed ==
    ASSUME NEW T, NEW n \in Nat, NEW g, g[{}] \in T,
           \A D \in SUBSET (1 .. n) : D # {} /\ g[D \ {Max(D)}] \in T => g[D] \in T
    PROVE  g[1 .. n] \in T
<1> DEFINE Bad == {m \in 0 .. n : g[1 .. m] \notin T}
<1>1. 0 \notin Bad
  <2>1. 1 .. 0 = {}
    OBVIOUS
  <2> QED
    BY <2>1
<1>2. ASSUME NEW m \in 1 .. n, g[1 .. m - 1] \in T PROVE g[1 .. m] \in T
  <2>1. 1 .. m \in SUBSET Nat /\ 1 .. m # {} /\ m \in Nat /\ \A k \in 1 .. m : k <= m
    OBVIOUS
  <2>2. Max(1 .. m) = m
    <3>1. Max(1 .. m) \in 1 .. m /\ \A k \in 1 .. m : k <= Max(1 .. m)
      BY <2>1, MaxIsGreatest, Zenon
    <3> QED
      BY <3>1
  <2>3. (1 .. m) \ {m} = 1 .. m - 1 /\ 1 .. m \in SUBSET (1 .. n)
    OBVIOUS
  <2> QED
    BY <1>2, <2>1, <2>2, <2>3
<1>3. Bad = {}
  <2> SUFFICES ASSUME Bad # {} PROVE FALSE
    OBVIOUS
  <2>1. Bad \in SUBSET Nat
    OBVIOUS
  <2> HIDE DEF Bad
  <2>2. PICK m \in Bad : \A k \in Bad : m <= k
    BY <2>1, LeastNatural
  <2>3. m \in 0 .. n /\ g[1 .. m] \notin T /\ m # 0
    BY <1>1 DEF Bad
  <2>4. m - 1 \in 0 .. n /\ m - 1 \notin Bad
    BY <2>2, <2>3
  <2> QED
    BY <1>2, <2>3, <2>4 DEF Bad
<1> QED
  BY <1>3

-----------------------------------------------------------------------------
(* The console. *)

Glyph == Printable \cup {NUL, NEWLINE, BACKSPACE, BLANK, "#", "$", "-", "+", "?"}
Screen == [row : Row, column : Column, buffer : [Row -> [Column -> Glyph]]]

(* The cells from the cursor on, row by row. *)
Ahead(t, y, x) == y > t.row \/ (y = t.row /\ x >= t.column)
SoundScreen ==
    {t \in Screen : \A y \in Row, x \in Column : Ahead(t, y, x) => t.buffer[y][x] = BLANK}

(* terminal_initialize clears all of it. *)
LEMMA ClearedIsSound == terminal_initialize \in SoundScreen
<1>1. 0 \in Row /\ 0 \in Column
  BY TerminalAssumption DEF Row, Column
<1>2. BLANK \in Glyph
  BY DEF Glyph
<1> QED
  BY <1>1, <1>2 DEF terminal_initialize, BlankRow, SoundScreen, Screen

(* A character put at a place of the screen. *)
LEMMA PutEntry ==
    ASSUME NEW t \in Screen, NEW ch \in Glyph
    PROVE  LET u == terminal_putentryat(t, ch) IN
           /\ u \in Screen /\ u.row = t.row /\ u.column = t.column
           /\ \A y \in Row, x \in Column :
                 u.buffer[y][x] = IF y = t.row /\ x = t.column THEN ch ELSE t.buffer[y][x]
<1>1. t.row \in Row /\ t.column \in Column /\ t.buffer \in [Row -> [Column -> Glyph]]
  BY DEF Screen
<1> DEFINE b == [t.buffer EXCEPT ![t.row] = [t.buffer[t.row] EXCEPT ![t.column] = ch]]
<1>2. /\ b \in [Row -> [Column -> Glyph]]
      /\ \A y \in Row, x \in Column :
            b[y][x] = IF y = t.row /\ x = t.column THEN ch ELSE t.buffer[y][x]
  BY <1>1
<1>3. terminal_putentryat(t, ch) = [t EXCEPT !.buffer = b]
  BY DEF terminal_putentryat
<1> HIDE DEF b
<1>4. [t EXCEPT !.buffer = b] = [row |-> t.row, column |-> t.column, buffer |-> b]
  BY DEF Screen
<1> QED
  BY <1>1, <1>2, <1>3, <1>4 DEF Screen

(* The cursor goes to the next row; behind the last one all rows move up     *)
(* and a blank one comes in.                                                 *)
LEMMA NextRowIsSound ==
    ASSUME NEW t \in Screen,
           \A y \in Row, x \in Column : y > t.row => t.buffer[y][x] = BLANK
    PROVE  NextRow(t) \in SoundScreen
<1>1. t.row \in Row /\ t.column \in Column /\ t.buffer \in [Row -> [Column -> Glyph]]
  BY DEF Screen
<1>2. VGA_HEIGHT \in Nat \ {0} /\ 0 \in Column /\ BLANK \in Glyph /\ VGA_HEIGHT - 1 \in Row
  BY TerminalAssumption DEF Column, Glyph, Row
<1> DEFINE below == [t EXCEPT !.column = 0, !.row = @ + 1]
<1>3. below = [row |-> t.row + 1, column |-> 0, buffer |-> t.buffer]
  <2> DEFINE next == t.row + 1
  <2>1. below = [t EXCEPT !.column = 0, !.row = next]
    OBVIOUS
  <2> HIDE DEF next
  <2>2. below = [[t EXCEPT !.column = 0] EXCEPT !.row = next]
    BY <2>1
  <2>3. [t EXCEPT !.column = 0] = [row |-> t.row, column |-> 0, buffer |-> t.buffer]
    BY <1>1 DEF Screen
  <2> QED
    <3> DEFINE q == [t EXCEPT !.column = 0]
               b == t.buffer
    <3>1. [[row |-> t.row, column |-> 0, buffer |-> b] EXCEPT !.row = next]
            = [row |-> next, column |-> 0, buffer |-> b]
      <4> HIDE DEF b
      <4> QED
        OBVIOUS
    <3>2. below = [q EXCEPT !.row = next]
      BY <2>2
    <3> HIDE DEF q
    <3> QED
      BY <2>3, <3>1, <3>2 DEF q, next
<1>4. CASE t.row + 1 = VGA_HEIGHT
  <2> DEFINE b == [y \in Row |-> IF y + 1 \in Row THEN t.buffer[y + 1] ELSE BlankRow]
             u == [row |-> VGA_HEIGHT - 1, column |-> 0, buffer |-> b]
  <2>1. NextRow(t) = u
    BY <1>3, <1>4 DEF NextRow, terminal_scroll
  <2>2. BlankRow \in [Column -> Glyph] /\ \A x \in Column : BlankRow[x] = BLANK
    BY <1>2 DEF BlankRow
  <2>3. b \in [Row -> [Column -> Glyph]]
    BY <1>1, <2>2
  <2>4. ASSUME NEW y \in Row, NEW x \in Column, Ahead(u, y, x) PROVE b[y][x] = BLANK
    <3>1. u.row = VGA_HEIGHT - 1
      OBVIOUS
    <3>2. ~(y + 1 \in Row)
      <4> HIDE DEF u
      <4> QED
        BY <1>2, <2>4, <3>1 DEF Ahead, Row
    <3> QED
      BY <2>2, <3>2
  <2>5. u \in Screen
    BY <1>2, <2>3 DEF Screen
  <2>6. u.buffer = b
    OBVIOUS
  <2> HIDE DEF u, b
  <2> QED
    BY <2>1, <2>4, <2>5, <2>6 DEF SoundScreen
<1>5. CASE t.row + 1 # VGA_HEIGHT
  <2>1. NextRow(t) = [row |-> t.row + 1, column |-> 0, buffer |-> t.buffer]
    BY <1>3, <1>5 DEF NextRow
  <2>2. t.row + 1 \in Row
    BY <1>1, <1>2, <1>5 DEF Row
  <2>3. NextRow(t) \in Screen
    BY <1>1, <1>2, <2>1, <2>2 DEF Screen
  <2>4. ASSUME NEW y \in Row, NEW x \in Column, Ahead(NextRow(t), y, x)
        PROVE  t.buffer[y][x] = BLANK
    <3>1. y > t.row
      BY <1>1, <2>1, <2>4 DEF Ahead, Row
    <3> QED
      BY <3>1
  <2> QED
    BY <2>1, <2>3, <2>4 DEF SoundScreen
<1> QED
  BY <1>4, <1>5

(* terminal_putchar keeps blank what is ahead of the cursor. *)
LEMMA PutcharIsSound ==
    ASSUME NEW t \in SoundScreen, NEW ch \in Glyph
    PROVE  terminal_putchar(t, ch) \in SoundScreen
<1>1. /\ t \in Screen /\ t.row \in Row /\ t.column \in Column
      /\ \A y \in Row, x \in Column : Ahead(t, y, x) => t.buffer[y][x] = BLANK
  BY DEF SoundScreen, Screen
<1>2. NextRow(t) \in SoundScreen
  <2>1. \A y \in Row, x \in Column : y > t.row => t.buffer[y][x] = BLANK
    BY <1>1 DEF Ahead
  <2> QED
    BY <1>1, <2>1, NextRowIsSound
<1>3. Erase(t) \in SoundScreen
  <2>1. CASE t.column = 0
    BY <2>1 DEF Erase
  <2>2. CASE t.column # 0
    <3> DEFINE left == [t EXCEPT !.column = @ - 1]
               u == terminal_putentryat(left, BLANK)
    <3>1. left = [row |-> t.row, column |-> t.column - 1, buffer |-> t.buffer]
      BY <1>1 DEF Screen
    <3>2. t.column - 1 \in Column
      BY <1>1, <2>2, TerminalAssumption DEF Column
    <3>3. left \in Screen /\ left.row = t.row /\ left.column = t.column - 1
          /\ left.buffer = t.buffer
      BY <1>1, <3>1, <3>2 DEF Screen
    <3> HIDE DEF left
    <3>4. BLANK \in Glyph
      BY DEF Glyph
    <3>5. /\ u \in Screen /\ u.row = t.row /\ u.column = t.column - 1
          /\ \A y \in Row, x \in Column :
                u.buffer[y][x] = IF y = t.row /\ x = t.column - 1 THEN BLANK ELSE t.buffer[y][x]
      BY <3>3, <3>4, PutEntry
    <3> HIDE DEF u
    <3>6. ASSUME NEW y \in Row, NEW x \in Column, Ahead(u, y, x) PROVE u.buffer[y][x] = BLANK
      <4>1. (y = t.row /\ x = t.column - 1) \/ Ahead(t, y, x)
        BY <1>1, <3>5, <3>6 DEF Ahead, Row, Column
      <4> QED
        BY <1>1, <3>5, <4>1
    <3>7. Erase(t) = u
      BY <2>2 DEF Erase, u, left
    <3> QED
      BY <3>5, <3>6, <3>7 DEF SoundScreen
  <2> QED
    BY <2>1, <2>2
<1>4. Write(t, ch) \in SoundScreen
  <2> DEFINE u == terminal_putentryat(t, ch)
  <2>1. /\ u \in Screen /\ u.row = t.row /\ u.column = t.column
        /\ \A y \in Row, x \in Column :
              u.buffer[y][x] = IF y = t.row /\ x = t.column THEN ch ELSE t.buffer[y][x]
    BY <1>1, PutEntry
  <2>2. Write(t, ch) = IF t.column + 1 = VGA_WIDTH THEN NextRow(u)
                       ELSE [u EXCEPT !.column = @ + 1]
    BY DEF Write
  <2> HIDE DEF u
  <2>3. CASE t.column + 1 = VGA_WIDTH
    <3>1. ASSUME NEW y \in Row, NEW x \in Column, y > u.row PROVE u.buffer[y][x] = BLANK
      <4>1. y # t.row /\ Ahead(t, y, x)
        BY <1>1, <2>1, <3>1 DEF Ahead, Row
      <4> QED
        BY <1>1, <2>1, <4>1
    <3> QED
      BY <2>1, <2>2, <2>3, <3>1, NextRowIsSound
  <2>4. CASE t.column + 1 # VGA_WIDTH
    <3> DEFINE v == [u EXCEPT !.column = @ + 1]
    <3>1. v = [row |-> t.row, column |-> t.column + 1, buffer |-> u.buffer]
      BY <2>1 DEF Screen
    <3>2. t.column + 1 \in Column
      BY <1>1, <2>4, TerminalAssumption DEF Column
    <3>3. v \in Screen /\ v.row = t.row /\ v.column = t.column + 1 /\ v.buffer = u.buffer
      BY <1>1, <2>1, <3>1, <3>2 DEF Screen
    <3> HIDE DEF v
    <3>4. ASSUME NEW y \in Row, NEW x \in Column, Ahead(v, y, x) PROVE v.buffer[y][x] = BLANK
      <4>1. ~(y = t.row /\ x = t.column) /\ Ahead(t, y, x)
        BY <1>1, <3>3, <3>4 DEF Ahead, Row, Column
      <4> QED
        BY <1>1, <2>1, <3>3, <4>1
    <3>5. Write(t, ch) = v
      BY <2>2, <2>4 DEF v
    <3> QED
      BY <3>3, <3>4, <3>5 DEF SoundScreen
  <2> QED
    BY <2>3, <2>4
<1> QED
  BY <1>2, <1>3, <1>4 DEF terminal_putchar

(* What a fold takes next is an element, and it leaves a smaller part. *)
LEMMA NextOfFold ==
    ASSUME NEW n \in Nat, NEW D \in SUBSET (1 .. n), D # {}
    PROVE  Max(D) \in 1 .. n /\ D \ {Max(D)} \in SUBSET (1 .. n)
<1>1. D \in SUBSET Nat /\ \A k \in D : k <= n
  OBVIOUS
<1> QED
  BY <1>1, MaxIsGreatest

(* And so terminal_writestring does, character by character. *)
LEMMA WritestringIsSound ==
    ASSUME NEW t \in SoundScreen, NEW s \in Seq(Glyph)
    PROVE  terminal_writestring(t, s) \in SoundScreen
<1> DEFINE n == Len(s)
           step == [x \in SoundScreen \X Glyph |-> terminal_putchar(x[1], x[2])]
           Folds(f) == f = [D \in SUBSET DOMAIN s |->
                              IF D = {} THEN t
                              ELSE terminal_putchar(f[D \ {Max(D)}], s[Max(D)])]
           iter == CHOOSE f : Folds(f)
<1>1. n \in Nat /\ DOMAIN s = 1 .. n /\ s \in [1 .. n -> Glyph]
  OBVIOUS
<1>2. step \in [SoundScreen \X Glyph -> SoundScreen]
  BY PutcharIsSound
<1>3. \A u \in SoundScreen, ch \in Glyph : step[<<u, ch>>] = terminal_putchar(u, ch)
  OBVIOUS
<1>4. terminal_writestring(t, s) = iter[DOMAIN s]
  BY Zenon DEF terminal_writestring, FoldLeft, MapThenFoldSet
<1> HIDE DEF step, n
<1>5. PICK g : IsFold(g, SoundScreen, n, s, t, step)
  BY <1>1, <1>2, FoldExists, Zenon
<1>6. Folds(g)
  <2>1. ASSUME NEW D \in SUBSET (1 .. n)
        PROVE  g[D] = IF D = {} THEN t ELSE terminal_putchar(g[D \ {Max(D)}], s[Max(D)])
    <3>1. CASE D = {}
      BY <1>5, <3>1 DEF IsFold
    <3>2. CASE D # {}
      <4>1. g[D \ {Max(D)}] \in SoundScreen /\ s[Max(D)] \in Glyph
        BY <1>1, <1>5, <3>2, NextOfFold DEF IsFold
      <4> QED
        BY <1>3, <1>5, <3>2, <4>1 DEF IsFold
    <3> QED
      BY <3>1, <3>2
  <2> QED
    BY <1>1, <1>5, <2>1 DEF IsFold
<1>7. Folds(iter)
  <2> HIDE DEF Folds
  <2> QED
    BY <1>6
<1> HIDE DEF iter
<1>8. iter[{}] \in SoundScreen
  BY <1>7
<1>9. ASSUME NEW D \in SUBSET (1 .. n), D # {}, iter[D \ {Max(D)}] \in SoundScreen
      PROVE  iter[D] \in SoundScreen
  <2>1. s[Max(D)] \in Glyph
    BY <1>1, <1>9, NextOfFold
  <2>2. iter[D] = terminal_putchar(iter[D \ {Max(D)}], s[Max(D)])
    BY <1>1, <1>7, <1>9
  <2> QED
    BY <1>9, <2>1, <2>2, PutcharIsSound
<1>10. iter[1 .. n] \in SoundScreen
  BY <1>1, <1>8, <1>9, FoldClosed
<1> QED
  BY <1>1, <1>4, <1>10

-----------------------------------------------------------------------------
(* What commands print. *)
Texts == Seq(Glyph)

(* A list of texts, a line each, is a text. *)
LEMMA LinesIsText ==
    ASSUME NEW words \in Seq(Texts)
    PROVE  Lines(words) \in Texts
<1> DEFINE s == words
           n == Len(s)
           step == [x \in Texts \X Texts |-> x[1] \o x[2] \o <<NEWLINE>>]
           Folds(f) == f = [D \in SUBSET DOMAIN s |->
                              IF D = {} THEN <<>>
                              ELSE f[D \ {Max(D)}] \o s[Max(D)] \o <<NEWLINE>>]
           iter == CHOOSE f : Folds(f)
<1>1. n \in Nat /\ DOMAIN s = 1 .. n /\ s \in [1 .. n -> Texts] /\ <<>> \in Texts
  BY EmptySeq DEF Texts
<1>2. \A a \in Texts, e \in Texts : a \o e \o <<NEWLINE>> \in Texts
  <2>1. <<NEWLINE>> \in Seq(Glyph)
    BY DEF Glyph
  <2> QED
    BY <2>1 DEF Texts
<1>3. /\ step \in [Texts \X Texts -> Texts]
      /\ \A a \in Texts, e \in Texts : step[<<a, e>>] = a \o e \o <<NEWLINE>>
  BY <1>2
<1>4. Lines(words) = iter[DOMAIN s]
  BY Zenon DEF Lines, FoldLeft, MapThenFoldSet
<1> HIDE DEF step, n, s
<1>5. PICK g : IsFold(g, Texts, n, s, <<>>, step)
  BY <1>1, <1>3, FoldExists, Zenon
<1>6. Folds(g)
  <2>1. ASSUME NEW D \in SUBSET (1 .. n)
        PROVE  g[D] = IF D = {} THEN <<>> ELSE g[D \ {Max(D)}] \o s[Max(D)] \o <<NEWLINE>>
    <3>1. CASE D = {}
      BY <1>5, <3>1 DEF IsFold
    <3>2. CASE D # {}
      <4>1. g[D \ {Max(D)}] \in Texts /\ s[Max(D)] \in Texts
        BY <1>1, <1>5, <3>2, NextOfFold DEF IsFold
      <4> QED
        BY <1>3, <1>5, <3>2, <4>1 DEF IsFold
    <3> QED
      BY <3>1, <3>2
  <2> QED
    BY <1>1, <1>5, <2>1 DEF IsFold
<1>7. Folds(iter)
  <2> HIDE DEF Folds
  <2> QED
    BY <1>6
<1> HIDE DEF iter
<1>8. iter[{}] \in Texts
  BY <1>1, <1>7
<1>9. ASSUME NEW D \in SUBSET (1 .. n), D # {}, iter[D \ {Max(D)}] \in Texts
      PROVE  iter[D] \in Texts
  <2>1. s[Max(D)] \in Texts
    BY <1>1, <1>9, NextOfFold
  <2>2. iter[D] = iter[D \ {Max(D)}] \o s[Max(D)] \o <<NEWLINE>>
    BY <1>1, <1>7, <1>9
  <2> QED
    BY <1>2, <1>9, <2>1, <2>2
<1>10. iter[1 .. n] \in Texts
  BY <1>1, <1>8, <1>9, FoldClosed
<1> QED
  BY <1>1, <1>4, <1>10

(* Texts with blanks between them are a text. *)
LEMMA JoinedIsText ==
    ASSUME NEW words \in Seq(Texts)
    PROVE  Joined(words) \in Texts
<1>0. SUFFICES ASSUME words # <<>>
               PROVE  Joined(words) \in Texts
  BY EmptySeq DEF Joined, Texts
<1> DEFINE s == Tail(words)
           n == Len(s)
           step == [x \in Texts \X Texts |-> x[1] \o <<BLANK>> \o x[2]]
           Folds(f) == f = [D \in SUBSET DOMAIN s |->
                              IF D = {} THEN Head(words)
                              ELSE f[D \ {Max(D)}] \o <<BLANK>> \o s[Max(D)]]
           iter == CHOOSE f : Folds(f)
<1>1. n \in Nat /\ DOMAIN s = 1 .. n /\ s \in [1 .. n -> Texts] /\ Head(words) \in Texts
  <2>1. Head(words) \in Texts /\ s \in Seq(Texts)
    BY <1>0, HeadTailProperties
  <2> HIDE DEF s
  <2> QED
    BY <2>1
<1>2. \A a \in Texts, e \in Texts : a \o <<BLANK>> \o e \in Texts
  <2>1. <<BLANK>> \in Seq(Glyph)
    BY DEF Glyph
  <2> QED
    BY <2>1 DEF Texts
<1>3. /\ step \in [Texts \X Texts -> Texts]
      /\ \A a \in Texts, e \in Texts : step[<<a, e>>] = a \o <<BLANK>> \o e
  BY <1>2
<1>4. Joined(words) = iter[DOMAIN s]
  BY <1>0, Zenon DEF Joined, FoldLeft, MapThenFoldSet
<1> HIDE DEF step, n, s
<1>5. PICK g : IsFold(g, Texts, n, s, Head(words), step)
  BY <1>1, <1>3, FoldExists, Zenon
<1>6. Folds(g)
  <2>1. ASSUME NEW D \in SUBSET (1 .. n)
        PROVE  g[D] = IF D = {} THEN Head(words) ELSE g[D \ {Max(D)}] \o <<BLANK>> \o s[Max(D)]
    <3>1. CASE D = {}
      BY <1>5, <3>1 DEF IsFold
    <3>2. CASE D # {}
      <4>1. g[D \ {Max(D)}] \in Texts /\ s[Max(D)] \in Texts
        BY <1>1, <1>5, <3>2, NextOfFold DEF IsFold
      <4> QED
        BY <1>3, <1>5, <3>2, <4>1 DEF IsFold
    <3> QED
      BY <3>1, <3>2
  <2> QED
    BY <1>1, <1>5, <2>1 DEF IsFold
<1>7. Folds(iter)
  <2> HIDE DEF Folds
  <2> QED
    BY <1>6
<1> HIDE DEF iter
<1>8. iter[{}] \in Texts
  BY <1>1, <1>7
<1>9. ASSUME NEW D \in SUBSET (1 .. n), D # {}, iter[D \ {Max(D)}] \in Texts
      PROVE  iter[D] \in Texts
  <2>1. s[Max(D)] \in Texts
    BY <1>1, <1>9, NextOfFold
  <2>2. iter[D] = iter[D \ {Max(D)}] \o <<BLANK>> \o s[Max(D)]
    BY <1>1, <1>7, <1>9
  <2> QED
    BY <1>2, <1>9, <2>1, <2>2
<1>10. iter[1 .. n] \in Texts
  BY <1>1, <1>8, <1>9, FoldClosed
<1> QED
  BY <1>1, <1>4, <1>10

(* A selection of texts is texts. *)
LEMMA SelectedIsTexts ==
    ASSUME NEW names \in Seq(Texts), NEW chosen
    PROVE  Selected(names, chosen) \in Seq(Texts)
<1> DEFINE s == names
           n == Len(s)
           step == [x \in Seq(Texts) \X Texts |->
                      IF x[2] \in chosen THEN Append(x[1], x[2]) ELSE x[1]]
           Folds(f) == f = [D \in SUBSET DOMAIN s |->
                              IF D = {} THEN <<>>
                              ELSE IF s[Max(D)] \in chosen
                              THEN Append(f[D \ {Max(D)}], s[Max(D)]) ELSE f[D \ {Max(D)}]]
           iter == CHOOSE f : Folds(f)
<1>1. n \in Nat /\ DOMAIN s = 1 .. n /\ s \in [1 .. n -> Texts] /\ <<>> \in Seq(Texts)
  BY EmptySeq
<1>2. \A a \in Seq(Texts), e \in Texts : (IF e \in chosen THEN Append(a, e) ELSE a) \in Seq(Texts)
  OBVIOUS
<1>3. /\ step \in [Seq(Texts) \X Texts -> Seq(Texts)]
      /\ \A a \in Seq(Texts), e \in Texts :
            step[<<a, e>>] = (IF e \in chosen THEN Append(a, e) ELSE a)
  BY <1>2
<1>4. Selected(names, chosen) = iter[DOMAIN s]
  BY Zenon DEF Selected, FoldLeft, MapThenFoldSet
<1> HIDE DEF step, n, s
<1>5. PICK g : IsFold(g, Seq(Texts), n, s, <<>>, step)
  BY <1>1, <1>3, FoldExists, Zenon
<1>6. Folds(g)
  <2>1. ASSUME NEW D \in SUBSET (1 .. n)
        PROVE  g[D] = IF D = {} THEN <<>> ELSE IF s[Max(D)] \in chosen
                      THEN Append(g[D \ {Max(D)}], s[Max(D)]) ELSE g[D \ {Max(D)}]
    <3>1. CASE D = {}
      BY <1>5, <3>1 DEF IsFold
    <3>2. CASE D # {}
      <4>1. g[D \ {Max(D)}] \in Seq(Texts) /\ s[Max(D)] \in Texts
        BY <1>1, <1>5, <3>2, NextOfFold DEF IsFold
      <4> QED
        BY <1>3, <1>5, <3>2, <4>1 DEF IsFold
    <3> QED
      BY <3>1, <3>2
  <2> QED
    BY <1>1, <1>5, <2>1 DEF IsFold
<1>7. Folds(iter)
  <2> HIDE DEF Folds
  <2> QED
    BY <1>6
<1> HIDE DEF iter
<1>8. iter[{}] \in Seq(Texts)
  BY <1>1, <1>7
<1>9. ASSUME NEW D \in SUBSET (1 .. n), D # {}, iter[D \ {Max(D)}] \in Seq(Texts)
      PROVE  iter[D] \in Seq(Texts)
  <2>1. s[Max(D)] \in Texts
    BY <1>1, <1>9, NextOfFold
  <2>2. iter[D] = IF s[Max(D)] \in chosen THEN Append(iter[D \ {Max(D)}], s[Max(D)])
                  ELSE iter[D \ {Max(D)}]
    BY <1>1, <1>7, <1>9
  <2> QED
    BY <1>2, <1>9, <2>1, <2>2
<1>10. iter[1 .. n] \in Seq(Texts)
  BY <1>1, <1>8, <1>9, FoldClosed
<1> QED
  BY <1>1, <1>4, <1>10

-----------------------------------------------------------------------------
(* The invariant: what the variables hold, and where the parser stands.      *)

Line == Seq(Printable)
Copy == Seq(Printable \cup {NUL})

(* parse_buffer ends with the NUL it was copied with; argv and p point into  *)
(* it, and a command has a name.                                             *)
ParserState ==
    /\ parse_buffer \in Copy /\ parse_buffer # <<>>
    /\ parse_buffer[Len(parse_buffer)] = NUL
    /\ p \in 1 .. Len(parse_buffer)
    /\ argv \in Seq(1 .. Len(parse_buffer)) /\ Len(argv) <= SHELL_MAX_ARGS
    /\ pc = "execute" => argv # <<>>

EditorState ==
    /\ pc \in {"prompt", "read", "start", "parse", "execute", "halt"}
    /\ shell_buffer \in Line /\ Len(shell_buffer) < SHELL_BUFFER_SIZE
    /\ shell_history \in Seq(Line) /\ Len(shell_history) <= SHELL_HISTORY_SIZE
    /\ entered \in Seq(Line)

Shape == term \in SoundScreen /\ EditorState /\ ParserState

-----------------------------------------------------------------------------
(* The parser's pointers. *)

(* Whatever is looked for from a position on, if the last character is it,   *)
(* is found behind that position.                                            *)
LEMMA FoundBehind ==
    ASSUME NEW n \in Nat, NEW from \in 1 .. n, NEW S \in SUBSET (from .. n), n \in S
    PROVE  Min(S) \in S /\ Min(S) \in from .. n /\ \A k \in S : Min(S) <= k
<1>1. S \in SUBSET Nat /\ S # {}
  OBVIOUS
<1> QED
  BY <1>1, MinIsLeast

(* The loops that skip spaces stop at the NUL. *)
LEMMA SkipSpacesStops ==
    ASSUME NEW text, NEW n \in Nat, Len(text) = n, NEW from \in 1 .. n, text[n] = NUL
    PROVE  SkipSpaces(text, from) \in from .. n /\ text[SkipSpaces(text, from)] # BLANK
<1> DEFINE S == {k \in from .. Len(text) : text[k] # BLANK}
<1>1. S \in SUBSET (from .. n) /\ n \in S
  <2>1. NUL # BLANK
    BY DEF NUL, BLANK
  <2> QED
    BY <2>1
<1>2. Min(S) \in S /\ Min(S) \in from .. n
  BY <1>1, FoundBehind
<1> QED
  BY <1>2 DEF SkipSpaces

(* What a pointer into parse_buffer stands for is a text without NULs. *)
LEMMA CStringIsText ==
    ASSUME NEW text \in Copy, NEW n \in Nat, Len(text) = n, NEW from \in 1 .. n, text[n] = NUL
    PROVE  CString(text, from) \in Line
<1> DEFINE S == {k \in from .. Len(text) : text[k] = NUL}
           end == Min(S)
<1>1. S \in SUBSET (from .. n) /\ n \in S
  OBVIOUS
<1>2. end \in from .. n /\ \A k \in S : end <= k
  BY <1>1, FoundBehind
<1>3. ASSUME NEW k \in from .. end - 1 PROVE text[k] \in Printable
  <2>1. k \in from .. n /\ ~(end <= k) /\ k \in 1 .. n
    BY <1>2
  <2>2. k \notin S
    BY <1>2, <2>1
  <2>3. text[k] # NUL
    BY <2>1, <2>2
  <2>4. text[k] \in Printable \cup {NUL}
    BY <2>1, ElementOfSeq DEF Copy
  <2> QED
    BY <2>3, <2>4
<1> HIDE DEF end
<1>4. SubSeq(text, from, end - 1) \in Seq(Printable)
  <2>1. end - 1 \in Int /\ from \in Int
    BY <1>2
  <2> QED
    BY <1>3, <2>1, SubSeqProperties
<1> QED
  BY <1>4 DEF CString, end, Line

(* argv's texts. *)
LEMMA ArgumentsAreTexts ==
    ASSUME ParserState
    PROVE  /\ Arguments \in Seq(Line) /\ Len(Arguments) = Len(argv)
           /\ Arguments \in Seq(Texts)
<1> DEFINE n == Len(parse_buffer)
<1>1. n \in Nat /\ parse_buffer \in Copy /\ parse_buffer[n] = NUL
      /\ argv \in Seq(1 .. n) /\ Len(argv) \in Nat /\ DOMAIN argv = 1 .. Len(argv)
  BY DEF ParserState, Copy
<1>2. ASSUME NEW k \in 1 .. Len(argv) PROVE CString(parse_buffer, argv[k]) \in Line
  <2>1. argv[k] \in 1 .. n
    BY <1>1, ElementOfSeq
  <2> QED
    BY <1>1, <2>1, CStringIsText
<1>3. Arguments = [k \in 1 .. Len(argv) |-> CString(parse_buffer, argv[k])]
  BY <1>1 DEF Arguments
<1>4. Arguments \in [1 .. Len(argv) -> Line]
  BY <1>2, <1>3
<1>5. Arguments \in Seq(Line) /\ Len(Arguments) = Len(argv)
  BY <1>1, <1>4
<1>6. Line \subseteq Texts
  BY SeqMonotonic DEF Line, Texts, Glyph
<1> QED
  BY <1>5, <1>6, SeqMonotonic

-----------------------------------------------------------------------------
(* Every action keeps it. *)

(* The literals commands print. *)
LEMMA Literals ==
    /\ PROMPT \in Texts /\ <<BACKSPACE, BLANK, BACKSPACE>> \in Texts
    /\ <<NEWLINE>> \in Texts /\ <<NEWLINE, NEWLINE>> \in Texts
    /\ <<"-">> \in Texts /\ <<"+">> \in Texts /\ <<"?">> \in Texts
    /\ <<"-", BLANK>> \in Texts /\ <<BLANK, "+", NEWLINE>> \in Texts
BY DEF PROMPT, Texts, Glyph

(* shell_commands is an array of names. *)
LEMMA NamesAreTexts == Names \in Seq(Line \ {<<>>}) /\ Names \in Seq(Texts)
<1>1. Commands \in Seq([name : Line \ {<<>>}, does : STRING])
  BY ShellAssumption DEF Line
<1>2. Len(Commands) \in Nat /\ DOMAIN Commands = 1 .. Len(Commands)
  BY <1>1
<1>3. \A k \in 1 .. Len(Commands) : Commands[k].name \in Line \ {<<>>}
  <2>1. \A k \in 1 .. Len(Commands) : Commands[k] \in [name : Line \ {<<>>}, does : STRING]
    BY <1>1, ElementOfSeq
  <2> QED
    BY <2>1
<1>4. Names \in [1 .. Len(Commands) -> Line \ {<<>>}]
  BY <1>2, <1>3 DEF Names
<1>5. Names \in Seq(Line \ {<<>>})
  BY <1>2, <1>4
<1>6. Line \ {<<>>} \subseteq Texts
  BY SeqMonotonic DEF Line, Texts, Glyph
<1> QED
  BY <1>5, <1>6, SeqMonotonic

(* shell_readline's beginning: the prompt. *)
LEMMA PromptShape ==
    ASSUME Shape, shell_show_prompt
    PROVE  Shape'
<1>1. term' \in SoundScreen
  BY Literals, WritestringIsSound DEF Shape, shell_show_prompt, Texts
<1>2. shell_buffer' \in Line /\ Len(shell_buffer') < SHELL_BUFFER_SIZE
  BY EmptySeq, ShellAssumption DEF shell_show_prompt, Line
<1>3. EditorState'
  BY <1>2 DEF Shape, EditorState, shell_show_prompt
<1>4. ParserState'
  BY DEF Shape, ParserState, shell_show_prompt, parser
<1> QED
  BY <1>1, <1>3, <1>4 DEF Shape

(* shell_add_to_history moves the lines up when there is no place. *)
LEMMA HistoryFits ==
    ASSUME NEW h \in Seq(Line), Len(h) <= SHELL_HISTORY_SIZE, NEW line \in Line
    PROVE  /\ shell_add_to_history(h, line) \in Seq(Line)
           /\ Len(shell_add_to_history(h, line)) <= SHELL_HISTORY_SIZE
<1>1. Len(h) \in Nat /\ SHELL_HISTORY_SIZE \in Nat \ {0}
  BY ShellAssumption
<1>2. CASE Len(h) >= SHELL_HISTORY_SIZE
  <2>1. h # <<>>
    BY <1>1, <1>2, EmptySeq
  <2>2. Tail(h) \in Seq(Line) /\ Len(Tail(h)) = Len(h) - 1
    BY <2>1, HeadTailProperties
  <2>3. /\ Append(Tail(h), line) \in Seq(Line)
        /\ Len(Append(Tail(h), line)) = Len(h)
    BY <1>1, <2>2, AppendProperties
  <2> QED
    BY <1>2, <2>3 DEF shell_add_to_history
<1>3. CASE Len(h) < SHELL_HISTORY_SIZE
  <2>1. Append(h, line) \in Seq(Line) /\ Len(Append(h, line)) = Len(h) + 1
    BY AppendProperties
  <2> QED
    BY <1>1, <1>3, <2>1 DEF shell_add_to_history
<1> QED
  BY <1>1, <1>2, <1>3

(* A text without its last character. *)
LEMMA FrontOfSeq ==
    ASSUME NEW T, NEW s \in Seq(T), Len(s) # 0
    PROVE  /\ SubSeq(s, 1, Len(s) - 1) \in Seq(T)
           /\ Len(SubSeq(s, 1, Len(s) - 1)) = Len(s) - 1
<1> DEFINE m == Len(s) - 1
<1>1. m \in Nat /\ m \in Int /\ 1 \in Int /\ \A k \in 1 .. m : s[k] \in T
  BY ElementOfSeq
<1>2. /\ SubSeq(s, 1, m) \in Seq(T)
      /\ Len(SubSeq(s, 1, m)) = IF 1 <= m THEN m - 1 + 1 ELSE 0
  <2> HIDE DEF m
  <2> QED
    BY <1>1, SubSeqProperties
<1>3. (IF 1 <= m THEN m - 1 + 1 ELSE 0) = m
  <2> HIDE DEF m
  <2> QED
    BY <1>1
<1> HIDE DEF m
<1>4. Len(SubSeq(s, 1, m)) = m
  BY <1>2, <1>3
<1> QED
  BY <1>2, <1>4 DEF m

(* A key, and its echo. *)
LEMMA KeyShape ==
    ASSUME Shape, NEW ch \in Printable \cup Ignored \cup {NEWLINE, BACKSPACE}, Key(ch)
    PROVE  Shape'
<1>0. pc = "read" /\ UNCHANGED <<parse_buffer, p, argv>>
  BY DEF Key, parser
<1>1. /\ term \in SoundScreen /\ shell_buffer \in Line /\ Len(shell_buffer) \in Nat
      /\ Len(shell_buffer) < SHELL_BUFFER_SIZE /\ SHELL_BUFFER_SIZE \in Nat
      /\ shell_history \in Seq(Line) /\ Len(shell_history) <= SHELL_HISTORY_SIZE
      /\ entered \in Seq(Line)
  BY ShellAssumption DEF Shape, EditorState, Line
<1>2. NEWLINE \in Glyph
  BY DEF Glyph
<1>3. CASE ch = NEWLINE /\ Enter
  <2>1. term' \in SoundScreen
    BY <1>1, <1>2, <1>3, PutcharIsSound DEF Enter
  <2>2. /\ shell_history' \in Seq(Line) /\ Len(shell_history') <= SHELL_HISTORY_SIZE
    BY <1>1, <1>3, HistoryFits DEF Enter
  <2>3. entered' \in Seq(Line)
    BY <1>1, <1>3, AppendProperties DEF Enter
  <2>4. EditorState' /\ pc' # "execute"
    BY <1>1, <1>3, <2>2, <2>3 DEF Enter, EditorState
  <2>5. ParserState'
    BY <1>0, <2>4 DEF Shape, ParserState
  <2> QED
    BY <2>1, <2>4, <2>5 DEF Shape
<1>4. CASE Backspace
  <2>1. CASE shell_buffer # <<>> /\ shell_buffer' = Front(shell_buffer)
             /\ term' = terminal_writestring(term, <<BACKSPACE, BLANK, BACKSPACE>>)
    <3>1. term' \in SoundScreen
      BY <1>1, <2>1, Literals, WritestringIsSound DEF Texts
    <3>2. shell_buffer' \in Line /\ Len(shell_buffer') < SHELL_BUFFER_SIZE
      <4>1. Len(shell_buffer) # 0
            /\ Front(shell_buffer) = SubSeq(shell_buffer, 1, Len(shell_buffer) - 1)
        BY <1>1, <2>1, EmptySeq DEF Line, Front
      <4>2. \A k \in 1 .. Len(shell_buffer) - 1 : shell_buffer[k] \in Printable
        BY <1>1, ElementOfSeq DEF Line
      <4>3. /\ SubSeq(shell_buffer, 1, Len(shell_buffer) - 1) \in Seq(Printable)
            /\ Len(SubSeq(shell_buffer, 1, Len(shell_buffer) - 1)) = Len(shell_buffer) - 1
        BY <1>1, <4>1, <4>2, FrontOfSeq DEF Line
      <4> QED
        BY <1>1, <2>1, <4>1, <4>3 DEF Line
    <3> QED
      BY <1>0, <1>1, <1>4, <3>1, <3>2 DEF Shape, Backspace, EditorState, ParserState
  <2>2. CASE UNCHANGED <<shell_buffer, term>>
    BY <1>0, <1>4, <2>2 DEF Shape, Backspace, EditorState, ParserState
  <2> QED
    BY <1>4, <2>1, <2>2 DEF Backspace
<1>5. CASE Character(ch)
  <2>1. CASE HasRoom /\ ch \in Printable /\ shell_buffer' = Append(shell_buffer, ch)
             /\ term' = terminal_putchar(term, ch)
    <3>1. term' \in SoundScreen
      BY <1>1, <2>1, PutcharIsSound DEF Glyph
    <3>2. shell_buffer' \in Line /\ Len(shell_buffer') = Len(shell_buffer) + 1
      BY <1>1, <2>1, AppendProperties DEF Line
    <3>3. Len(shell_buffer') < SHELL_BUFFER_SIZE
      BY <1>1, <2>1, <3>2 DEF HasRoom
    <3> QED
      BY <1>0, <1>1, <1>5, <3>1, <3>2, <3>3 DEF Shape, Character, EditorState, ParserState
  <2>2. CASE UNCHANGED <<shell_buffer, term>>
    BY <1>0, <1>5, <2>2 DEF Shape, Character, EditorState, ParserState
  <2> QED
    BY <1>5, <2>1, <2>2 DEF Character
<1>6. (ch = NEWLINE /\ Enter) \/ Backspace \/ Character(ch)
  BY DEF Key
<1> QED
  BY <1>3, <1>4, <1>5, <1>6

(* The line is copied, with a NUL behind it. *)
LEMMA StartParseShape ==
    ASSUME Shape, StartParse
    PROVE  Shape'
<1> DEFINE copy == Append(shell_buffer, NUL)
<1>1. /\ copy \in Copy /\ copy # <<>> /\ Len(copy) = Len(shell_buffer) + 1
      /\ Len(copy) \in Nat /\ copy[Len(copy)] = NUL
  <2>1. shell_buffer \in Seq(Printable \cup {NUL}) /\ NUL \in Printable \cup {NUL}
    BY SeqMonotonic DEF Shape, EditorState, Line
  <2> QED
    BY <2>1, AppendProperties DEF Copy
<1>2. SkipSpaces(copy, 1) \in 1 .. Len(copy)
  <2>1. 1 \in 1 .. Len(copy)
    BY <1>1, EmptySeq DEF Copy
  <2> HIDE DEF copy
  <2> QED
    BY <1>1, <2>1, SkipSpacesStops
<1>3. term' \in SoundScreen /\ EditorState'
  BY DEF Shape, EditorState, StartParse
<1>4. ParserState'
  <2>1. CASE pc' = "prompt" /\ UNCHANGED parser
    BY <2>1 DEF Shape, ParserState, parser
  <2>2. CASE pc' = "parse" /\ parse_buffer' = copy /\ p' = SkipSpaces(copy, 1) /\ argv' = <<>>
    <3>1. argv' \in Seq(1 .. Len(parse_buffer')) /\ Len(argv') <= SHELL_MAX_ARGS
      BY <2>2, EmptySeq, ShellAssumption
    <3> HIDE DEF copy
    <3> QED
      BY <1>1, <1>2, <2>2, <3>1 DEF ParserState
  <2> QED
    BY <2>1, <2>2 DEF StartParse
<1> QED
  BY <1>3, <1>4 DEF Shape

(* The next argument is cut off: its end stands in the buffer, and so does   *)
(* what follows the space or quote behind it.                                *)
LEMMA NextArgumentShape ==
    ASSUME Shape, NextArgument
    PROVE  Shape'
<1> DEFINE n == Len(parse_buffer)
           quoted == parse_buffer[p] = QUOTE
           stop == IF quoted THEN QUOTE ELSE BLANK
           first == IF quoted THEN p + 1 ELSE p
           S == {k \in first .. Len(parse_buffer) : parse_buffer[k] \in {NUL, stop}}
           end == Min(S)
           closed == parse_buffer[end] = stop
<1>1. /\ pc = "parse" /\ parse_buffer[p] # NUL /\ Len(argv) < SHELL_MAX_ARGS
      /\ parse_buffer' = [parse_buffer EXCEPT ![end] = NUL]
      /\ p' = SkipSpaces(parse_buffer', Behind(first, end, closed))
      /\ argv' = WithArgument(first, end)
      /\ UNCHANGED <<pc, term, shell_buffer, shell_history, entered, keys>>
  BY Zenon DEF NextArgument
<1>2. /\ n \in Nat /\ parse_buffer \in Copy /\ parse_buffer[n] = NUL /\ p \in 1 .. n
      /\ argv \in Seq(1 .. n) /\ Len(argv) \in Nat /\ SHELL_MAX_ARGS \in Nat
  BY ShellAssumption DEF Shape, ParserState, Copy
<1>3. stop # NUL
  BY DEF NUL, QUOTE, BLANK
<1>4. first \in 1 .. n
  <2>1. p # n
    BY <1>1, <1>2
  <2> QED
    BY <1>2, <2>1
<1>5. end \in S /\ end \in first .. n
  <2>1. S \in SUBSET (first .. n) /\ n \in S
    BY <1>2, <1>4
  <2> HIDE DEF S, first
  <2> QED
    BY <1>2, <1>4, <2>1, FoundBehind
<1>6. closed => end # n
  BY <1>2, <1>3
<1> HIDE DEF S, stop, first, closed, end, quoted
<1>7. end \in 1 .. n
  BY <1>2, <1>4, <1>5
<1>8. Behind(first, end, closed) \in 1 .. n
  BY <1>2, <1>6, <1>7 DEF Behind
<1>9. /\ parse_buffer' \in Copy /\ Len(parse_buffer') = n /\ parse_buffer' # <<>>
      /\ parse_buffer'[n] = NUL
  <2>1. NUL \in Printable \cup {NUL} /\ parse_buffer \in Seq(Printable \cup {NUL})
    BY <1>2 DEF Copy
  <2> HIDE DEF n
  <2>2. parse_buffer' \in Seq(Printable \cup {NUL}) /\ Len(parse_buffer') = Len(parse_buffer)
    BY <1>1, <1>2, <1>7, <2>1, ExceptSeq DEF n
  <2>3. parse_buffer'[n] = NUL
    BY <1>1, <1>2, <1>7, <2>1 DEF n
  <2> QED
    BY <1>2, <2>2, <2>3, EmptySeq DEF n, Copy
<1>10. p' \in 1 .. n
  <2> HIDE DEF n
  <2> DEFINE from == Behind(first, end, closed)
  <2>1. from \in 1 .. n
    BY <1>8
  <2> HIDE DEF from
  <2>2. SkipSpaces(parse_buffer', from) \in from .. n
    BY <1>2, <1>9, <2>1, SkipSpacesStops
  <2>3. p' = SkipSpaces(parse_buffer', from)
    BY <1>1 DEF from
  <2> QED
    BY <1>2, <2>1, <2>2, <2>3
<1>11. argv' \in Seq(1 .. n) /\ Len(argv') <= SHELL_MAX_ARGS
  <2> HIDE DEF n
  <2>1. Append(argv, first) \in Seq(1 .. n) /\ Len(Append(argv, first)) = Len(argv) + 1
    BY <1>2, <1>4, AppendProperties
  <2>2. Len(argv) + 1 <= SHELL_MAX_ARGS /\ Len(argv) <= SHELL_MAX_ARGS
    BY <1>1, <1>2
  <2>3. argv' = argv \/ argv' = Append(argv, first)
    BY <1>1 DEF WithArgument
  <2> QED
    BY <1>2, <2>1, <2>2, <2>3
<1>12. ParserState'
  <2> HIDE DEF n
  <2> QED
    BY <1>1, <1>9, <1>10, <1>11 DEF ParserState
<1> QED
  BY <1>1, <1>12 DEF Shape, EditorState

(* The loop ends, with a command if there was an argument. *)
LEMMA ParseDoneShape ==
    ASSUME Shape, ParseDone
    PROVE  Shape'
BY DEF Shape, EditorState, ParserState, ParseDone, parser

(* Commands print texts. *)
LEMMA SayShape ==
    ASSUME Shape, NEW text \in Texts, Say(text)
    PROVE  term' \in SoundScreen
BY WritestringIsSound DEF Shape, Say, Texts

(* What a command leaves alone. *)
LEMMA CommandShape ==
    ASSUME Shape, Execute, pc' \in {"prompt", "halt"}, term' \in SoundScreen,
           \/ UNCHANGED <<shell_history, entered>>
           \/ shell_history' = <<>> /\ entered' = <<>>
    PROVE  Shape'
<1>1. <<>> \in Seq(Line) /\ Len(<<>>) = 0 /\ SHELL_HISTORY_SIZE \in Nat
  BY EmptySeq, ShellAssumption
<1>2. /\ shell_history' \in Seq(Line) /\ Len(shell_history') <= SHELL_HISTORY_SIZE
      /\ entered' \in Seq(Line)
  <2>1. CASE UNCHANGED <<shell_history, entered>>
    BY <2>1 DEF Shape, EditorState
  <2>2. CASE shell_history' = <<>> /\ entered' = <<>>
    <3>1. 0 <= SHELL_HISTORY_SIZE
      BY <1>1
    <3> QED
      BY <1>1, <2>2, <3>1
  <2> QED
    BY <2>1, <2>2
<1>3. EditorState'
  BY <1>2 DEF Shape, EditorState, Execute
<1>4. ParserState'
  BY DEF Shape, ParserState, Execute, parser
<1> QED
  BY <1>3, <1>4 DEF Shape

(* The first word, in the actions that run a command. *)
LEMMA FirstArgument ==
    ASSUME Shape, Execute
    PROVE  /\ Arguments \in Seq(Texts) /\ Arguments # <<>> /\ Arguments[1] \in Texts
           /\ Len(Arguments) = Len(argv) /\ Len(argv) \in Nat
<1>1. ParserState /\ argv # <<>>
  BY DEF Shape, ParserState, Execute
<1>2. Arguments \in Seq(Texts) /\ Len(Arguments) = Len(argv)
  BY <1>1, ArgumentsAreTexts
<1>3. Len(argv) \in Nat /\ Len(argv) # 0
  <2>1. argv \in Seq(1 .. Len(parse_buffer))
    BY <1>1 DEF ParserState
  <2> QED
    BY <1>1, <2>1, EmptySeq
<1> HIDE DEF Arguments
<1>4. 1 \in 1 .. Len(Arguments)
  BY <1>2, <1>3
<1>5. Arguments[1] \in Texts
  BY <1>2, <1>4, ElementOfSeq
<1> QED
  BY <1>2, <1>3, <1>5, EmptySeq

(* The commands, one lemma for each that builds its text. *)
LEMMA NotFoundShape ==
    ASSUME Shape, NotFound
    PROVE  Shape'
<1>1. /\ Execute /\ pc' = "prompt" /\ UNCHANGED <<shell_history, entered>>
      /\ Say(Lines(<<Arguments[1], IF Similar = <<>> THEN <<"-">> ELSE Joined(Similar)>>))
  BY DEF NotFound
<1>2. Arguments[1] \in Texts
  BY <1>1, FirstArgument
<1>3. Similar \in Seq(Texts)
  BY NamesAreTexts, SelectedIsTexts DEF Similar
<1> DEFINE second == IF Similar = <<>> THEN <<"-">> ELSE Joined(Similar)
           first == Arguments[1]
<1>4. second \in Texts
  BY <1>3, JoinedIsText, Literals
<1> HIDE DEF second, first
<1>5. <<first, second>> \in Seq(Texts)
  BY <1>2, <1>4 DEF first
<1>6. Lines(<<first, second>>) \in Texts
  BY <1>5, LinesIsText
<1>7. term' \in SoundScreen
  <2>1. Say(Lines(<<first, second>>))
    BY <1>1 DEF first, second
  <2> QED
    BY <1>6, <2>1, SayShape
<1> QED
  BY <1>1, <1>7, CommandShape

(* `help` prints names of the table or the argument. *)
LEMMA HelpShape ==
    ASSUME Shape, shell_cmd_help
    PROVE  Shape'
<1>1. Execute /\ pc' = "prompt" /\ UNCHANGED <<shell_history, entered>> /\ Say(Help)
  BY DEF shell_cmd_help
<1>2. Arguments \in Seq(Texts) /\ Len(Arguments) = Len(argv) /\ Len(argv) \in Nat
  BY <1>1, FirstArgument
<1>3. Lines(Names) \in Texts
  BY NamesAreTexts, LinesIsText
<1>4. ASSUME Len(argv) = 2
      PROVE  /\ Lines(<<Arguments[2], <<"+">>>>) \in Texts
             /\ Lines(<<<<"-", BLANK>> \o Arguments[2]>>) \in Texts
  <2> DEFINE second == Arguments[2]
             plus == <<"+">>
             said == <<"-", BLANK>> \o second
  <2>1. second \in Texts
    BY <1>2, <1>4, ElementOfSeq
  <2> HIDE DEF second
  <2>2. plus \in Texts /\ said \in Texts
    BY <2>1, Literals DEF Texts
  <2> HIDE DEF plus, said
  <2>3. <<second, plus>> \in Seq(Texts) /\ <<said>> \in Seq(Texts)
    BY <2>1, <2>2
  <2>4. Lines(<<second, plus>>) \in Texts /\ Lines(<<said>>) \in Texts
    BY <2>3, LinesIsText
  <2> QED
    BY <2>4 DEF second, plus, said
<1>5. Lines(<<<<"?">>>>) \in Texts
  <2> DEFINE how == <<"?">>
  <2>1. how \in Texts
    BY Literals
  <2> HIDE DEF how
  <2>2. <<how>> \in Seq(Texts)
    BY <2>1
  <2>3. Lines(<<how>>) \in Texts
    BY <2>2, LinesIsText
  <2> QED
    BY <2>3 DEF how
<1>6. Help \in Texts
  BY <1>3, <1>4, <1>5, Zenon DEF Help
<1>7. term' \in SoundScreen
  BY <1>1, <1>6, SayShape
<1> QED
  BY <1>1, <1>7, CommandShape

(* `echo` prints its arguments. *)
LEMMA EchoShape ==
    ASSUME Shape, shell_cmd_echo
    PROVE  Shape'
<1>1. /\ Execute /\ pc' = "prompt" /\ UNCHANGED <<shell_history, entered>>
      /\ Say(Joined(Tail(Arguments)) \o <<NEWLINE>>)
  BY DEF shell_cmd_echo
<1>2. Arguments \in Seq(Texts) /\ Arguments # <<>>
  BY <1>1, FirstArgument
<1> DEFINE rest == Tail(Arguments)
           said == Joined(rest)
<1>3. rest \in Seq(Texts)
  BY <1>2, HeadTailProperties
<1> HIDE DEF rest
<1>4. said \in Texts
  BY <1>3, JoinedIsText
<1> HIDE DEF said
<1>5. said \o <<NEWLINE>> \in Texts
  BY <1>4, Literals DEF Texts
<1>6. term' \in SoundScreen
  BY <1>1, <1>5, SayShape DEF said, rest
<1> QED
  BY <1>1, <1>6, CommandShape

(* `history` prints lines entered before. *)
LEMMA ShowHistoryShape ==
    ASSUME Shape, shell_show_history
    PROVE  Shape'
<1>1. Execute /\ pc' = "prompt" /\ UNCHANGED <<shell_history, entered>> /\ Say(Lines(shell_history))
  BY DEF shell_show_history
<1>2. shell_history \in Seq(Texts)
  <2>1. Line \subseteq Texts
    BY SeqMonotonic DEF Line, Texts, Glyph
  <2> QED
    BY <2>1, SeqMonotonic DEF Shape, EditorState
<1>3. Lines(shell_history) \in Texts
  BY <1>2, LinesIsText
<1>4. term' \in SoundScreen
  BY <1>1, <1>3, SayShape
<1> QED
  BY <1>1, <1>4, CommandShape

(* The commands whose text is fixed. *)
LEMMA FixedShape ==
    ASSUME Shape, shell_cmd_clear \/ shell_cmd_reboot \/ Report \/ shell_cmd_halt
    PROVE  Shape'
<1>1. CASE shell_cmd_clear \/ shell_cmd_reboot
  <2>1. term' = terminal_writestring(terminal_initialize, <<NEWLINE, NEWLINE>>)
    BY <1>1 DEF shell_cmd_clear, shell_cmd_reboot
  <2>2. term' \in SoundScreen
    BY <2>1, ClearedIsSound, Literals, WritestringIsSound DEF Texts
  <2> QED
    BY <1>1, <2>2, CommandShape DEF shell_cmd_clear, shell_cmd_reboot
<1>2. CASE Report \/ shell_cmd_halt
  <2>1. Say(<<BLANK, "+", NEWLINE>>) \/ Say(<<NEWLINE>>)
    BY <1>2 DEF Report, shell_cmd_halt
  <2>2. term' \in SoundScreen
    BY <2>1, Literals, SayShape
  <2> QED
    BY <1>2, <2>2, CommandShape DEF Report, shell_cmd_halt
<1> QED
  BY <1>1, <1>2

(* The shell starts with everything empty, on a cleared screen. *)
LEMMA InitShape == Init => Shape
<1> SUFFICES ASSUME Init PROVE Shape
  OBVIOUS
<1>1. term \in SoundScreen
  BY ClearedIsSound DEF Init
<1>2. EditorState
  <2>1. <<>> \in Seq(Line) /\ <<>> \in Line /\ Len(<<>>) = 0
    BY EmptySeq DEF Line
  <2>2. 0 <= SHELL_HISTORY_SIZE /\ 0 < SHELL_BUFFER_SIZE
    BY ShellAssumption
  <2> QED
    BY <2>1, <2>2 DEF Init, EditorState
<1>3. ParserState
  <2>1. <<NUL>> \in Copy /\ Len(<<NUL>>) = 1 /\ <<NUL>>[1] = NUL /\ <<NUL>> # <<>>
    BY DEF Copy
  <2>2. <<>> \in Seq(1 .. 1) /\ Len(<<>>) = 0 /\ 0 <= SHELL_MAX_ARGS
    BY EmptySeq, ShellAssumption
  <2> QED
    BY <2>1, <2>2 DEF Init, ParserState
<1> QED
  BY <1>1, <1>2, <1>3 DEF Shape

(* No step leaves the invariant. *)
LEMMA NextShape == Shape /\ [Next]_vars => Shape'
<1> SUFFICES ASSUME Shape, [Next]_vars PROVE Shape'
  OBVIOUS
<1>1. CASE shell_show_prompt
  BY <1>1, PromptShape
<1>2. ASSUME NEW ch \in Printable \cup Ignored \cup {NEWLINE, BACKSPACE}, Key(ch) PROVE Shape'
  BY <1>2, KeyShape
<1>3. CASE Parse
  BY <1>3, StartParseShape, NextArgumentShape, ParseDoneShape DEF Parse
<1>4. CASE Command
  BY <1>4, NotFoundShape, HelpShape, EchoShape, ShowHistoryShape, FixedShape DEF Command
<1>5. CASE UNCHANGED vars
  BY <1>5 DEF Shape, EditorState, ParserState, vars, parser
<1> QED
  BY <1>1, <1>2, <1>3, <1>4, <1>5 DEF Next

(* The screen, the editor and the parser keep their shape in every behaviour. *)
THEOREM ShapeKept == Spec => []Shape
<1>1. Init => Shape
  BY InitShape
<1>2. Shape /\ [Next]_vars => Shape'
  BY NextShape
<1> QED
  BY <1>1, <1>2, PTL DEF Spec

(* Every variable has its type in every state: the cursor is on the screen,  *)
(* the line and its NUL fit shell_buffer, argv points into parse_buffer.     *)
THEOREM ShellTyped == Spec => []TypeOK
<1>1. Shape => TypeOK
  <2> SUFFICES ASSUME Shape PROVE TypeOK
    OBVIOUS
  <2>1. term.row \in Row /\ term.column \in Column
    BY DEF Shape, SoundScreen, Screen
  <2>2. p \in DOMAIN parse_buffer /\ \A k \in DOMAIN argv : argv[k] \in DOMAIN parse_buffer
    <3>1. /\ parse_buffer \in Copy /\ DOMAIN parse_buffer = 1 .. Len(parse_buffer)
          /\ p \in 1 .. Len(parse_buffer) /\ argv \in Seq(1 .. Len(parse_buffer))
      BY DEF Shape, ParserState, Copy
    <3>2. \A k \in 1 .. Len(argv) : argv[k] \in 1 .. Len(parse_buffer)
      BY <3>1, ElementOfSeq
    <3>3. DOMAIN argv = 1 .. Len(argv)
      BY <3>1
    <3> QED
      BY <3>1, <3>2, <3>3
  <2> QED
    BY <2>1, <2>2 DEF Shape, EditorState, ParserState, TypeOK, Line
<1> QED
  BY <1>1, ShapeKept, PTL

(* Cells are numbered row by row. *)
LEMMA CellPlace ==
    ASSUME NEW w \in Nat \ {0}, NEW h \in Nat \ {0}, NEW y \in 0 .. h - 1, NEW x \in 0 .. w - 1,
           NEW n \in (y * w + x) .. (w * h - 1)
    PROVE  /\ n \div w \in 0 .. h - 1 /\ (n % w) \in 0 .. w - 1
           /\ (n \div w) > y \/ ((n \div w) = y /\ (n % w) >= x)
<1> DEFINE q == n \div w
           r == n % w
<1>1. ASSUME NEW a \in Int, NEW b \in Int, a < b PROVE a * w + w <= b * w
  <2>1. (b - a - 1) * w >= 0
    BY <1>1
  <2>2. (b - a - 1) * w = b * w - a * w - w
    OBVIOUS
  <2> QED
    BY <2>1, <2>2
<1>2. y * w \in Int /\ 0 <= y * w /\ n \in Int /\ 0 <= n /\ y * w + x <= n /\ n < w * h
  OBVIOUS
<1>3. q \in Int /\ r \in 0 .. w - 1 /\ n = q * w + r
  BY <1>2
<1> HIDE DEF q, r
<1>4. q * w \in Int /\ w * h = h * w /\ h * w \in Int
  BY <1>3
<1>5. ~(h - 1 < q)
  <2> SUFFICES ASSUME h - 1 < q PROVE FALSE
    OBVIOUS
  <2>1. (h - 1) * w + w <= q * w
    BY <1>1, <1>3
  <2>2. (h - 1) * w + w = h * w
    OBVIOUS
  <2> QED
    BY <1>2, <1>3, <1>4, <2>1, <2>2
<1>6. ~(q < y)
  <2> SUFFICES ASSUME q < y PROVE FALSE
    OBVIOUS
  <2>1. q * w + w <= y * w
    BY <1>1, <1>3
  <2> QED
    BY <1>2, <1>3, <1>4, <2>1
<1>7. q = y => r >= x
  BY <1>2, <1>3
<1> QED
  BY <1>3, <1>5, <1>6, <1>7 DEF q, r

(* From the cursor on the screen is blank, whatever was printed: wrapping,   *)
(* scrolling, erasing and clearing leave nothing in the way of an echo.      *)
THEOREM ScreenBlankAhead == Spec => []BlankAhead
<1>1. Shape => BlankAhead
  <2> SUFFICES ASSUME Shape, NEW n \in Cursor(term) .. VGA_WIDTH * VGA_HEIGHT - 1
               PROVE  CellOf(term, n) = BLANK
    BY DEF BlankAhead
  <2>1. /\ term.row \in 0 .. VGA_HEIGHT - 1 /\ term.column \in 0 .. VGA_WIDTH - 1
        /\ VGA_WIDTH \in Nat \ {0} /\ VGA_HEIGHT \in Nat \ {0}
        /\ \A y \in Row, x \in Column : Ahead(term, y, x) => term.buffer[y][x] = BLANK
    BY TerminalAssumption DEF Shape, SoundScreen, Screen, Row, Column
  <2>2. n \in (term.row * VGA_WIDTH + term.column) .. (VGA_WIDTH * VGA_HEIGHT - 1)
    BY DEF Cursor
  <2> DEFINE y == n \div VGA_WIDTH
             x == n % VGA_WIDTH
  <2>3. y \in Row /\ x \in Column /\ Ahead(term, y, x)
    BY <2>1, <2>2, CellPlace DEF Row, Column, Ahead
  <2> QED
    BY <2>1, <2>3 DEF CellOf
<1> QED
  BY <1>1, ShapeKept, PTL

-----------------------------------------------------------------------------
(* string.c's comparisons of texts without NULs. *)

(* The loop of a comparison ends, at most at the first text's NUL, and all   *)
(* before its end is alike.                                                  *)
LEMMA ComparedAlike ==
    ASSUME NEW a \in Line, NEW b \in Line
    PROVE  /\ LoopEnd(a, b) \in 1 .. Len(a) + 1
           /\ LoopEnd(a, b) = Len(a) + 1 \/ a[LoopEnd(a, b)] # At(b, LoopEnd(a, b))
           /\ \A j \in 1 .. LoopEnd(a, b) - 1 : j <= Len(b) /\ a[j] = b[j]
<1> DEFINE S == {k \in 1 .. Len(a) + 1 : At(a, k) = NUL \/ At(a, k) # At(b, k)}
           m == Len(a)
<1>1. /\ m \in Nat /\ Len(b) \in Nat /\ NUL \notin Printable
      /\ \A j \in 1 .. m : a[j] \in Printable
  BY ElementOfSeq, ShellAssumption DEF Line
<1>2. S \in SUBSET Nat /\ m + 1 \in S
  BY <1>1 DEF At
<1>3. LoopEnd(a, b) = Min(S)
  BY DEF LoopEnd
<1>4. Min(S) \in S /\ \A k \in S : Min(S) <= k
  BY <1>2, MinIsLeast
<1>5. Min(S) \in 1 .. m + 1 /\ (At(a, Min(S)) = NUL \/ At(a, Min(S)) # At(b, Min(S)))
  BY <1>4
<1>6. ASSUME NEW j \in 1 .. Min(S) - 1 PROVE j <= Len(b) /\ a[j] = b[j]
  <2>1. j \notin S /\ j \in 1 .. m
    BY <1>1, <1>4, <1>5
  <2>2. At(a, j) = At(b, j) /\ At(a, j) = a[j] /\ a[j] # NUL
    BY <1>1, <2>1 DEF At
  <2> QED
    BY <2>2 DEF At
<1>7. Min(S) = m + 1 \/ a[Min(S)] # At(b, Min(S))
  BY <1>1, <1>5 DEF At
<1> QED
  BY <1>3, <1>5, <1>6, <1>7

(* strcmp is 0 for a text and itself, and for no other.                      *)
THEOREM StrcmpIsEquality ==
    ASSUME NEW a \in Line, NEW b \in Line
    PROVE  strcmp(a, b) <=> a = b
<1> DEFINE k == LoopEnd(a, b)
<1>1. /\ k \in 1 .. Len(a) + 1 /\ (k = Len(a) + 1 \/ a[k] # At(b, k))
      /\ \A j \in 1 .. k - 1 : j <= Len(b) /\ a[j] = b[j]
  BY ComparedAlike
<1>2. /\ Len(a) \in Nat /\ Len(b) \in Nat /\ NUL \notin Printable
      /\ (\A j \in 1 .. Len(b) : b[j] \in Printable) /\ a \in Seq(Printable) /\ b \in Seq(Printable)
  BY ElementOfSeq, ShellAssumption DEF Line
<1>3. strcmp(a, b) <=> At(a, k) = At(b, k)
  BY DEF strcmp
<1> HIDE DEF k
<1>4. ASSUME At(a, k) = At(b, k) PROVE a = b
  <2>1. k = Len(a) + 1
    BY <1>1, <1>2, <1>4 DEF At
  <2>2. At(b, k) = NUL
    BY <1>2, <1>4, <2>1 DEF At
  <2>3. Len(b) < k
    BY <1>1, <1>2, <2>2 DEF At
  <2>4. Len(a) <= Len(b)
    <3>1. CASE Len(a) = 0
      BY <1>2, <3>1
    <3>2. CASE Len(a) # 0
      <4>1. Len(a) \in 1 .. k - 1
        BY <1>2, <2>1, <3>2
      <4> QED
        BY <1>1, <4>1
    <3> QED
      BY <3>1, <3>2
  <2>5. Len(a) = Len(b) /\ \A j \in 1 .. Len(a) : a[j] = b[j]
    BY <1>1, <1>2, <2>1, <2>3, <2>4
  <2> QED
    BY <1>2, <2>5, SeqEqual
<1>5. ASSUME a = b PROVE At(a, k) = At(b, k)
  BY <1>5
<1> QED
  BY <1>3, <1>4, <1>5

(* And strncmp over the first text's length for those that it begins.        *)
THEOREM StrncmpIsPrefix ==
    ASSUME NEW a \in Line, NEW b \in Line
    PROVE  strncmp(a, b, strlen(a)) <=> IsPrefix(a, b)
<1> DEFINE k == LoopEnd(a, b)
<1>1. /\ k \in 1 .. Len(a) + 1 /\ (k = Len(a) + 1 \/ a[k] # At(b, k))
      /\ \A j \in 1 .. k - 1 : j <= Len(b) /\ a[j] = b[j]
  BY ComparedAlike
<1>2. Len(a) \in Nat /\ Len(b) \in Nat /\ a \in Seq(Printable) /\ b \in Seq(Printable)
  BY DEF Line
<1>3. strncmp(a, b, strlen(a)) <=> Len(a) < k \/ a = b
  BY StrcmpIsEquality DEF strncmp, strlen
<1> HIDE DEF k
<1>4. IsPrefix(a, b) <=> Len(a) <= Len(b) /\ \A j \in 1 .. Len(a) : a[j] = b[j]
  <2>1. ASSUME Len(a) <= Len(b)
        PROVE  /\ SubSeq(a, 1, Len(a)) = a
               /\ SubSeq(b, 1, Len(a)) \in Seq(Printable) /\ Len(SubSeq(b, 1, Len(a))) = Len(a)
               /\ \A j \in 1 .. Len(a) : SubSeq(b, 1, Len(a))[j] = b[j]
    BY <1>2, <2>1
  <2>2. ASSUME Len(a) <= Len(b), \A j \in 1 .. Len(a) : a[j] = b[j]
        PROVE  a = SubSeq(b, 1, Len(a))
    BY <1>2, <2>1, <2>2, SeqEqual
  <2> QED
    BY <2>1, <2>2 DEF IsPrefix
<1>5. ASSUME Len(a) < k PROVE IsPrefix(a, b)
  <2>1. k = Len(a) + 1
    BY <1>1, <1>2, <1>5
  <2>2. Len(a) <= Len(b)
    <3>1. CASE Len(a) = 0
      BY <1>2, <3>1
    <3>2. CASE Len(a) # 0
      <4>1. Len(a) \in 1 .. k - 1
        BY <1>2, <2>1, <3>2
      <4> QED
        BY <1>1, <4>1
    <3> QED
      BY <3>1, <3>2
  <2>3. \A j \in 1 .. Len(a) : a[j] = b[j]
    BY <1>1, <1>2, <2>1
  <2> QED
    BY <1>4, <2>2, <2>3
<1>6. ASSUME IsPrefix(a, b) PROVE Len(a) < k
  <2>1. CASE k = Len(a) + 1
    BY <1>2, <2>1
  <2>2. CASE k # Len(a) + 1
    <3>1. k \in 1 .. Len(a) /\ a[k] # At(b, k)
      BY <1>1, <1>2, <2>2
    <3>2. a[k] = b[k] /\ k <= Len(b)
      BY <1>2, <1>4, <1>6, <3>1
    <3> QED
      BY <3>1, <3>2 DEF At
  <2> QED
    BY <2>1, <2>2
<1>7. ASSUME a = b PROVE IsPrefix(a, b)
  BY <1>2, <1>4, <1>7
<1> QED
  BY <1>3, <1>5, <1>6, <1>7

-----------------------------------------------------------------------------
(* The history. *)

(* A set of m positions or fewer has a first, a second, ... and a last one.  *)
LEMMA NthExists ==
    ASSUME NEW m \in Nat, NEW C \in SUBSET (1 .. m), NEW n \in 1 .. Cardinality(C)
    PROVE  \E c \in C : Cardinality({d \in C : d <= c}) = n
<1> DEFINE Good(k) == \A D \in SUBSET (1 .. k) : \A i \in 1 .. Cardinality(D) :
                         \E c \in D : Cardinality({d \in D : d <= c}) = i
           Bad == {k \in 0 .. m : ~Good(k)}
<1>1. Good(0)
  <2>1. \A D \in SUBSET (1 .. 0) : D = {}
    OBVIOUS
  <2> QED
    BY <2>1, FS_EmptySet
<1>2. ASSUME NEW k \in 1 .. m, Good(k - 1) PROVE Good(k)
  <2> SUFFICES ASSUME NEW D \in SUBSET (1 .. k), NEW i \in 1 .. Cardinality(D)
               PROVE  \E c \in D : Cardinality({d \in D : d <= c}) = i
    OBVIOUS
  <2>0. IsFiniteSet(D) /\ Cardinality(D) \in Nat
    <3>1. IsFiniteSet(1 .. k)
      BY FS_Interval
    <3> QED
      BY <3>1, FS_Subset, FS_CardinalityType
  <2>1. CASE k \notin D
    <3>1. D \in SUBSET (1 .. k - 1)
      <4>1. \A d \in D : d \in 1 .. k /\ d # k
        BY <2>1
      <4> QED
        BY <4>1
    <3> QED
      BY <1>2, <3>1
  <2>2. CASE k \in D /\ i = Cardinality(D)
    <3>1. {d \in D : d <= k} = D
      <4>1. \A d \in D : d \in 1 .. k /\ d <= k
        OBVIOUS
      <4> QED
        BY <4>1
    <3> QED
      BY <2>2, <3>1
  <2>3. CASE k \in D /\ i # Cardinality(D)
    <3> DEFINE E == D \ {k}
    <3>1. E \in SUBSET (1 .. k - 1) /\ \A d \in E : d < k
      <4>1. \A d \in E : d \in 1 .. k /\ d # k
        OBVIOUS
      <4> QED
        BY <4>1
    <3>2. Cardinality(E) = Cardinality(D) - 1
      BY <2>0, <2>3, FS_RemoveElement
    <3>3. i \in 1 .. Cardinality(E)
      BY <2>0, <2>3, <3>2
    <3>4. PICK c \in E : Cardinality({d \in E : d <= c}) = i
      BY <1>2, <3>1, <3>3
    <3>5. {d \in E : d <= c} = {d \in D : d <= c}
      BY <3>1
    <3> QED
      BY <3>4, <3>5
  <2> QED
    BY <2>1, <2>2, <2>3
<1>3. Bad = {}
  <2> SUFFICES ASSUME Bad # {} PROVE FALSE
    OBVIOUS
  <2> HIDE DEF Good
  <2>1. Bad \in SUBSET Nat
    OBVIOUS
  <2>2. PICK k \in Bad : \A j \in Bad : k <= j
    BY <2>1, LeastNatural
  <2>3. k \in 0 .. m /\ ~Good(k)
    OBVIOUS
  <2>4. k # 0
    BY <1>1, <2>3
  <2>5. k - 1 \in 0 .. m /\ k - 1 \notin Bad
    BY <2>2, <2>3, <2>4
  <2> QED
    BY <1>2, <2>3, <2>4, <2>5
<1>4. Good(m)
  <2> HIDE DEF Good
  <2> QED
    BY <1>3
<1> QED
  BY <1>4

(* Nth is one of them, in its place. *)
LEMMA NthInPlace ==
    ASSUME NEW m \in Nat, NEW C \in SUBSET (1 .. m), NEW n \in 1 .. Cardinality(C)
    PROVE  Nth(C, n) \in C /\ Cardinality({d \in C : d <= Nth(C, n)}) = n
<1> DEFINE S == {c \in C : Cardinality({d \in C : d <= c}) = n}
<1>1. S \in SUBSET Nat /\ S # {}
  <2>1. \E c \in C : Cardinality({d \in C : d <= c}) = n
    BY NthExists
  <2>2. S # {}
    BY <2>1, Zenon
  <2>3. \A c \in C : c \in Nat
    OBVIOUS
  <2>4. S \in SUBSET Nat
    BY <2>3, Zenon
  <2> QED
    BY <2>2, <2>4
<1>2. Min(S) \in S
  BY <1>1, MinIsLeast
<1> QED
  BY <1>2 DEF Nth

(* Where lines change. *)
LEMMA ChangesAppend ==
    ASSUME NEW lines \in Seq(Line), NEW line \in Line
    PROVE  /\ Changes(lines) \in SUBSET (1 .. Len(lines))
           /\ Changes(Append(lines, line)) =
                 Changes(lines) \cup
                     (IF lines # <<>> /\ Last(lines) = line THEN {} ELSE {Len(lines) + 1})
<1> DEFINE m == Len(lines)
           more == Append(lines, line)
<1>1. /\ m \in Nat /\ DOMAIN lines = 1 .. m /\ DOMAIN more = 1 .. m + 1 /\ more[m + 1] = line
      /\ \A i \in 1 .. m : more[i] = lines[i]
      /\ (lines = <<>> <=> m = 0) /\ Last(lines) = lines[m]
  BY AppendProperties, EmptySeq DEF Last
<1> HIDE DEF more
<1>2. ASSUME NEW n \in 1 .. m + 1
      PROVE  n \in Changes(more) <=>
                \/ n \in Changes(lines)
                \/ n = m + 1 /\ ~(lines # <<>> /\ Last(lines) = line)
  <2>1. CASE n = m + 1
    <3>1. n \notin Changes(lines)
      BY <1>1, <2>1 DEF Changes
    <3>2. n \in Changes(more) <=> m = 0 \/ line # lines[m]
      <4>1. n \in Changes(more) <=> n = 1 \/ more[n] # more[n - 1]
        BY <1>1 DEF Changes
      <4>2. n = 1 <=> m = 0
        BY <1>1, <2>1
      <4>3. ASSUME m # 0 PROVE more[n - 1] = lines[m]
        <5>1. n - 1 = m /\ m \in 1 .. m
          BY <1>1, <2>1, <4>3
        <5> QED
          BY <1>1, <5>1
      <4> QED
        BY <1>1, <2>1, <4>1, <4>2, <4>3
    <3> QED
      BY <1>1, <2>1, <3>1, <3>2
  <2>2. CASE n # m + 1
    <3>1. n \in 1 .. m /\ (n # 1 => n - 1 \in 1 .. m)
      BY <1>1, <2>2
    <3>2. more[n] = lines[n] /\ (n # 1 => more[n - 1] = lines[n - 1])
      BY <1>1, <3>1
    <3> QED
      BY <1>1, <2>2, <3>1, <3>2 DEF Changes
  <2> QED
    BY <2>1, <2>2
<1>3. Changes(more) \in SUBSET (1 .. m + 1) /\ Changes(lines) \in SUBSET (1 .. m)
  BY <1>1 DEF Changes
<1> QED
  BY <1>1, <1>2, <1>3 DEF more

(* One more line is one more entry, unless it repeats the last one.          *)
LEMMA DistinctAppend ==
    ASSUME NEW lines \in Seq(Line), NEW line \in Line
    PROVE  /\ Distinct(lines) \in Seq(Line)
           /\ Distinct(Append(lines, line)) =
                 IF lines # <<>> /\ Last(lines) = line THEN Distinct(lines)
                 ELSE Append(Distinct(lines), line)
<1> DEFINE m == Len(lines)
           more == Append(lines, line)
           C == Changes(lines)
           D == Changes(more)
<1>1. /\ m \in Nat /\ DOMAIN lines = 1 .. m /\ more[m + 1] = line
      /\ \A i \in 1 .. m : more[i] = lines[i] /\ lines[i] \in Line
  BY AppendProperties, ElementOfSeq
<1>2. /\ C \in SUBSET (1 .. m)
      /\ D = C \cup (IF lines # <<>> /\ Last(lines) = line THEN {} ELSE {m + 1})
  BY ChangesAppend
<1>3. IsFiniteSet(C) /\ Cardinality(C) \in Nat
  <2>1. IsFiniteSet(1 .. m)
    BY <1>1, FS_Interval
  <2> QED
    BY <1>2, <2>1, FS_Subset, FS_CardinalityType
<1>4. Distinct(lines) = [n \in 1 .. Cardinality(C) |-> lines[Nth(C, n)]]
  BY DEF Distinct
<1>5. Distinct(more) = [n \in 1 .. Cardinality(D) |-> more[Nth(D, n)]]
  BY DEF Distinct
<1> HIDE DEF C, D, more
<1>6. \A n \in 1 .. Cardinality(C) : Nth(C, n) \in 1 .. m /\ Nth(C, n) \in C
  BY <1>1, <1>2, NthInPlace
<1>7. Distinct(lines) \in [1 .. Cardinality(C) -> Line]
  BY <1>1, <1>4, <1>6
<1>8. Distinct(lines) \in Seq(Line) /\ Len(Distinct(lines)) = Cardinality(C)
  BY <1>3, <1>7
<1>9. CASE lines # <<>> /\ Last(lines) = line
  <2>1. D = C
    BY <1>2, <1>9
  <2>2. \A n \in 1 .. Cardinality(C) : more[Nth(C, n)] = lines[Nth(C, n)]
    BY <1>1, <1>6
  <2>3. Distinct(more) = Distinct(lines)
    BY <1>4, <1>5, <2>1, <2>2
  <2> QED
    BY <1>8, <1>9, <2>3 DEF more
<1>10. CASE ~(lines # <<>> /\ Last(lines) = line)
  <2>1. D = C \cup {m + 1} /\ m + 1 \notin C /\ \A c \in C : c \in Nat /\ c <= m
    BY <1>1, <1>2, <1>10
  <2>2. Cardinality(D) = Cardinality(C) + 1 /\ IsFiniteSet(D)
    BY <1>3, <2>1, FS_AddElement
  <2>3. ASSUME NEW c \in C
        PROVE  /\ {d \in D : d <= c} = {d \in C : d <= c}
               /\ Cardinality({d \in C : d <= c}) \in Nat
               /\ Cardinality({d \in C : d <= c}) <= Cardinality(C)
    <3>1. {d \in D : d <= c} = {d \in C : d <= c}
      BY <1>1, <2>1
    <3>2. {d \in C : d <= c} \in SUBSET C
      OBVIOUS
    <3> QED
      BY <1>3, <3>1, <3>2, FS_Subset, FS_CardinalityType
  <2>4. {d \in D : d <= m + 1} = D
    BY <1>1, <2>1
  <2>5. ASSUME NEW n \in 1 .. Cardinality(C) PROVE Nth(D, n) = Nth(C, n)
    <3>1. Cardinality({d \in D : d <= m + 1}) # n
      <4>1. Cardinality({d \in D : d <= m + 1}) = Cardinality(D)
        BY <2>4
      <4> QED
        BY <1>3, <2>2, <4>1
    <3>2. {c \in D : Cardinality({d \in D : d <= c}) = n} =
          {c \in C : Cardinality({d \in C : d <= c}) = n}
      BY <2>1, <2>3, <3>1
    <3> QED
      BY <3>2 DEF Nth
  <2>6. Nth(D, Cardinality(D)) = m + 1
    <3>0. Cardinality(D) \in 1 .. Cardinality(D) /\ m + 1 \in Nat
      BY <1>1, <1>3, <2>2
    <3>1. D \in SUBSET (1 .. m + 1)
      <4>1. ASSUME NEW d \in D PROVE d \in 1 .. m + 1
        <5>1. d \in 1 .. m \/ d = m + 1
          BY <1>2, <2>1
        <5> QED
          BY <1>1, <5>1
      <4> QED
        BY <4>1
    <3> DEFINE c == Nth(D, Cardinality(D))
    <3>2. c \in D /\ Cardinality({d \in D : d <= c}) = Cardinality(D)
      BY <3>0, <3>1, NthInPlace
    <3> HIDE DEF c
    <3>3. c \notin C
      <4> SUFFICES ASSUME c \in C PROVE FALSE
        OBVIOUS
      <4>1. Cardinality({d \in D : d <= c}) <= Cardinality(C)
        BY <2>3
      <4> QED
        BY <1>3, <2>2, <3>2, <4>1
    <3>4. c = m + 1
      BY <2>1, <3>2, <3>3
    <3> QED
      BY <3>4 DEF c
  <2>7. ASSUME NEW n \in 1 .. Cardinality(C) + 1
        PROVE  more[Nth(D, n)] = IF n = Cardinality(C) + 1 THEN line ELSE Distinct(lines)[n]
    <3>1. CASE n = Cardinality(C) + 1
      BY <1>1, <2>2, <2>6, <3>1
    <3>2. CASE n # Cardinality(C) + 1
      <4>1. n \in 1 .. Cardinality(C)
        BY <1>3, <3>2
      <4>2. more[Nth(D, n)] = lines[Nth(C, n)]
        BY <1>1, <1>6, <2>5, <4>1
      <4> QED
        BY <1>4, <3>2, <4>1, <4>2
    <3> QED
      BY <3>1, <3>2
  <2> DEFINE old == Distinct(lines)
             new == Distinct(more)
             k == Cardinality(C)
  <2> HIDE DEF old, k
  <2>8. old \in Seq(Line) /\ Len(old) = k /\ k \in Nat
    BY <1>3, <1>8 DEF old, k
  <2>9. new = [n \in 1 .. k + 1 |-> IF n = k + 1 THEN line ELSE old[n]]
    BY <1>5, <2>2, <2>7 DEF old, k
  <2> HIDE DEF new
  <2>10. new = Append(old, line)
    BY <2>8, <2>9
  <2> QED
    BY <1>8, <1>10, <2>10 DEF old, new, more
<1> QED
  BY <1>9, <1>10

(* The greater of two. *)
LEMMA MaxOfPair ==
    ASSUME NEW a \in Int, NEW b \in Int
    PROVE  Max({a, b}) = IF b > a THEN b ELSE a
<1> DEFINE m == IF b > a THEN b ELSE a
<1>1. m \in {a, b} /\ \A n \in {a, b} : m >= n
  OBVIOUS
<1>2. Max({a, b}) \in {a, b} /\ \A n \in {a, b} : Max({a, b}) >= n
  <2> HIDE DEF m
  <2> QED
    BY <1>1, Zenon DEF Max
<1> QED
  BY <1>2

(* history is the last entries of all that were different; the last of them  *)
(* is the last line entered.                                                 *)
Recent(history, lines) ==
    LET distinct == Distinct(lines) IN
    /\ history = Newest(distinct, SHELL_HISTORY_SIZE)
    /\ lines = <<>> <=> distinct = <<>>
    /\ lines # <<>> => Last(distinct) = Last(lines)

(* The part of a sequence that history is. *)
LEMMA LastEntries ==
    ASSUME NEW d \in Seq(Line), NEW size \in Nat \ {0}
    PROVE  LET h == Newest(d, size) IN
           /\ h \in Seq(Line) /\ Len(h) = IF Len(d) < size THEN Len(d) ELSE size
           /\ \A i \in 1 .. Len(h) : h[i] = d[Len(d) - Len(h) + i]
<1> DEFINE h == Newest(d, size)
           m == Len(d)
           from == Max({1, m - size + 1})
<1>1. m \in Nat /\ size \in Nat \ {0} /\ m - size + 1 \in Int
  OBVIOUS
<1>2. from = IF m - size + 1 > 1 THEN m - size + 1 ELSE 1
  <2> HIDE DEF m
  <2> QED
    BY <1>1, MaxOfPair
<1>3. h = SubSeq(d, from, m) /\ \A i \in 1 .. m : d[i] \in Line
  BY ElementOfSeq DEF Newest
<1> HIDE DEF from, m, h
<1>4. from \in 1 .. m + 1 /\ m - from + 1 = IF m < size THEN m ELSE size
  BY <1>1, <1>2
<1>5. \A i \in from .. m : d[i] \in Line
  BY <1>1, <1>3, <1>4
<1>6. /\ h \in Seq(Line) /\ Len(h) = IF from <= m THEN m - from + 1 ELSE 0
      /\ \A i \in 1 .. m - from + 1 : h[i] = d[from + i - 1]
  <2>1. from \in Int /\ m \in Int
    BY <1>1, <1>4
  <2> QED
    BY <1>3, <1>5, <2>1, SubSeqProperties
<1>7. Len(h) = m - from + 1
  BY <1>1, <1>4, <1>6
<1>8. Len(h) = IF m < size THEN m ELSE size
  BY <1>4, <1>7
<1>9. ASSUME NEW i \in 1 .. Len(h) PROVE h[i] = d[m - Len(h) + i]
  <2>1. from + i - 1 = m - Len(h) + i /\ i \in 1 .. m - from + 1
    BY <1>1, <1>4, <1>7
  <2>2. h[i] = d[from + i - 1]
    BY <1>6, <2>1
  <2> QED
    BY <2>1, <2>2
<1> QED
  BY <1>6, <1>8, <1>9 DEF m, h

(* shell_add_to_history keeps it so. *)
LEMMA RecentStep ==
    ASSUME NEW h, NEW lines \in Seq(Line), NEW line \in Line, line # <<>>, Recent(h, lines)
    PROVE  Recent(shell_add_to_history(h, line), Append(lines, line))
<1> DEFINE d == Distinct(lines)
           size == SHELL_HISTORY_SIZE
           n == Len(d)
           more == Append(lines, line)
<1>1. /\ d \in Seq(Line)
      /\ Distinct(more) = IF lines # <<>> /\ Last(lines) = line THEN d ELSE Append(d, line)
  BY DistinctAppend
<1>2. size \in Nat \ {0} /\ n \in Nat /\ strlen(line) # 0 /\ more # <<>> /\ Last(more) = line
  <2>1. Len(more) = Len(lines) + 1 /\ more[Len(lines) + 1] = line /\ Len(lines) \in Nat
    BY AppendProperties
  <2>2. more # <<>>
    BY <2>1, EmptySeq
  <2> HIDE DEF more
  <2>3. Last(more) = line
    BY <2>1 DEF Last
  <2>4. size \in Nat \ {0} /\ n \in Nat
    BY <1>1, ShellAssumption
  <2>5. strlen(line) # 0
    BY EmptySeq DEF Line, strlen
  <2> QED
    BY <2>2, <2>3, <2>4, <2>5
<1>3. /\ h \in Seq(Line) /\ Len(h) = IF n < size THEN n ELSE size
      /\ \A i \in 1 .. Len(h) : h[i] = d[n - Len(h) + i]
  <2>1. h = Newest(d, size)
    BY DEF Recent
  <2> HIDE DEF d, size, n
  <2>2. /\ h \in Seq(Line) /\ Len(h) = IF Len(d) < size THEN Len(d) ELSE size
        /\ \A i \in 1 .. Len(h) : h[i] = d[Len(d) - Len(h) + i]
    BY <1>1, <1>2, <2>1, LastEntries
  <2> QED
    BY <2>2 DEF n
<1>4. (lines = <<>> <=> d = <<>>) /\ (lines # <<>> => Last(d) = Last(lines))
  BY DEF Recent
<1> HIDE DEF d, size, n, more
<1>5. Len(h) \in Nat /\ (d = <<>> <=> n = 0) /\ (h = <<>> <=> n = 0)
  <2>1. Len(h) = 0 <=> n = 0
    BY <1>2, <1>3
  <2> QED
    BY <1>1, <1>3, <2>1, EmptySeq DEF n
<1>6. n # 0 => Last(h) = Last(d) /\ Last(d) \in Line
  <2> SUFFICES ASSUME n # 0 PROVE Last(h) = Last(d) /\ Last(d) \in Line
    OBVIOUS
  <2>1. Len(h) \in 1 .. Len(h) /\ n \in 1 .. n /\ n - Len(h) + Len(h) = n
    BY <1>2, <1>3
  <2>2. h[Len(h)] = d[n - Len(h) + Len(h)]
    BY <1>3, <2>1
  <2>3. h[Len(h)] = d[n]
    BY <2>1, <2>2
  <2>4. d[n] \in Line
    BY <1>1, <2>1, ElementOfSeq DEF n
  <2> QED
    BY <2>3, <2>4 DEF Last, n
<1>7. h # <<>> /\ strcmp(Last(h), line) <=> lines # <<>> /\ Last(lines) = line
  BY <1>4, <1>5, <1>6, StrcmpIsEquality
<1>8. CASE lines # <<>> /\ Last(lines) = line
  <2>1. shell_add_to_history(h, line) = h
    BY <1>7, <1>8 DEF shell_add_to_history
  <2>2. Distinct(more) = d /\ d # <<>> /\ Last(d) = line
    BY <1>1, <1>4, <1>8
  <2>3. h = Newest(d, SHELL_HISTORY_SIZE)
    BY DEF Recent, d
  <2>4. Recent(h, more)
    BY <1>2, <2>2, <2>3, Zenon DEF Recent
  <2> QED
    BY <2>1, <2>4 DEF more
<1>9. CASE ~(lines # <<>> /\ Last(lines) = line)
  <2> DEFINE e == Append(d, line)
             g == shell_add_to_history(h, line)
             k == Newest(e, size)
  <2>1. Distinct(more) = e
    BY <1>1, <1>9
  <2>2. g = IF Len(h) >= size THEN Append(Tail(h), line) ELSE Append(h, line)
    BY <1>2, <1>7, <1>9 DEF shell_add_to_history, size
  <2>3. /\ e \in Seq(Line) /\ Len(e) = n + 1 /\ e[n + 1] = line /\ e # <<>>
        /\ \A i \in 1 .. n : e[i] = d[i]
    BY <1>1, <1>2, AppendProperties, EmptySeq DEF n
  <2> HIDE DEF e
  <2>4. /\ k \in Seq(Line) /\ Len(k) = IF n + 1 < size THEN n + 1 ELSE size
        /\ \A i \in 1 .. Len(k) : k[i] = e[n + 1 - Len(k) + i]
    <3> HIDE DEF size, k
    <3>1. k = Newest(e, size)
      BY DEF k
    <3>2. /\ k \in Seq(Line) /\ Len(k) = IF Len(e) < size THEN Len(e) ELSE size
          /\ \A i \in 1 .. Len(k) : k[i] = e[Len(e) - Len(k) + i]
      BY <1>2, <2>3, <3>1, LastEntries
    <3> QED
      BY <1>2, <2>3, <3>2
  <2> HIDE DEF g, k
  <2>5. ASSUME Len(h) >= size PROVE g = k
    <3>1. Len(h) = size /\ n >= size /\ h # <<>>
      BY <1>2, <1>3, <1>5, <2>5
    <3>2. /\ Tail(h) \in Seq(Line) /\ Len(Tail(h)) = size - 1
          /\ \A i \in 1 .. size - 1 : Tail(h)[i] = h[i + 1]
      BY <1>3, <3>1, HeadTailProperties
    <3>3. /\ g \in Seq(Line) /\ Len(g) = size /\ g[size] = line
          /\ \A i \in 1 .. size - 1 : g[i] = Tail(h)[i]
      <4> DEFINE s == Tail(h)
      <4> HIDE DEF s
      <4>1. g = Append(s, line) /\ s \in Seq(Line) /\ Len(s) = size - 1
        BY <2>2, <2>5, <3>2 DEF s
      <4>2. /\ g \in Seq(Line) /\ Len(g) = size /\ g[size] = line
            /\ \A i \in 1 .. size - 1 : g[i] = s[i]
        BY <1>2, <4>1, AppendProperties
      <4> QED
        BY <4>2 DEF s
    <3>4. Len(k) = size
      BY <1>2, <2>4, <3>1
    <3>5. ASSUME NEW i \in 1 .. size PROVE g[i] = k[i]
      <4>1. k[i] = e[n + 1 - size + i]
        BY <2>4, <3>4
      <4>2. CASE i = size
        <5>1. n + 1 - size + i = n + 1
          BY <1>2, <4>2
        <5> QED
          BY <2>3, <3>3, <4>1, <4>2, <5>1
      <4>3. CASE i # size
        <5>1. i \in 1 .. size - 1 /\ i + 1 \in 1 .. size /\ n + 1 - size + i \in 1 .. n
          BY <1>2, <3>1, <4>3
        <5>2. g[i] = h[i + 1] /\ h[i + 1] = d[n - size + (i + 1)]
          BY <1>3, <3>1, <3>2, <3>3, <5>1
        <5>3. n - size + (i + 1) = n + 1 - size + i
          BY <1>2
        <5> QED
          BY <2>3, <4>1, <5>1, <5>2, <5>3
      <4> QED
        BY <4>2, <4>3
    <3>6. g \in Seq(Line) /\ k \in Seq(Line) /\ Len(g) = Len(k)
      BY <2>4, <3>3, <3>4
    <3>7. \A i \in 1 .. Len(g) : g[i] = k[i]
      BY <3>3, <3>5
    <3> QED
      BY <3>6, <3>7, SeqEqual
  <2>6. ASSUME Len(h) < size PROVE g = k
    <3>1. Len(h) = n /\ n < size
      BY <1>2, <1>3, <2>6
    <3>2. \A i \in 1 .. n : h[i] = d[i]
      <4>1. \A i \in 1 .. n : n - n + i = i
        BY <1>2
      <4> QED
        BY <1>3, <3>1, <4>1
    <3>3. ~(Len(h) >= size)
      BY <1>2, <3>1
    <3>4. /\ g \in Seq(Line) /\ Len(g) = n + 1 /\ g[n + 1] = line
          /\ \A i \in 1 .. n : g[i] = h[i]
      BY <1>2, <1>3, <2>2, <3>1, <3>3, AppendProperties
    <3>5. Len(k) = n + 1
      BY <1>2, <2>4, <3>1
    <3>6. \A i \in 1 .. n + 1 : k[i] = e[i]
      <4>1. \A i \in 1 .. n + 1 : n + 1 - (n + 1) + i = i
        BY <1>2
      <4> QED
        BY <2>4, <3>5, <4>1
    <3>7. ASSUME NEW i \in 1 .. n + 1 PROVE g[i] = k[i]
      <4>1. i = n + 1 \/ i \in 1 .. n
        BY <1>2
      <4> QED
        BY <2>3, <3>2, <3>4, <3>6, <4>1
    <3>8. g \in Seq(Line) /\ k \in Seq(Line) /\ Len(g) = Len(k)
      BY <2>4, <3>4, <3>5
    <3>9. \A i \in 1 .. Len(g) : g[i] = k[i]
      BY <3>4, <3>7
    <3> QED
      BY <3>8, <3>9, SeqEqual
  <2>7. g = k
    <3>1. Len(h) >= size \/ Len(h) < size
      BY <1>2, <1>5
    <3> QED
      BY <2>5, <2>6, <3>1
  <2>8. Last(e) = line
    BY <2>3 DEF Last
  <2>9. Recent(g, more)
    BY <1>2, <2>1, <2>3, <2>7, <2>8, Zenon DEF Recent, k, size
  <2> QED
    BY <2>9 DEF g, more
<1> QED
  BY <1>8, <1>9

(* Before anything is entered. *)
LEMMA RecentEmpty == Recent(<<>>, <<>>)
<1>1. Changes(<<>>) = {} /\ Cardinality({}) = 0
  BY FS_EmptySet DEF Changes
<1>2. Distinct(<<>>) = <<>>
  <2>1. DOMAIN Distinct(<<>>) = 1 .. 0
    BY <1>1 DEF Distinct
  <2>2. Distinct(<<>>) \in Seq(Line)
    BY EmptySeq, DistinctAppend DEF Line
  <2> QED
    BY <2>1, <2>2, EmptySeq
<1>3. Newest(<<>>, SHELL_HISTORY_SIZE) = <<>>
  <2> DEFINE from == Max({1, Len(<<>>) - SHELL_HISTORY_SIZE + 1})
  <2>1. Len(<<>>) = 0 /\ SHELL_HISTORY_SIZE \in Nat
    BY ShellAssumption
  <2>2. from \in Int /\ 0 < from
    BY <2>1, MaxOfPair
  <2> HIDE DEF from
  <2>3. SubSeq(<<>>, from, 0) = <<>>
    BY <2>2, SubSeqEmpty
  <2> QED
    BY <2>1, <2>3 DEF Newest, from
<1> QED
  BY <1>2, <1>3 DEF Recent

(* `history` shows the last SHELL_HISTORY_SIZE different lines entered since *)
(* the shell was started or rebooted, newest last, and a line entered several *)
(* times in a row once.                                                      *)
THEOREM HistoryStaysRecent == Spec => []HistoryIsRecent
<1> DEFINE Inv == Recent(shell_history, entered)
<1>1. Init => Inv
  BY RecentEmpty DEF Init
<1>2. Shape /\ Inv /\ [Next]_vars => Inv'
  <2> SUFFICES ASSUME Shape, Inv, [Next]_vars PROVE Inv'
    OBVIOUS
  <2>1. CASE UNCHANGED <<shell_history, entered>>
    BY <2>1
  <2>2. CASE Enter
    <3>1. shell_buffer \in Line /\ entered \in Seq(Line)
      BY DEF Shape, EditorState
    <3>2. CASE shell_buffer = <<>>
      <4>1. strlen(shell_buffer) = 0
        BY <3>2 DEF strlen
      <4>2. UNCHANGED <<shell_history, entered>>
        BY <2>2, <3>2, <4>1 DEF Enter, shell_add_to_history
      <4> QED
        BY <2>1, <4>2
    <3>3. CASE shell_buffer # <<>>
      <4>1. Recent(shell_add_to_history(shell_history, shell_buffer),
                   Append(entered, shell_buffer))
        BY <3>1, <3>3, RecentStep
      <4> QED
        BY <2>2, <3>3, <4>1 DEF Enter
    <3> QED
      BY <3>2, <3>3
  <2>3. CASE shell_history' = <<>> /\ entered' = <<>>
    BY <2>3, RecentEmpty
  <2>4. \/ UNCHANGED <<shell_history, entered>> \/ Enter
        \/ shell_history' = <<>> /\ entered' = <<>>
    <3>1. CASE \E ch \in Printable \cup Ignored \cup {NEWLINE, BACKSPACE} : Key(ch)
      BY <3>1 DEF Key, Backspace, Character
    <3>2. CASE shell_show_prompt \/ Parse
      BY <3>2 DEF shell_show_prompt, Parse, StartParse, NextArgument, ParseDone
    <3>3. CASE Command
      BY <3>3 DEF Command, NotFound, shell_cmd_help, shell_cmd_clear, shell_cmd_echo,
         shell_show_history, Report, shell_cmd_reboot, shell_cmd_halt
    <3>4. CASE UNCHANGED vars
      BY <3>4 DEF vars
    <3> QED
      BY <3>1, <3>2, <3>3, <3>4 DEF Next
  <2> QED
    BY <2>1, <2>2, <2>3, <2>4
<1>3. Inv => HistoryIsRecent
  BY DEF Recent, HistoryIsRecent
<1> QED
  BY <1>1, <1>2, <1>3, ShapeKept, PTL DEF Spec

-----------------------------------------------------------------------------
(* Words, the reference the parser is compared with. *)

(* Between words, and inside one that `stop` ends. *)
GapState(ws) == [words |-> ws, word |-> <<>>, within |-> "gap"]
InState(ws, w, stop) ==
    [words |-> ws, word |-> w, within |-> IF stop = QUOTE THEN "quotes" ELSE "word"]
Ended(ws, w) == IF w = <<>> THEN ws ELSE Append(ws, w)
ScanState == {GapState(ws) : ws \in Seq(Line)}
             \cup {InState(ws, w, stop) : ws \in Seq(Line), w \in Line, stop \in {QUOTE, BLANK}}

(* What a character does in each. *)
LEMMA ScanBlank == ASSUME NEW ws PROVE Scan(GapState(ws), BLANK) = GapState(ws)
<1>1. QUOTE # BLANK
  BY DEF QUOTE, BLANK
<1> QED
  BY <1>1 DEF Scan, GapState

(* A quote opens a word. *)
LEMMA ScanQuote == ASSUME NEW ws PROVE Scan(GapState(ws), QUOTE) = InState(ws, <<>>, QUOTE)
<1>1. QUOTE # BLANK
  BY DEF QUOTE, BLANK
<1> QED
  BY <1>1 DEF Scan, GapState, InState

(* Any other character is the first of one. *)
LEMMA ScanFirst ==
    ASSUME NEW ws, NEW ch, ch \notin {QUOTE, BLANK}
    PROVE  Scan(GapState(ws), ch) = InState(ws, <<ch>>, BLANK)
<1>1. QUOTE # BLANK
  BY DEF QUOTE, BLANK
<1> QED
  BY <1>1 DEF Scan, GapState, InState

(* A word goes on up to what ends it, *)
LEMMA ScanInside ==
    ASSUME NEW ws, NEW w, NEW stop \in {QUOTE, BLANK}, NEW ch, ch # stop
    PROVE  Scan(InState(ws, w, stop), ch) = InState(ws, Append(w, ch), stop)
<1>1. QUOTE # BLANK
  BY DEF QUOTE, BLANK
<1> QED
  BY <1>1 DEF Scan, InState

(* and counts if it is not empty. *)
LEMMA ScanStop ==
    ASSUME NEW ws, NEW w, NEW stop \in {QUOTE, BLANK}
    PROVE  Scan(InState(ws, w, stop), stop) = GapState(Ended(ws, w))
<1>1. QUOTE # BLANK
  BY DEF QUOTE, BLANK
<1> QED
  BY <1>1 DEF Scan, InState, GapState, Closed, Ended

(* The words once the line is over. *)
LEMMA ClosedStates ==
    ASSUME NEW ws, NEW w, NEW stop
    PROVE  Closed(GapState(ws)) = ws /\ Closed(InState(ws, w, stop)) = Ended(ws, w)
BY DEF Closed, GapState, InState, Ended

(* A scan stays a scan. *)
LEMMA ScanClosed ==
    ASSUME NEW t \in ScanState, NEW ch \in Printable
    PROVE  Scan(t, ch) \in ScanState
<1>1. CASE \E ws \in Seq(Line) : t = GapState(ws)
  <2>1. PICK ws \in Seq(Line) : t = GapState(ws)
    BY <1>1
  <2>2. <<ch>> \in Line /\ <<>> \in Line
    BY EmptySeq DEF Line
  <2>3. Scan(t, ch) = GapState(ws) \/ Scan(t, ch) = InState(ws, <<>>, QUOTE)
        \/ Scan(t, ch) = InState(ws, <<ch>>, BLANK)
    BY <2>1, ScanBlank, ScanQuote, ScanFirst
  <2> QED
    BY <2>2, <2>3 DEF ScanState
<1>2. CASE \E ws \in Seq(Line), w \in Line, stop \in {QUOTE, BLANK} : t = InState(ws, w, stop)
  <2>1. PICK ws \in Seq(Line), w \in Line, stop \in {QUOTE, BLANK} : t = InState(ws, w, stop)
    BY <1>2
  <2>2. Append(w, ch) \in Line /\ Ended(ws, w) \in Seq(Line)
    BY AppendProperties DEF Line, Ended
  <2>3. Scan(t, ch) = GapState(Ended(ws, w)) \/ Scan(t, ch) = InState(ws, Append(w, ch), stop)
    BY <2>1, ScanInside, ScanStop
  <2> QED
    BY <2>2, <2>3 DEF ScanState
<1> QED
  BY <1>1, <1>2 DEF ScanState

(* The scan after each character of a text. *)
IsScan(f, text) ==
    /\ f \in [0 .. Len(text) -> ScanState] /\ f[0] = GapState(<<>>)
    /\ \A k \in 1 .. Len(text) : f[k] = Scan(f[k - 1], text[k])
    /\ Words(text) = Closed(f[Len(text)])

(* Every line has a scan, and Words is read from its end. *)
LEMMA ScanExists ==
    ASSUME NEW text \in Line
    PROVE  \E f : IsScan(f, text)
<1> DEFINE start == GapState(<<>>)
           n == Len(text)
           step == [x \in ScanState \X Printable |-> Scan(x[1], x[2])]
           Folds(f) == f = [D \in SUBSET DOMAIN text |->
                              IF D = {} THEN start
                              ELSE Scan(f[D \ {Max(D)}], text[Max(D)])]
           iter == CHOOSE f : Folds(f)
<1>1. n \in Nat /\ DOMAIN text = 1 .. n /\ text \in [1 .. n -> Printable] /\ start \in ScanState
  <2>1. <<>> \in Seq(Line)
    BY EmptySeq
  <2>2. start \in ScanState
    <3>1. GapState(<<>>) \in {GapState(ws) : ws \in Seq(Line)}
      BY <2>1
    <3> QED
      BY <3>1 DEF ScanState
  <2> QED
    BY <2>2 DEF Line
<1>2. /\ step \in [ScanState \X Printable -> ScanState]
      /\ \A t \in ScanState, ch \in Printable : step[<<t, ch>>] = Scan(t, ch)
  BY ScanClosed
<1>3. Words(text) = Closed(iter[DOMAIN text])
  BY Zenon DEF Words, FoldLeft, MapThenFoldSet, GapState
<1> HIDE DEF step, n, start
<1>4. PICK g : IsFold(g, ScanState, n, text, start, step)
  BY <1>1, <1>2, FoldExists, Zenon
<1>5. Folds(g)
  <2>1. ASSUME NEW D \in SUBSET (1 .. n)
        PROVE  g[D] = IF D = {} THEN start ELSE Scan(g[D \ {Max(D)}], text[Max(D)])
    <3>1. CASE D = {}
      BY <1>4, <3>1 DEF IsFold
    <3>2. CASE D # {}
      <4>1. g[D \ {Max(D)}] \in ScanState /\ text[Max(D)] \in Printable
        BY <1>1, <1>4, <3>2, NextOfFold DEF IsFold
      <4> QED
        BY <1>2, <1>4, <3>2, <4>1 DEF IsFold
    <3> QED
      BY <3>1, <3>2
  <2> QED
    BY <1>1, <1>4, <2>1 DEF IsFold
<1>6. Folds(iter)
  <2> HIDE DEF Folds
  <2> QED
    BY <1>5
<1> HIDE DEF iter
<1>7. iter[{}] = start
  BY <1>1, <1>6
<1>8. ASSUME NEW m \in 1 .. n PROVE iter[1 .. m] = Scan(iter[1 .. m - 1], text[m])
  <2>0. m \in Nat /\ m >= 1 /\ m <= n
    BY <1>1
  <2>1. 1 .. m \in SUBSET Nat /\ 1 .. m # {} /\ m \in Nat /\ \A k \in 1 .. m : k <= m
    BY <2>0
  <2>2. Max(1 .. m) = m
    <3>1. Max(1 .. m) \in 1 .. m /\ \A k \in 1 .. m : k <= Max(1 .. m)
      BY <2>1, MaxIsGreatest, Zenon
    <3> QED
      BY <3>1
  <2>3. (1 .. m) \ {m} = 1 .. m - 1 /\ 1 .. m \in SUBSET (1 .. n)
    BY <1>1
  <2> QED
    BY <1>1, <1>6, <2>1, <2>2, <2>3
<1> DEFINE f == [k \in 0 .. n |-> iter[1 .. k]]
<1>9. f[0] = start /\ f[n] = iter[1 .. n] /\ DOMAIN f = 0 .. n
  <2>1. 1 .. 0 = {}
    OBVIOUS
  <2> QED
    BY <1>1, <1>7, <2>1
<1>10. \A k \in 1 .. n : f[k] = Scan(f[k - 1], text[k])
  <2> TAKE k \in 1 .. n
  <2>1. k \in 0 .. n /\ k - 1 \in 0 .. n
    BY <1>1
  <2> QED
    BY <1>8, <2>1
<1>11. f \in [0 .. n -> ScanState]
  <2> DEFINE Bad == {k \in 0 .. n : f[k] \notin ScanState}
  <2>1. Bad = {}
    <3> SUFFICES ASSUME Bad # {} PROVE FALSE
      OBVIOUS
    <3>1. Bad \in SUBSET Nat
      OBVIOUS
    <3> HIDE DEF f
    <3>2. PICK k \in Bad : \A j \in Bad : k <= j
      BY <3>1, LeastNatural
    <3>3. k \in 0 .. n /\ f[k] \notin ScanState /\ k # 0
      BY <1>1, <1>9
    <3>4. k - 1 \in 0 .. n /\ k - 1 \notin Bad /\ k \in 1 .. n
      BY <1>1, <3>2, <3>3
    <3>5. f[k - 1] \in ScanState /\ text[k] \in Printable
      BY <1>1, <3>4
    <3> QED
      BY <1>10, <3>3, <3>4, <3>5, ScanClosed
  <2>2. \A k \in 0 .. n : f[k] \in ScanState
    BY <2>1, Zenon
  <2> HIDE DEF Bad
  <2> QED
    BY <2>2
<1> HIDE DEF f
<1>12. IsScan(f, text)
  BY <1>1, <1>3, <1>9, <1>10, <1>11 DEF IsScan, n, start
<1> QED
  BY <1>12, Zenon

(* Words are only added. *)
Begins(ws, more) == Len(ws) <= Len(more) /\ \A i \in 1 .. Len(ws) : more[i] = ws[i]
Extends(t, ws) ==
    \E more \in Seq(Line) :
        /\ Begins(ws, more)
        /\ \/ t = GapState(more)
           \/ \E w \in Line, stop \in {QUOTE, BLANK} : t = InState(more, w, stop)

(* Ending a word keeps the words before it. *)
LEMMA EndedBegins ==
    ASSUME NEW ws \in Seq(Line), NEW more \in Seq(Line), Begins(ws, more), NEW w \in Line
    PROVE  Ended(more, w) \in Seq(Line) /\ Begins(ws, Ended(more, w))
<1>1. CASE w = <<>>
  BY <1>1 DEF Ended
<1>2. CASE w # <<>>
  <2>1. /\ Append(more, w) \in Seq(Line) /\ Len(Append(more, w)) = Len(more) + 1
        /\ \A i \in 1 .. Len(more) : Append(more, w)[i] = more[i]
    BY AppendProperties
  <2>2. Len(ws) <= Len(more) + 1
    BY DEF Begins
  <2>3. \A i \in 1 .. Len(ws) : i \in 1 .. Len(more)
    BY DEF Begins
  <2> QED
    BY <1>2, <2>1, <2>2, <2>3 DEF Ended, Begins
<1> QED
  BY <1>1, <1>2

(* So does every character. *)
LEMMA ScanExtends ==
    ASSUME NEW t, NEW ws \in Seq(Line), Extends(t, ws), NEW ch \in Printable
    PROVE  Extends(Scan(t, ch), ws)
<1>1. PICK more \in Seq(Line) :
         /\ Begins(ws, more)
         /\ \/ t = GapState(more)
            \/ \E w \in Line, stop \in {QUOTE, BLANK} : t = InState(more, w, stop)
  BY DEF Extends
<1>2. CASE t = GapState(more)
  <2>1. <<ch>> \in Line /\ <<>> \in Line
    BY EmptySeq DEF Line
  <2>2. Scan(t, ch) = GapState(more) \/ Scan(t, ch) = InState(more, <<>>, QUOTE)
        \/ Scan(t, ch) = InState(more, <<ch>>, BLANK)
    BY <1>2, ScanBlank, ScanQuote, ScanFirst
  <2> QED
    BY <1>1, <2>1, <2>2 DEF Extends
<1>3. ASSUME NEW w \in Line, NEW stop \in {QUOTE, BLANK}, t = InState(more, w, stop)
      PROVE  Extends(Scan(t, ch), ws)
  <2>1. Append(w, ch) \in Line
    BY AppendProperties DEF Line
  <2>2. CASE ch = stop
    <3>1. Scan(t, ch) = GapState(Ended(more, w))
      BY <1>3, <2>2, ScanStop
    <3>2. Ended(more, w) \in Seq(Line) /\ Begins(ws, Ended(more, w))
      BY <1>1, EndedBegins
    <3> QED
      BY <3>1, <3>2 DEF Extends
  <2>3. CASE ch # stop
    <3>1. Scan(t, ch) = InState(more, Append(w, ch), stop)
      BY <1>3, <2>3, ScanInside
    <3> QED
      BY <1>1, <2>1, <3>1 DEF Extends
  <2> QED
    BY <2>2, <2>3
<1> QED
  BY <1>1, <1>2, <1>3

(* The words a scan has at a gap are the first words of the line. *)
LEMMA WordsExtend ==
    ASSUME NEW text \in Line, NEW f, IsScan(f, text), NEW k \in 0 .. Len(text),
           NEW ws \in Seq(Line), f[k] = GapState(ws)
    PROVE  Words(text) \in Seq(Line) /\ Begins(ws, Words(text))
<1> DEFINE n == Len(text)
           Bad == {j \in k .. n : ~Extends(f[j], ws)}
<1>1. /\ n \in Nat /\ (\A j \in 1 .. n : text[j] \in Printable)
      /\ (\A j \in 1 .. n : f[j] = Scan(f[j - 1], text[j])) /\ Words(text) = Closed(f[n])
  BY ElementOfSeq DEF Line, IsScan
<1>2. Extends(f[k], ws)
  BY DEF Extends, Begins
<1>3. Bad = {}
  <2> SUFFICES ASSUME Bad # {} PROVE FALSE
    OBVIOUS
  <2>1. Bad \in SUBSET Nat
    OBVIOUS
  <2>2. PICK j \in Bad : \A i \in Bad : j <= i
    BY <2>1, LeastNatural
  <2>3. j \in k .. n /\ ~Extends(f[j], ws) /\ j # k
    BY <1>2
  <2>4. j \in 1 .. n /\ j - 1 \in k .. n /\ j - 1 \notin Bad
    BY <1>1, <2>2, <2>3
  <2>5. Extends(f[j - 1], ws)
    BY <2>4
  <2> QED
    BY <1>1, <2>3, <2>4, <2>5, ScanExtends
<1>4. Extends(f[n], ws)
  BY <1>1, <1>3
<1>5. PICK more \in Seq(Line) :
         /\ Begins(ws, more)
         /\ \/ f[n] = GapState(more)
            \/ \E w \in Line, stop \in {QUOTE, BLANK} : f[n] = InState(more, w, stop)
  BY <1>4 DEF Extends
<1>6. CASE f[n] = GapState(more)
  BY <1>1, <1>5, <1>6, ClosedStates
<1>7. CASE \E w \in Line, stop \in {QUOTE, BLANK} : f[n] = InState(more, w, stop)
  BY <1>1, <1>5, <1>7, ClosedStates, EndedBegins
<1> QED
  BY <1>5, <1>6, <1>7

-----------------------------------------------------------------------------
(* Pieces of texts. *)

(* Texts that agree between two positions have the same piece there. *)
LEMMA SameSubSeq ==
    ASSUME NEW T, NEW a, NEW b, NEW from \in Int, NEW to \in Int,
           \A k \in from .. to : a[k] = b[k] /\ a[k] \in T
    PROVE  SubSeq(a, from, to) = SubSeq(b, from, to)
<1>1. \A k \in from .. to : a[k] \in T /\ b[k] \in T
  OBVIOUS
<1> DEFINE n == IF from <= to THEN to - from + 1 ELSE 0
<1>2. /\ SubSeq(a, from, to) \in Seq(T) /\ Len(SubSeq(a, from, to)) = n
      /\ \A i \in 1 .. to - from + 1 : SubSeq(a, from, to)[i] = a[from + i - 1]
  BY <1>1, SubSeqProperties
<1>3. /\ SubSeq(b, from, to) \in Seq(T) /\ Len(SubSeq(b, from, to)) = n
      /\ \A i \in 1 .. to - from + 1 : SubSeq(b, from, to)[i] = b[from + i - 1]
  BY <1>1, SubSeqProperties
<1>4. \A i \in 1 .. n : i \in 1 .. to - from + 1 /\ from + i - 1 \in from .. to
  OBVIOUS
<1> HIDE DEF n
<1>5. \A i \in 1 .. n : SubSeq(a, from, to)[i] = SubSeq(b, from, to)[i]
  BY <1>2, <1>3, <1>4
<1>6. /\ Len(SubSeq(a, from, to)) = Len(SubSeq(b, from, to))
      /\ \A i \in 1 .. Len(SubSeq(a, from, to)) : SubSeq(a, from, to)[i] = SubSeq(b, from, to)[i]
  BY <1>2, <1>3, <1>5
<1> QED
  BY <1>2, <1>3, <1>6, SeqEqual

(* A piece that ends one character later is the piece and the character. *)
LEMMA SubSeqGrows ==
    ASSUME NEW T, NEW s \in Seq(T), NEW k \in 1 .. Len(s), NEW from \in 1 .. k
    PROVE  SubSeq(s, from, k) = Append(SubSeq(s, from, k - 1), s[k])
<1> DEFINE a == SubSeq(s, from, k)
           c == SubSeq(s, from, k - 1)
           b == Append(c, s[k])
<1>1. \A j \in from .. k : s[j] \in T
  BY ElementOfSeq
<1>2. /\ from \in Int /\ k \in Int /\ k - 1 \in Int /\ from <= k /\ s[k] \in T
      /\ \A j \in from .. k - 1 : s[j] \in T
  BY <1>1
<1>3. /\ a \in Seq(T) /\ Len(a) = IF from <= k THEN k - from + 1 ELSE 0
      /\ \A i \in 1 .. k - from + 1 : a[i] = s[from + i - 1]
  <2> HIDE DEF a
  <2> QED
    BY <1>1, <1>2, SubSeqProperties DEF a
<1>4. /\ c \in Seq(T) /\ Len(c) = IF from <= k - 1 THEN k - 1 - from + 1 ELSE 0
      /\ \A i \in 1 .. k - 1 - from + 1 : c[i] = s[from + i - 1]
  BY <1>1, <1>2, SubSeqProperties
<1>5. Len(a) = k - from + 1 /\ Len(c) = k - from
  <2> HIDE DEF a, c
  <2> QED
    BY <1>2, <1>3, <1>4
<1> HIDE DEF a, c
<1>6. /\ b \in Seq(T) /\ Len(b) = k - from + 1 /\ b[k - from + 1] = s[k]
      /\ \A i \in 1 .. k - from : b[i] = c[i]
  <2>1. c \in Seq(T) /\ s[k] \in T
    BY <1>2, <1>4
  <2>2. /\ b \in Seq(T) /\ Len(b) = Len(c) + 1 /\ b[Len(c) + 1] = s[k]
        /\ \A i \in 1 .. Len(c) : b[i] = c[i]
    BY <2>1, AppendProperties
  <2> HIDE DEF b
  <2> QED
    BY <1>2, <1>5, <2>2
<1> HIDE DEF b
<1>7. ASSUME NEW i \in 1 .. k - from + 1 PROVE a[i] = b[i]
  <2>1. CASE i = k - from + 1
    <3>1. from + i - 1 = k
      BY <1>2, <2>1
    <3> QED
      BY <1>3, <1>6, <2>1, <3>1
  <2>2. CASE i # k - from + 1
    <3>1. i \in 1 .. k - from /\ i \in 1 .. k - 1 - from + 1
      BY <1>2, <2>2
    <3> QED
      BY <1>3, <1>4, <1>6, <3>1
  <2> QED
    BY <2>1, <2>2
<1>8. Len(a) = Len(b) /\ \A i \in 1 .. Len(a) : a[i] = b[i]
  BY <1>5, <1>6, <1>7
<1>9. a = b
  BY <1>3, <1>6, <1>8, SeqEqual
<1> QED
  BY <1>9 DEF a, b, c

-----------------------------------------------------------------------------
(* The parser's pointers stand for words. *)

(* A text in the buffer goes up to its NUL, *)
LEMMA CStringUpTo ==
    ASSUME NEW buf \in Copy, NEW from \in Nat \ {0}, NEW end \in from .. Len(buf),
           buf[end] = NUL, \A k \in from .. end - 1 : buf[k] # NUL
    PROVE  CString(buf, from) = SubSeq(buf, from, end - 1)
<1> DEFINE S == {k \in from .. Len(buf) : buf[k] = NUL}
<1>1. S \in SUBSET Nat /\ end \in S
  OBVIOUS
<1>2. Min(S) \in S /\ Min(S) <= end
  BY <1>1, MinIsLeast
<1>3. Min(S) = end
  <2>1. Min(S) \in from .. Len(buf) /\ buf[Min(S)] = NUL
    BY <1>2
  <2> HIDE DEF S
  <2> QED
    BY <1>2, <2>1
<1> QED
  BY <1>3 DEF CString

(* so that a NUL written behind it leaves it as it was. *)
LEMMA CStringKept ==
    ASSUME NEW buf \in Copy, NEW n \in Nat, Len(buf) = n, NEW from \in Nat \ {0},
           NEW at \in 1 .. n, NEW e \in from .. at - 1, buf[e] = NUL
    PROVE  CString([buf EXCEPT ![at] = NUL], from) = CString(buf, from)
<1> DEFINE S == {k \in from .. n : buf[k] = NUL}
           end == Min(S)
           buf1 == [buf EXCEPT ![at] = NUL]
<1>1. S \in SUBSET Nat /\ e \in S
  OBVIOUS
<1>2. end \in S /\ \A k \in S : end <= k
  BY <1>1, MinIsLeast
<1>3. end \in from .. n /\ buf[end] = NUL /\ end <= e
  BY <1>1, <1>2
<1>4. \A k \in from .. end - 1 : buf[k] # NUL
  <2> TAKE k \in from .. end - 1
  <2>1. k \in from .. n /\ ~(end <= k)
    BY <1>3
  <2> QED
    BY <1>2, <2>1
<1> HIDE DEF S, end
<1>5. buf1 \in Copy /\ Len(buf1) = n /\ \A k \in 1 .. n : buf1[k] = IF k = at THEN NUL ELSE buf[k]
  <2>1. NUL \in Printable \cup {NUL}
    OBVIOUS
  <2> QED
    BY <2>1, ExceptSeq DEF Copy
<1> HIDE DEF buf1
<1>6. /\ buf1[end] = NUL /\ end \in from .. Len(buf) /\ end \in from .. Len(buf1)
      /\ \A k \in from .. end - 1 : buf1[k] = buf[k] /\ buf1[k] # NUL
                                    /\ buf1[k] \in Printable \cup {NUL}
  <2>1. ASSUME NEW k \in from .. end - 1
        PROVE  buf1[k] = buf[k] /\ buf1[k] \in Printable \cup {NUL}
    <3>1. k \in 1 .. n /\ k # at
      BY <1>3
    <3>2. buf1[k] = buf[k]
      BY <1>5, <3>1
    <3>3. buf1[k] \in Printable \cup {NUL}
      BY <1>5, <3>1, ElementOfSeq DEF Copy
    <3> QED
      BY <3>2, <3>3
  <2>2. end \in 1 .. n /\ end # at
    BY <1>3
  <2> QED
    BY <1>3, <1>4, <1>5, <2>1, <2>2
<1>7. CString(buf, from) = SubSeq(buf, from, end - 1)
  BY <1>3, <1>4, <1>6, CStringUpTo
<1>8. CString(buf1, from) = SubSeq(buf1, from, end - 1)
  BY <1>5, <1>6, CStringUpTo
<1>9. SubSeq(buf1, from, end - 1) = SubSeq(buf, from, end - 1)
  <2>1. from \in Int /\ end - 1 \in Int
    BY <1>3
  <2> QED
    BY <1>6, <2>1, SameSubSeq
<1> QED
  BY <1>7, <1>8, <1>9 DEF buf1

(* From a gap the scan goes over spaces to where SkipSpaces stops. *)
LEMMA SpacesScanned ==
    ASSUME NEW text \in Line, NEW f, IsScan(f, text), NEW ws,
           NEW n \in Nat, n = Len(text) + 1, NEW from \in 1 .. n, f[from - 1] = GapState(ws),
           NEW buf, Len(buf) = n, buf[n] = NUL, \A k \in from .. n - 1 : buf[k] = text[k]
    PROVE  /\ SkipSpaces(buf, from) \in from .. n /\ buf[SkipSpaces(buf, from)] # BLANK
           /\ f[SkipSpaces(buf, from) - 1] = GapState(ws)
<1> DEFINE S == {k \in from .. n : buf[k] # BLANK}
           q == Min(S)
<1>1. S \in SUBSET Nat /\ n \in S
  <2>1. NUL # BLANK
    BY DEF NUL, BLANK
  <2> QED
    BY <2>1
<1>2. q \in S /\ \A k \in S : q <= k
  BY <1>1, MinIsLeast
<1>3. q \in from .. n /\ buf[q] # BLANK
  BY <1>2
<1>4. ASSUME NEW k \in from .. q - 1 PROVE text[k] = BLANK
  <2>1. k \in from .. n - 1 /\ ~(q <= k)
    BY <1>3
  <2>2. k \notin S
    BY <1>2, <2>1
  <2> QED
    BY <2>1, <2>2
<1> HIDE DEF S, q
<1> DEFINE Bad == {k \in from - 1 .. q - 1 : f[k] # GapState(ws)}
<1>5. Bad = {}
  <2> SUFFICES ASSUME Bad # {} PROVE FALSE
    OBVIOUS
  <2>1. Bad \in SUBSET Nat
    BY <1>3
  <2>2. PICK k \in Bad : \A j \in Bad : k <= j
    BY <2>1, LeastNatural
  <2>3. k \in from - 1 .. q - 1 /\ f[k] # GapState(ws) /\ k # from - 1
    OBVIOUS
  <2>4. k \in from .. q - 1 /\ k - 1 \in from - 1 .. q - 1 /\ k - 1 \notin Bad
        /\ k \in 1 .. Len(text)
    BY <1>3, <2>2, <2>3
  <2>5. f[k - 1] = GapState(ws) /\ text[k] = BLANK /\ f[k] = Scan(f[k - 1], text[k])
    BY <1>4, <2>4 DEF IsScan
  <2>6. f[k] = GapState(ws)
    BY <2>5, ScanBlank
  <2> QED
    BY <2>3, <2>6
<1>6. f[q - 1] = GapState(ws)
  BY <1>3, <1>5
<1> QED
  BY <1>3, <1>6 DEF SkipSpaces, S, q

(* Over a word it collects the characters up to the one that ends it. *)
LEMMA WordScanned ==
    ASSUME NEW text \in Line, NEW f, IsScan(f, text), NEW ws,
           NEW pos \in 1 .. Len(text), f[pos - 1] = GapState(ws),
           NEW first, NEW stop \in {QUOTE, BLANK},
           \/ text[pos] = QUOTE /\ stop = QUOTE /\ first = pos + 1
           \/ text[pos] \notin {QUOTE, BLANK} /\ stop = BLANK /\ first = pos,
           NEW end \in pos + 1 .. Len(text) + 1, \A k \in first .. end - 1 : text[k] # stop
    PROVE  f[end - 1] = InState(ws, SubSeq(text, first, end - 1), stop)
<1> DEFINE Bad == {k \in pos .. end - 1 : f[k] # InState(ws, SubSeq(text, first, k), stop)}
<1>1. /\ text \in Seq(Printable) /\ Len(text) \in Nat
      /\ \A k \in 1 .. Len(text) : f[k] = Scan(f[k - 1], text[k])
  BY DEF Line, IsScan
<1>2. f[pos] = Scan(GapState(ws), text[pos])
  BY <1>1
<1>3. f[pos] = InState(ws, SubSeq(text, first, pos), stop)
  <2>1. CASE text[pos] = QUOTE /\ stop = QUOTE /\ first = pos + 1
    <3>1. SubSeq(text, first, pos) = <<>>
      BY <2>1, SubSeqEmpty
    <3> QED
      BY <1>2, <2>1, <3>1, ScanQuote
  <2>2. CASE text[pos] \notin {QUOTE, BLANK} /\ stop = BLANK /\ first = pos
    <3>1. SubSeq(text, first, pos - 1) = <<>>
      BY <2>2, SubSeqEmpty
    <3>2. SubSeq(text, first, pos) = Append(<<>>, text[pos])
      <4>1. first \in 1 .. pos
        BY <2>2
      <4> QED
        BY <1>1, <3>1, <4>1, SubSeqGrows
    <3>3. SubSeq(text, first, pos) = <<text[pos]>>
      BY <3>2
    <3> QED
      BY <1>2, <2>2, <3>3, ScanFirst
  <2> QED
    BY <2>1, <2>2
<1>4. Bad = {}
  <2> SUFFICES ASSUME Bad # {} PROVE FALSE
    OBVIOUS
  <2>1. Bad \in SUBSET Nat
    OBVIOUS
  <2>2. PICK k \in Bad : \A j \in Bad : k <= j
    BY <2>1, LeastNatural
  <2>3. k \in pos .. end - 1 /\ f[k] # InState(ws, SubSeq(text, first, k), stop) /\ k # pos
    BY <1>3
  <2>4. /\ k - 1 \in pos .. end - 1 /\ k - 1 \notin Bad /\ k \in 1 .. Len(text)
        /\ first \in 1 .. k /\ k \in first .. end - 1
    BY <1>1, <2>2, <2>3
  <2>5. f[k - 1] = InState(ws, SubSeq(text, first, k - 1), stop)
    BY <2>4
  <2>6. f[k] = InState(ws, Append(SubSeq(text, first, k - 1), text[k]), stop)
    BY <1>1, <2>4, <2>5, ScanInside
  <2>7. SubSeq(text, first, k) = Append(SubSeq(text, first, k - 1), text[k])
    BY <1>1, <2>4, SubSeqGrows
  <2> QED
    BY <2>3, <2>6, <2>7
<1>5. end - 1 \in pos .. end - 1
  OBVIOUS
<1> QED
  BY <1>4, <1>5

(* What pointers into a buffer stand for. *)
Args(buf, args) == [k \in DOMAIN args |-> CString(buf, args[k])]

(* They are texts without NULs, one for each pointer. *)
LEMMA ArgsAreLines ==
    ASSUME NEW buf \in Copy, NEW n \in Nat, Len(buf) = n, buf[n] = NUL, NEW args \in Seq(1 .. n)
    PROVE  Args(buf, args) \in Seq(Line) /\ Len(Args(buf, args)) = Len(args)
<1>1. \A k \in 1 .. Len(args) : CString(buf, args[k]) \in Line
  <2> TAKE k \in 1 .. Len(args)
  <2>1. args[k] \in 1 .. n
    BY ElementOfSeq
  <2> QED
    BY <2>1, CStringIsText
<1>2. Args(buf, args) \in [1 .. Len(args) -> Line]
  BY <1>1 DEF Args
<1> QED
  BY <1>2

(* What Append returns. *)
LEMMA AppendIs ==
    ASSUME NEW T, NEW s \in Seq(T), NEW m \in Nat, Len(s) = m, NEW e \in T
    PROVE  [k \in 1 .. m + 1 |-> IF k = m + 1 THEN e ELSE s[k]] = Append(s, e)
<1> DEFINE f == [k \in 1 .. m + 1 |-> IF k = m + 1 THEN e ELSE s[k]]
           g == Append(s, e)
<1>1. /\ g \in Seq(T) /\ Len(g) = m + 1 /\ g[m + 1] = e
      /\ \A k \in 1 .. m : g[k] = s[k]
  BY AppendProperties
<1>2. f \in [1 .. m + 1 -> T]
  <2>1. \A k \in 1 .. m + 1 : k # m + 1 => s[k] \in T
    BY ElementOfSeq
  <2> QED
    BY <2>1
<1> HIDE DEF g
<1>3. \A k \in 1 .. m + 1 : f[k] = g[k]
  <2> TAKE k \in 1 .. m + 1
  <2>1. k = m + 1 \/ k \in 1 .. m
    OBVIOUS
  <2> QED
    BY <1>1, <2>1
<1> HIDE DEF f
<1>4. f \in Seq(T) /\ Len(f) = m + 1
  BY <1>2
<1>5. f = g
  BY <1>1, <1>3, <1>4, SeqEqual
<1> QED
  BY <1>5 DEF f, g

(* The texts of all pointers end by some place. *)
EndBy(buf, args, last) == \A k \in 1 .. Len(args) : \E e \in args[k] .. last : buf[e] = NUL
(* What an iteration makes of parse_buffer and argv. *)
NulAt(buf, end) == [buf EXCEPT ![end] = NUL]
Grown(args, first, end) == IF first = end THEN args ELSE Append(args, first)
NulFree(buf, from, to) == \A k \in from .. to : buf[k] # NUL

(* A pointer to one more word; the old ones' texts end before it. *)
LEMMA ArgsGrow ==
    ASSUME NEW buf \in Copy, NEW n \in Nat, Len(buf) = n, buf[n] = NUL, NEW args \in Seq(1 .. n),
           NEW pos \in 1 .. n, NEW first \in pos .. n, NEW end \in first .. n,
           EndBy(buf, args, pos - 1), NulFree(buf, first, end - 1)
    PROVE  /\ Args(NulAt(buf, end), Grown(args, first, end))
                = Ended(Args(buf, args), SubSeq(buf, first, end - 1))
           /\ EndBy(NulAt(buf, end), Grown(args, first, end), end)
<1> DEFINE buf1 == NulAt(buf, end)
           args1 == Grown(args, first, end)
           m == Len(args)
           old == Args(buf, args)
           word == SubSeq(buf, first, end - 1)
<1>1. /\ m \in Nat /\ DOMAIN args = 1 .. m /\ old \in Seq(Line) /\ Len(old) = m
      /\ \A k \in 1 .. m : args[k] \in 1 .. n /\ old[k] = CString(buf, args[k])
  <2>1. old \in Seq(Line) /\ Len(old) = m
    BY ArgsAreLines
  <2>2. \A k \in 1 .. m : args[k] \in 1 .. n
    BY ElementOfSeq
  <2>3. m \in Nat /\ DOMAIN args = 1 .. m
    OBVIOUS
  <2>4. \A k \in 1 .. m : old[k] = CString(buf, args[k])
    BY <2>3 DEF Args
  <2> QED
    BY <2>1, <2>2, <2>3, <2>4
<1>2. buf1 \in Copy /\ Len(buf1) = n /\ \A k \in 1 .. n : buf1[k] = IF k = end THEN NUL ELSE buf[k]
  <2>1. NUL \in Printable \cup {NUL} /\ end \in 1 .. Len(buf)
    OBVIOUS
  <2> QED
    BY <2>1, ExceptSeq DEF Copy, NulAt
<1>3. ASSUME NEW k \in 1 .. m
      PROVE  /\ CString(buf1, args[k]) = old[k]
             /\ \E e \in args[k] .. end : buf1[e] = NUL
  <2>1. args[k] \in Nat \ {0}
    BY <1>1
  <2>2. PICK e \in args[k] .. pos - 1 : buf[e] = NUL
    BY DEF EndBy
  <2>3. e \in args[k] .. end - 1 /\ end \in 1 .. n /\ e \in 1 .. n /\ e # end
        /\ e \in args[k] .. end
    BY <2>1, <2>2
  <2>4. CString(buf1, args[k]) = CString(buf, args[k])
    <3> DEFINE from == args[k]
    <3>1. from \in Nat \ {0} /\ e \in from .. end - 1 /\ end \in 1 .. n
      BY <2>1, <2>3
    <3> HIDE DEF from
    <3>2. CString([buf EXCEPT ![end] = NUL], from) = CString(buf, from)
      BY <2>2, <3>1, CStringKept
    <3> QED
      BY <3>2 DEF from, NulAt
  <2>5. buf1[e] = NUL
    BY <1>2, <2>2, <2>3
  <2> QED
    BY <1>1, <2>3, <2>4, <2>5
<1>4. buf1[end] = NUL /\ end \in first .. Len(buf1) /\ first \in Nat \ {0}
  <2>1. end \in 1 .. n /\ first \in Nat \ {0}
    OBVIOUS
  <2> QED
    BY <1>2, <2>1
<1>5. \A k \in first .. end - 1 :
         buf1[k] = buf[k] /\ buf1[k] # NUL /\ buf1[k] \in Printable \cup {NUL}
  <2> TAKE k \in first .. end - 1
  <2>1. k \in 1 .. n /\ k # end
    OBVIOUS
  <2>2. buf1[k] = buf[k]
    BY <1>2, <2>1
  <2>3. buf1[k] \in Printable \cup {NUL}
    BY <1>2, <2>1, ElementOfSeq DEF Copy
  <2> QED
    BY <2>2, <2>3 DEF NulFree
<1>6. CString(buf1, first) = word
  <2>1. CString(buf1, first) = SubSeq(buf1, first, end - 1)
    <3>1. \A k \in first .. end - 1 : buf1[k] # NUL
      BY <1>5
    <3> HIDE DEF buf1
    <3> QED
      BY <1>2, <1>4, <3>1, CStringUpTo
  <2>2. SubSeq(buf1, first, end - 1) = SubSeq(buf, first, end - 1)
    <3>1. first \in Int /\ end - 1 \in Int
      OBVIOUS
    <3> QED
      BY <1>5, <3>1, SameSubSeq
  <2> QED
    BY <2>1, <2>2
<1>7. word = <<>> <=> first = end
  <2>1. \A k \in first .. end - 1 : buf[k] \in Printable \cup {NUL}
    BY <1>5
  <2>2. first \in Int /\ end - 1 \in Int
    OBVIOUS
  <2>3. /\ word \in Seq(Printable \cup {NUL})
        /\ Len(word) = IF first <= end - 1 THEN end - 1 - first + 1 ELSE 0
    <3> HIDE DEF word
    <3> QED
      BY <2>1, <2>2, SubSeqProperties DEF word
  <2>4. Len(word) = 0 <=> first = end
    <3> HIDE DEF word
    <3> QED
      BY <2>3
  <2> HIDE DEF word
  <2> QED
    BY <2>3, <2>4, EmptySeq
<1>10. args1 = IF first = end THEN args ELSE Append(args, first)
  BY DEF Grown
<1> HIDE DEF buf1, old, word, m, args1
<1>8. CASE first = end
  <2>1. args1 = args /\ Ended(old, word) = old
    BY <1>7, <1>8, <1>10 DEF Ended
  <2>2. Args(buf1, args) = [k \in 1 .. m |-> old[k]]
    BY <1>1, <1>3 DEF Args
  <2>3. [k \in 1 .. m |-> old[k]] = old
    BY <1>1
  <2>4. \A k \in 1 .. Len(args1) : \E e \in args1[k] .. end : buf1[e] = NUL
    BY <1>3, <2>1 DEF m
  <2> QED
    BY <2>1, <2>2, <2>3, <2>4 DEF buf1, old, word, args1, EndBy
<1>9. CASE first # end
  <2>1. args1 = Append(args, first) /\ Ended(old, word) = Append(old, word)
    BY <1>7, <1>9, <1>10 DEF Ended
  <2>2. /\ Len(args1) = m + 1 /\ DOMAIN args1 = 1 .. m + 1 /\ args1[m + 1] = first
        /\ \A k \in 1 .. m : args1[k] = args[k]
    <3>1. first \in 1 .. n
      OBVIOUS
    <3> QED
      BY <2>1, <3>1, AppendProperties DEF m
  <2>3. ASSUME NEW k \in 1 .. m + 1
        PROVE  /\ CString(buf1, args1[k]) = IF k = m + 1 THEN word ELSE old[k]
               /\ \E e \in args1[k] .. end : buf1[e] = NUL
    <3>1. CASE k = m + 1
      <4>1. end \in first .. end
        OBVIOUS
      <4> QED
        BY <1>4, <1>6, <2>2, <3>1, <4>1
    <3>2. CASE k # m + 1
      <4>1. k \in 1 .. m
        BY <1>1, <3>2
      <4> QED
        BY <1>3, <2>2, <3>2, <4>1
    <3> QED
      BY <3>1, <3>2
  <2> DEFINE new == Args(buf1, args1)
  <2>4. new = [k \in 1 .. m + 1 |-> IF k = m + 1 THEN word ELSE old[k]]
    BY <2>2, <2>3 DEF Args
  <2> HIDE DEF new
  <2>5. new = Append(old, word)
    <3>1. old \in Seq(Line) /\ Len(old) = m /\ m \in Nat
      BY <1>1
    <3>2. word \in Line
      <4>1. buf1[n] = NUL
        BY <1>2
      <4>2. first \in 1 .. n
        OBVIOUS
      <4> QED
        BY <1>2, <1>6, <4>1, <4>2, CStringIsText
    <3> QED
      BY <2>4, <3>1, <3>2, AppendIs
  <2>6. \A k \in 1 .. Len(args1) : \E e \in args1[k] .. end : buf1[e] = NUL
    BY <2>2, <2>3
  <2> QED
    BY <2>1, <2>5, <2>6 DEF new, buf1, old, word, args1, EndBy
<1> QED
  BY <1>8, <1>9

(* Between two arguments: what is still to be parsed is as it was copied,    *)
(* the scan of the line stands in a gap, and what was parsed is in argv,     *)
(* each word ended by a NUL.                                                 *)
Buffer(text, buf, args) ==
    LET n == Len(text) + 1 IN
    buf \in Copy /\ Len(buf) = n /\ buf[n] = NUL /\ args \in Seq(1 .. n)
AtGap(text, buf, from, args) ==
    /\ \A k \in from .. Len(text) : buf[k] = text[k]
    /\ \A f : IsScan(f, text) => f[from - 1] = GapState(Args(buf, args))
    /\ EndBy(buf, args, from - 1)

(* Where the outer loop stands: in a gap, before a character that is no      *)
(* space, or at the end, with all words in argv.                             *)
ParsedTo(text, buf, pos, args) ==
    /\ Buffer(text, buf, args) /\ pos \in 1 .. Len(text) + 1 /\ buf[pos] # BLANK
    /\ pos = Len(text) + 1 => Words(text) = Args(buf, args)
    /\ pos < Len(text) + 1 => AtGap(text, buf, pos, args)

(* SkipSpaces takes it there. *)
LEMMA SkippedTo ==
    ASSUME NEW text \in Line, NEW buf, NEW args, Buffer(text, buf, args),
           NEW from \in 1 .. Len(text) + 1, AtGap(text, buf, from, args)
    PROVE  ParsedTo(text, buf, SkipSpaces(buf, from), args)
<1> DEFINE q == SkipSpaces(buf, from)
           ws == Args(buf, args)
           n == Len(text) + 1
<1>0. n \in Nat /\ n = Len(text) + 1 /\ n - 1 = Len(text) /\ from \in 1 .. n
  BY DEF Line
<1>1. ASSUME NEW f, IsScan(f, text)
      PROVE  q \in from .. n /\ buf[q] # BLANK /\ f[q - 1] = GapState(ws)
  <2>1. f[from - 1] = GapState(ws) /\ Len(buf) = n /\ buf[n] = NUL
    BY <1>1 DEF AtGap, Buffer
  <2>2. \A k \in from .. n - 1 : buf[k] = text[k]
    BY <1>0 DEF AtGap
  <2> HIDE DEF ws, n
  <2> QED
    BY <1>0, <1>1, <2>1, <2>2, SpacesScanned
<1>2. q \in from .. n /\ buf[q] # BLANK
  BY <1>1, ScanExists
<1> HIDE DEF q
<1>3. ASSUME q = n PROVE Words(text) = ws
  <2>1. PICK f : IsScan(f, text)
    BY ScanExists
  <2>2. f[n - 1] = GapState(ws)
    BY <1>1, <1>3, <2>1
  <2>3. Words(text) = Closed(f[Len(text)])
    BY <2>1 DEF IsScan
  <2> HIDE DEF ws, n
  <2> QED
    BY <1>0, <2>2, <2>3, ClosedStates
<1>4. AtGap(text, buf, q, args)
  <2>1. \A k \in q .. Len(text) : buf[k] = text[k]
    BY <1>0, <1>2 DEF AtGap
  <2>2. ASSUME NEW k \in 1 .. Len(args) PROVE \E e \in args[k] .. q - 1 : buf[e] = NUL
    <3>1. PICK e \in args[k] .. from - 1 : buf[e] = NUL
      BY DEF AtGap, EndBy
    <3>2. args[k] \in 1 .. n
      BY ElementOfSeq DEF Buffer
    <3>3. e \in args[k] .. q - 1
      BY <1>0, <1>2, <3>1, <3>2
    <3> QED
      BY <3>1, <3>3
  <2> QED
    BY <1>1, <2>1, <2>2 DEF AtGap, EndBy
<1>5. ParsedTo(text, buf, q, args)
  <2>1. q \in 1 .. Len(text) + 1
    BY <1>0, <1>2
  <2> QED
    BY <1>2, <1>3, <1>4, <2>1 DEF ParsedTo
<1> QED
  BY <1>5 DEF q

(* An argument begins behind its quote, or where p stands, and goes up to    *)
(* the quote or space that ends it, or to the NUL.                           *)
Cut(buf, n, pos, first, stop, end) ==
    /\ \/ buf[pos] = QUOTE /\ stop = QUOTE /\ first = pos + 1
       \/ buf[pos] # QUOTE /\ stop = BLANK /\ first = pos
    /\ end \in first .. n /\ buf[end] \in {NUL, stop}
    /\ \A k \in first .. end - 1 : buf[k] \notin {NUL, stop}

(* It lies in the part of the line that is still as typed. *)
LEMMA CutInLine ==
    ASSUME NEW text \in Line, NEW buf, NEW args, NEW pos, ParsedTo(text, buf, pos, args),
           buf[pos] # NUL, NEW first, NEW stop, NEW end,
           Cut(buf, Len(text) + 1, pos, first, stop, end)
    PROVE  /\ pos \in 1 .. Len(text) /\ AtGap(text, buf, pos, args) /\ stop \in {QUOTE, BLANK}
           /\ first \in pos .. Len(text) + 1 /\ end \in pos + 1 .. Len(text) + 1
           /\ end \in first .. Len(text) + 1
           /\ \A k \in pos .. Len(text) : buf[k] = text[k] /\ buf[k] \in Printable /\ buf[k] # NUL
           /\ \A k \in first .. end - 1 : k \in pos .. Len(text) /\ text[k] # stop
<1>1. /\ Len(text) \in Nat /\ pos \in 1 .. Len(text) + 1 /\ buf[Len(text) + 1] = NUL
      /\ buf[pos] # BLANK
  BY DEF ParsedTo, Buffer, Line
<1>2. pos \in 1 .. Len(text) /\ AtGap(text, buf, pos, args)
  BY <1>1 DEF ParsedTo
<1>3. \A k \in 1 .. Len(text) : text[k] \in Printable /\ text[k] # NUL
  BY ElementOfSeq, ShellAssumption DEF Line
<1>4. \A k \in pos .. Len(text) : buf[k] = text[k] /\ buf[k] \in Printable /\ buf[k] # NUL
  <2>1. \A k \in pos .. Len(text) : k \in 1 .. Len(text)
    BY <1>2
  <2> QED
    BY <1>2, <1>3, <2>1 DEF AtGap
<1>5. /\ stop \in {QUOTE, BLANK} /\ first \in pos .. Len(text) + 1 /\ end \in first .. Len(text) + 1
      /\ first = pos \/ first = pos + 1
  BY <1>1, <1>2 DEF Cut
<1>6. end # pos
  <2> SUFFICES ASSUME end = pos PROVE FALSE
    OBVIOUS
  <2>1. first = pos /\ stop = BLANK
    BY <1>2, <1>5 DEF Cut
  <2>2. buf[pos] \in {NUL, BLANK}
    BY <2>1 DEF Cut
  <2> QED
    BY <1>1, <2>2
<1>7. end \in pos + 1 .. Len(text) + 1
  BY <1>2, <1>5, <1>6
<1>8. ASSUME NEW k \in first .. end - 1 PROVE k \in pos .. Len(text) /\ text[k] # stop
  <2>1. k \in pos .. Len(text)
    BY <1>2, <1>5
  <2>2. buf[k] # stop
    BY DEF Cut
  <2> QED
    BY <1>4, <2>1, <2>2
<1> QED
  BY <1>2, <1>4, <1>5, <1>7, <1>8

(* The scan has collected it. *)
LEMMA CutScanned ==
    ASSUME NEW text \in Line, NEW buf, NEW args, NEW pos, ParsedTo(text, buf, pos, args),
           buf[pos] # NUL, NEW first, NEW stop, NEW end,
           Cut(buf, Len(text) + 1, pos, first, stop, end),
           NEW f, IsScan(f, text)
    PROVE  f[end - 1] = InState(Args(buf, args), SubSeq(text, first, end - 1), stop)
<1> DEFINE ws == Args(buf, args)
<1>1. /\ pos \in 1 .. Len(text) /\ AtGap(text, buf, pos, args) /\ stop \in {QUOTE, BLANK}
      /\ end \in pos + 1 .. Len(text) + 1
      /\ \A k \in pos .. Len(text) : buf[k] = text[k]
      /\ \A k \in first .. end - 1 : k \in pos .. Len(text) /\ text[k] # stop
  BY CutInLine
<1>2. f[pos - 1] = GapState(ws)
  BY <1>1 DEF AtGap
<1>3. buf[pos] = text[pos] /\ buf[pos] # BLANK
  <2>1. pos \in pos .. Len(text)
    BY <1>1
  <2> QED
    BY <1>1, <2>1 DEF ParsedTo
<1>4. \/ text[pos] = QUOTE /\ stop = QUOTE /\ first = pos + 1
      \/ text[pos] \notin {QUOTE, BLANK} /\ stop = BLANK /\ first = pos
  BY <1>3 DEF Cut
<1>5. \A k \in first .. end - 1 : text[k] # stop
  BY <1>1
<1> HIDE DEF ws
<1>6. f[end - 1] = InState(ws, SubSeq(text, first, end - 1), stop)
  BY <1>1, <1>2, <1>4, <1>5, WordScanned
<1> QED
  BY <1>6 DEF ws

(* And argv points to it. *)
LEMMA CutPointedTo ==
    ASSUME NEW text \in Line, NEW buf, NEW args, NEW pos, ParsedTo(text, buf, pos, args),
           buf[pos] # NUL, NEW first, NEW stop, NEW end,
           Cut(buf, Len(text) + 1, pos, first, stop, end)
    PROVE  /\ Buffer(text, NulAt(buf, end), Grown(args, first, end))
           /\ \A k \in 1 .. Len(text) + 1 : NulAt(buf, end)[k] = IF k = end THEN NUL ELSE buf[k]
           /\ Args(NulAt(buf, end), Grown(args, first, end))
                 = Ended(Args(buf, args), SubSeq(text, first, end - 1))
           /\ EndBy(NulAt(buf, end), Grown(args, first, end), end)
<1> DEFINE n == Len(text) + 1
           buf1 == NulAt(buf, end)
           args1 == Grown(args, first, end)
<1>1. /\ pos \in 1 .. Len(text) /\ AtGap(text, buf, pos, args)
      /\ first \in pos .. n /\ end \in pos + 1 .. n /\ end \in first .. n
      /\ \A k \in pos .. Len(text) : buf[k] = text[k] /\ buf[k] \in Printable /\ buf[k] # NUL
      /\ \A k \in first .. end - 1 : k \in pos .. Len(text) /\ text[k] # stop
  BY CutInLine
<1>2. buf \in Copy /\ Len(buf) = n /\ buf[n] = NUL /\ args \in Seq(1 .. n) /\ n \in Nat
  BY DEF ParsedTo, Buffer, Line
<1>3. first \in 1 .. n /\ end \in 1 .. n /\ pos \in 1 .. n /\ n \in 1 .. n
  BY <1>1, <1>2
<1>4. args1 \in Seq(1 .. n)
  <2> HIDE DEF n
  <2>1. Append(args, first) \in Seq(1 .. n)
    BY <1>2, <1>3, AppendProperties
  <2> QED
    BY <1>2, <2>1 DEF Grown
<1>5. buf1 \in Copy /\ Len(buf1) = n /\ \A k \in 1 .. n : buf1[k] = IF k = end THEN NUL ELSE buf[k]
  <2>1. NUL \in Printable \cup {NUL} /\ end \in 1 .. Len(buf)
    BY <1>2, <1>3
  <2> QED
    BY <1>2, <2>1, ExceptSeq DEF Copy, NulAt
<1>6. Args(buf1, args1) = Ended(Args(buf, args), SubSeq(buf, first, end - 1))
      /\ EndBy(buf1, args1, end)
  <2>1. EndBy(buf, args, pos - 1)
    BY <1>1 DEF AtGap
  <2>2. NulFree(buf, first, end - 1)
    BY <1>1 DEF NulFree
  <2> HIDE DEF n
  <2> QED
    BY <1>1, <1>2, <1>3, <2>1, <2>2, ArgsGrow
<1>7. SubSeq(buf, first, end - 1) = SubSeq(text, first, end - 1)
  <2>1. \A k \in first .. end - 1 : buf[k] = text[k] /\ buf[k] \in Printable
    BY <1>1
  <2>2. first \in Int /\ end - 1 \in Int
    BY <1>3
  <2> QED
    BY <2>1, <2>2, SameSubSeq
<1>8. buf1[n] = NUL
  BY <1>2, <1>3, <1>5
<1>9. Buffer(text, buf1, args1)
  <2> HIDE DEF buf1, args1
  <2> QED
    BY <1>4, <1>5, <1>8 DEF Buffer
<1> QED
  BY <1>5, <1>6, <1>7, <1>9

(* One argument further. *)
LEMMA ArgumentParsed ==
    ASSUME NEW text \in Line, NEW buf, NEW args, NEW pos, ParsedTo(text, buf, pos, args),
           buf[pos] # NUL, NEW first, NEW stop, NEW end,
           Cut(buf, Len(text) + 1, pos, first, stop, end)
    PROVE  ParsedTo(text, NulAt(buf, end),
                    SkipSpaces(NulAt(buf, end), IF buf[end] = stop THEN end + 1 ELSE end),
                    Grown(args, first, end))
<1> DEFINE ws == Args(buf, args)
           word == SubSeq(text, first, end - 1)
           buf1 == NulAt(buf, end)
           args1 == Grown(args, first, end)
           n == Len(text) + 1
<1>1. /\ pos \in 1 .. Len(text) /\ stop \in {QUOTE, BLANK} /\ n \in Nat /\ n - 1 = Len(text)
      /\ end \in pos + 1 .. n /\ buf[end] \in {NUL, stop} /\ buf[n] = NUL
      /\ \A k \in pos .. Len(text) : buf[k] = text[k] /\ buf[k] # NUL
  <2>1. /\ pos \in 1 .. Len(text) /\ stop \in {QUOTE, BLANK} /\ end \in pos + 1 .. n
        /\ \A k \in pos .. Len(text) : buf[k] = text[k] /\ buf[k] # NUL
    BY CutInLine
  <2> QED
    BY <2>1 DEF Cut, ParsedTo, Buffer, Line
<1>2. /\ Buffer(text, buf1, args1)
      /\ \A k \in 1 .. n : buf1[k] = IF k = end THEN NUL ELSE buf[k]
      /\ Args(buf1, args1) = Ended(ws, word)
      /\ EndBy(buf1, args1, end)
  BY CutPointedTo
<1>3. \A f : IsScan(f, text) => f[end - 1] = InState(ws, word, stop)
  BY CutScanned
<1>4. stop # NUL
  BY <1>1 DEF NUL, QUOTE, BLANK
<1> HIDE DEF ws, word, buf1, args1, n
<1>5. CASE buf[end] = stop
  <2>1. end # n /\ end + 1 \in 1 .. n /\ end \in 1 .. Len(text) /\ text[end] = stop
    <3>1. end # n
      BY <1>1, <1>4, <1>5
    <3>2. end \in pos .. Len(text)
      BY <1>1, <3>1
    <3> QED
      BY <1>1, <1>5, <3>1, <3>2
  <2>2. \A f : IsScan(f, text) => f[(end + 1) - 1] = GapState(Args(buf1, args1))
    <3> SUFFICES ASSUME NEW f, IsScan(f, text) PROVE f[(end + 1) - 1] = GapState(Args(buf1, args1))
      OBVIOUS
    <3>1. f[end] = Scan(f[end - 1], text[end])
      BY <2>1 DEF IsScan
    <3>2. f[end] = GapState(Ended(ws, word))
      BY <1>1, <1>3, <2>1, <3>1, ScanStop
    <3>3. (end + 1) - 1 = end
      BY <1>1
    <3> QED
      BY <1>2, <3>2, <3>3
  <2>3. \A k \in end + 1 .. Len(text) : buf1[k] = text[k]
    <3> TAKE k \in end + 1 .. Len(text)
    <3>1. k \in 1 .. n /\ k \in pos .. Len(text) /\ k # end
      BY <1>1
    <3> QED
      BY <1>1, <1>2, <3>1
  <2>4. EndBy(buf1, args1, (end + 1) - 1)
    <3>1. (end + 1) - 1 = end
      BY <1>1
    <3> QED
      BY <1>2, <3>1
  <2>5. AtGap(text, buf1, end + 1, args1)
    BY <2>2, <2>3, <2>4 DEF AtGap
  <2>6. end + 1 \in 1 .. Len(text) + 1
    BY <2>1 DEF n
  <2>7. ParsedTo(text, buf1, SkipSpaces(buf1, end + 1), args1)
    BY <1>2, <2>5, <2>6, SkippedTo
  <2> QED
    BY <1>5, <2>7 DEF buf1, args1
<1>6. CASE buf[end] # stop
  <2>1. end = n
    <3>1. buf[end] = NUL
      BY <1>1, <1>6
    <3>2. end \notin pos .. Len(text)
      BY <1>1, <3>1
    <3> QED
      BY <1>1, <3>2
  <2>2. buf1[n] = NUL /\ Len(buf1) = n /\ n \in 1 .. n
    BY <1>1, <1>2, <2>1 DEF Buffer, n
  <2>3. SkipSpaces(buf1, n) = n
    <3>1. SkipSpaces(buf1, n) \in n .. n
      BY <1>1, <2>2, SkipSpacesStops
    <3> QED
      BY <1>1, <3>1
  <2>4. Words(text) = Args(buf1, args1)
    <3>1. PICK f : IsScan(f, text)
      BY ScanExists
    <3>2. Words(text) = Closed(f[Len(text)]) /\ f[n - 1] = InState(ws, word, stop)
      BY <1>3, <2>1, <3>1 DEF IsScan
    <3> QED
      BY <1>1, <1>2, <3>2, ClosedStates
  <2>5. buf1[n] # BLANK
    <3>1. NUL # BLANK
      BY DEF NUL, BLANK
    <3> QED
      BY <2>2, <3>1
  <2>6. ParsedTo(text, buf1, n, args1)
    BY <1>1, <1>2, <2>2, <2>4, <2>5 DEF ParsedTo, n
  <2> QED
    BY <1>6, <2>1, <2>3, <2>6 DEF buf1, args1
<1> QED
  BY <1>5, <1>6

-----------------------------------------------------------------------------
(* The parser, step by step. *)

(* In the loop it stands in a gap; then argv's texts are the line's words.   *)
ParserStands ==
    /\ pc = "parse" => ParsedTo(shell_buffer, parse_buffer, p, argv)
    /\ ArgumentsAreWords

(* A line and the NUL behind it. *)
LEMMA CopyIs ==
    ASSUME NEW text \in Line
    PROVE  LET copy == Append(text, NUL) IN
           /\ copy \in Copy /\ Len(copy) = Len(text) + 1 /\ copy[Len(text) + 1] = NUL
           /\ \A k \in 1 .. Len(text) : copy[k] = text[k]
<1>1. text \in Seq(Printable \cup {NUL}) /\ NUL \in Printable \cup {NUL}
  BY SeqMonotonic DEF Line
<1> QED
  BY <1>1, AppendProperties DEF Copy

(* The copy has nothing parsed yet, and its first word is looked for. *)
LEMMA StartParseStands ==
    ASSUME Shape, StartParse
    PROVE  ParserStands'
<1> DEFINE text == shell_buffer
           copy == Append(shell_buffer, NUL)
           q == SkipSpaces(copy, 1)
<1>1. text \in Line /\ UNCHANGED shell_buffer
  BY DEF Shape, EditorState, StartParse
<1>2. CASE pc' = "prompt"
  BY <1>2 DEF ParserStands, ArgumentsAreWords
<1>3. CASE pc' = "parse" /\ parse_buffer' = copy /\ p' = q /\ argv' = <<>>
  <2>1. Buffer(text, copy, <<>>)
    BY <1>1, CopyIs, EmptySeq DEF Buffer
  <2>2. Args(copy, <<>>) = <<>> /\ Len(<<>>) = 0
    BY DEF Args
  <2>3. \A f : IsScan(f, text) => f[1 - 1] = GapState(Args(copy, <<>>))
    BY <2>2 DEF IsScan
  <2>4. AtGap(text, copy, 1, <<>>)
    BY <1>1, <2>2, <2>3, CopyIs DEF AtGap, EndBy
  <2>5. 1 \in 1 .. Len(text) + 1
    BY <1>1 DEF Line
  <2>6. ParsedTo(text, copy, q, <<>>)
    <3> HIDE DEF copy
    <3> QED
      BY <1>1, <2>1, <2>4, <2>5, SkippedTo
  <2>7. ParsedTo(shell_buffer', parse_buffer', p', argv')
    BY <1>1, <1>3, <2>6
  <2> QED
    BY <1>3, <2>7 DEF ParserStands, ArgumentsAreWords
<1> QED
  BY <1>2, <1>3 DEF StartParse

(* An iteration takes the next argument as the scan does. *)
LEMMA NextArgumentStands ==
    ASSUME Shape, ParserStands, NextArgument
    PROVE  ParserStands'
<1> DEFINE text == shell_buffer
           buf == parse_buffer
           n == Len(parse_buffer)
           quoted == parse_buffer[p] = QUOTE
           stop == IF quoted THEN QUOTE ELSE BLANK
           first == IF quoted THEN p + 1 ELSE p
           S == {k \in first .. Len(parse_buffer) : parse_buffer[k] \in {NUL, stop}}
           end == Min(S)
           closed == parse_buffer[end] = stop
<1>1. /\ pc = "parse" /\ buf[p] # NUL
      /\ parse_buffer' = NulAt(buf, end)
      /\ p' = SkipSpaces(parse_buffer', IF closed THEN end + 1 ELSE end)
      /\ argv' = Grown(argv, first, end)
      /\ UNCHANGED <<pc, shell_buffer>>
  BY Zenon DEF NextArgument, NulAt, Grown, Behind, WithArgument
<1>2. /\ text \in Line /\ n \in Nat /\ buf[n] = NUL /\ p \in 1 .. n
      /\ ParsedTo(text, buf, p, argv) /\ n = Len(text) + 1
  BY <1>1 DEF Shape, EditorState, ParserState, Copy, ParserStands, ParsedTo, Buffer
<1>3. first \in 1 .. n
  <2>1. p # n
    BY <1>1, <1>2
  <2> QED
    BY <1>2, <2>1
<1>4. end \in S /\ end \in first .. n /\ \A k \in S : end <= k
  <2>1. S \in SUBSET (first .. n) /\ n \in S
    BY <1>2, <1>3
  <2> HIDE DEF S, first
  <2> QED
    BY <1>2, <1>3, <2>1, FoundBehind
<1>5. \A k \in first .. end - 1 : buf[k] \notin {NUL, stop}
  <2> TAKE k \in first .. end - 1
  <2>1. k \in first .. n /\ ~(end <= k)
    BY <1>2, <1>3, <1>4
  <2>2. k \notin S
    BY <1>4, <2>1
  <2> QED
    BY <2>1, <2>2
<1>6. Cut(buf, n, p, first, stop, end)
  <2>1. \/ buf[p] = QUOTE /\ stop = QUOTE /\ first = p + 1
        \/ buf[p] # QUOTE /\ stop = BLANK /\ first = p
    OBVIOUS
  <2>2. buf[end] \in {NUL, stop}
    BY <1>4
  <2> HIDE DEF end, first, stop
  <2> QED
    BY <1>4, <1>5, <2>1, <2>2 DEF Cut
<1>7. Cut(buf, Len(text) + 1, p, first, stop, end)
  <2> HIDE DEF end, first, stop
  <2> QED
    BY <1>2, <1>6
<1> HIDE DEF S, first, stop, end, quoted, n
<1>8. ParsedTo(text, NulAt(buf, end),
               SkipSpaces(NulAt(buf, end), IF buf[end] = stop THEN end + 1 ELSE end),
               Grown(argv, first, end))
  BY <1>1, <1>2, <1>7, ArgumentParsed
<1>9. ParsedTo(shell_buffer', parse_buffer', p', argv')
  BY <1>1, <1>8
<1> QED
  BY <1>1, <1>9 DEF ParserStands, ArgumentsAreWords

(* Words found so far, when there are no more or no room for more. *)
LEMMA FirstOf ==
    ASSUME NEW words \in Seq(Line), NEW ws \in Seq(Line), Begins(ws, words), NEW m \in Nat,
           Len(ws) <= m, Len(ws) = m \/ ws = words
    PROVE  ws = SubSeq(words, 1, Min({Len(words), m}))
<1> DEFINE k == Min({Len(words), m})
<1>1. Len(words) \in Nat /\ Len(ws) \in Nat /\ Len(ws) <= Len(words)
  BY DEF Begins
<1>2. k = Len(ws)
  <2>1. k = IF Len(words) <= m THEN Len(words) ELSE m
    BY <1>1, MinOfTwo
  <2> QED
    BY <1>1, <2>1
<1>3. \A i \in 1 .. Len(ws) : ws[i] = words[i] /\ ws[i] \in Line
  BY ElementOfSeq DEF Begins
<1>4. SubSeq(ws, 1, Len(ws)) = SubSeq(words, 1, Len(ws))
  BY <1>1, <1>3, SameSubSeq
<1>5. SubSeq(ws, 1, Len(ws)) = ws
  OBVIOUS
<1> QED
  BY <1>2, <1>4, <1>5

(* What the parser has at any point is a beginning of the line's words. *)
LEMMA ParsedBegins ==
    ASSUME NEW text \in Line, NEW buf, NEW args, NEW pos, ParsedTo(text, buf, pos, args)
    PROVE  /\ Words(text) \in Seq(Line) /\ Args(buf, args) \in Seq(Line)
           /\ Len(Args(buf, args)) = Len(args)
           /\ Begins(Args(buf, args), Words(text))
           /\ buf[pos] = NUL => Args(buf, args) = Words(text)
<1> DEFINE ws == Args(buf, args)
           n == Len(text) + 1
<1>1. /\ n \in Nat /\ buf \in Copy /\ Len(buf) = n /\ buf[n] = NUL /\ args \in Seq(1 .. n)
      /\ pos \in 1 .. n /\ Len(text) = n - 1
  BY DEF ParsedTo, Buffer, Line
<1>2. ws \in Seq(Line) /\ Len(ws) = Len(args)
  <2> HIDE DEF n
  <2> QED
    BY <1>1, ArgsAreLines
<1>3. PICK f : IsScan(f, text)
  BY ScanExists
<1>4. Words(text) \in Seq(Line)
  <2>1. f[0] = GapState(<<>>) /\ 0 \in 0 .. Len(text) /\ <<>> \in Seq(Line)
    BY <1>1, <1>3, EmptySeq DEF IsScan
  <2> QED
    BY <1>3, <2>1, WordsExtend
<1>5. CASE pos = n
  <2>1. Words(text) = ws
    BY <1>5 DEF ParsedTo
  <2>2. Begins(ws, ws)
    BY <1>2 DEF Begins
  <2> QED
    BY <1>2, <1>4, <2>1, <2>2
<1>6. CASE pos # n
  <2>1. AtGap(text, buf, pos, args) /\ pos \in 1 .. Len(text)
    BY <1>1, <1>6 DEF ParsedTo
  <2>2. f[pos - 1] = GapState(ws) /\ pos - 1 \in 0 .. Len(text)
    BY <1>1, <1>3, <2>1 DEF AtGap
  <2>3. Begins(ws, Words(text))
    <3> HIDE DEF ws
    <3> QED
      BY <1>2, <1>3, <2>2, WordsExtend
  <2>4. buf[pos] # NUL
    <3>1. buf[pos] = text[pos]
      BY <2>1 DEF AtGap
    <3>2. text[pos] \in Printable
      BY <2>1, ElementOfSeq DEF Line
    <3> QED
      BY <3>1, <3>2, ShellAssumption
  <2> QED
    BY <1>2, <1>4, <2>3, <2>4
<1> QED
  BY <1>5, <1>6

(* The loop ends with all words, or with as many as argv has room for. *)
LEMMA ParseDoneStands ==
    ASSUME Shape, ParserStands, ParseDone
    PROVE  ParserStands'
<1>1. /\ pc = "parse" /\ pc' # "parse" /\ UNCHANGED <<shell_buffer, parse_buffer, p, argv>>
      /\ parse_buffer[p] = NUL \/ Len(argv) >= SHELL_MAX_ARGS
  BY DEF ParseDone, parser
<1>2. ParsedTo(shell_buffer, parse_buffer, p, argv) /\ shell_buffer \in Line
  BY <1>1 DEF ParserStands, Shape, EditorState
<1> DEFINE ws == Args(parse_buffer, argv)
           words == Words(shell_buffer)
<1>3. /\ words \in Seq(Line) /\ ws \in Seq(Line) /\ Len(ws) = Len(argv)
      /\ Begins(ws, words)
      /\ parse_buffer[p] = NUL => ws = words
  BY <1>2, ParsedBegins
<1>4. SHELL_MAX_ARGS \in Nat /\ Len(argv) <= SHELL_MAX_ARGS /\ Len(argv) \in Nat
  BY <1>3, ShellAssumption DEF Shape, ParserState
<1>5. Len(ws) <= SHELL_MAX_ARGS /\ (Len(ws) = SHELL_MAX_ARGS \/ ws = words)
  BY <1>1, <1>3, <1>4
<1>6. Arguments = ws
  BY DEF Arguments, Args
<1>7. Arguments = SubSeq(words, 1, Min({Len(words), SHELL_MAX_ARGS}))
  <2> HIDE DEF ws, words
  <2> QED
    BY <1>3, <1>4, <1>5, <1>6, FirstOf
<1>8. ArgumentsAreWords'
  <2>1. UNCHANGED <<Arguments, Words(shell_buffer)>>
    BY <1>1 DEF Arguments
  <2> QED
    BY <1>7, <2>1 DEF ArgumentsAreWords
<1> QED
  BY <1>1, <1>8 DEF ParserStands

(* In every behaviour the parser stands where the scan does. *)
LEMMA ParserKeepsStanding == Spec => []ParserStands
<1>1. Init => ParserStands
  BY DEF Init, ParserStands, ArgumentsAreWords
<1>2. Shape /\ ParserStands /\ [Next]_vars => ParserStands'
  <2> SUFFICES ASSUME Shape, ParserStands, [Next]_vars PROVE ParserStands'
    OBVIOUS
  <2>1. CASE Parse
    BY <2>1, StartParseStands, NextArgumentStands, ParseDoneStands DEF Parse
  <2>2. CASE pc' \notin {"parse", "execute"}
    BY <2>2 DEF ParserStands, ArgumentsAreWords
  <2>3. CASE UNCHANGED vars
    <3>1. UNCHANGED <<pc, shell_buffer, parse_buffer, p, argv, Arguments>>
      BY <2>3 DEF vars, parser, Arguments
    <3> QED
      BY <3>1 DEF ParserStands, ArgumentsAreWords
  <2>4. Parse \/ pc' \notin {"parse", "execute"} \/ UNCHANGED vars
    <3>1. CASE \E ch \in Printable \cup Ignored \cup {NEWLINE, BACKSPACE} : Key(ch)
      BY <3>1 DEF Key, Enter, Backspace, Character
    <3>2. CASE shell_show_prompt
      BY <3>2 DEF shell_show_prompt
    <3>3. CASE Command
      BY <3>3 DEF Command, NotFound, shell_cmd_help, shell_cmd_clear, shell_cmd_echo,
         shell_show_history, Report, shell_cmd_reboot, shell_cmd_halt
    <3> QED
      BY <3>1, <3>2, <3>3 DEF Next
  <2> QED
    BY <2>1, <2>2, <2>3, <2>4
<1> QED
  BY <1>1, <1>2, ShapeKept, PTL DEF Spec

(* Whenever a command runs, the pointers it gets stand for the first         *)
(* SHELL_MAX_ARGS words of the line, although shell_parse_command writes the *)
(* NULs that end them over the text it has still to parse.                   *)
THEOREM ArgumentsStayWords == Spec => []ArgumentsAreWords
<1>1. ParserStands => ArgumentsAreWords
  BY DEF ParserStands
<1> QED
  BY <1>1, ParserKeepsStanding, PTL

(* The names of shell_commands, one by one. *)
LEMMA NameOf ==
    /\ DOMAIN Names = DOMAIN Commands
    /\ \A k \in DOMAIN Commands : Names[k] = Commands[k].name /\ Names[k] \in Line
<1>1. Names \in Seq(Line)
  BY NamesAreTexts, SeqMonotonic
<1>2. DOMAIN Names = DOMAIN Commands /\ DOMAIN Names = 1 .. Len(Names)
  BY <1>1 DEF Names
<1>3. \A k \in 1 .. Len(Names) : Names[k] \in Line
  BY <1>1, ElementOfSeq
<1> QED
  BY <1>2, <1>3 DEF Names

(* The command shell_execute_command finds with strcmp is the one whose name *)
(* is the first word of the line, and the similar names it offers for an     *)
(* unknown word are those that begin with it.                                *)
THEOREM CommandStaysNamed == Spec => []CommandIsNamed
<1>1. Shape /\ ArgumentsAreWords => CommandIsNamed
  <2> SUFFICES ASSUME Shape, ArgumentsAreWords, pc = "execute"
               PROVE  LET word == Words(shell_buffer)[1] IN
                      /\ \A k \in DOMAIN Commands : k \in Named <=> word = Names[k]
                      /\ Similar = Selected(Names, {name \in Range(Names) : IsPrefix(word, name)})
    BY DEF CommandIsNamed
  <2> DEFINE words == Words(shell_buffer)
             args == Arguments
             m == Min({Len(words), SHELL_MAX_ARGS})
  <2>1. words \in Seq(Line)
    <3>1. shell_buffer \in Line
      BY DEF Shape, EditorState
    <3>2. PICK f : IsScan(f, shell_buffer)
      BY <3>1, ScanExists
    <3>3. f[0] = GapState(<<>>) /\ 0 \in 0 .. Len(shell_buffer) /\ <<>> \in Seq(Line)
      BY <3>1, <3>2, EmptySeq DEF IsScan, Line
    <3> QED
      BY <3>1, <3>2, <3>3, WordsExtend
  <2>2. args \in Seq(Line) /\ Len(args) = Len(argv) /\ argv # <<>> /\ Len(argv) \in Nat
        /\ argv \in Seq(1 .. Len(parse_buffer))
    BY ArgumentsAreTexts DEF Shape, ParserState
  <2>3. args = SubSeq(words, 1, m)
    BY DEF ArgumentsAreWords
  <2> HIDE DEF args, words
  <2>4. Len(args) # 0
    BY <2>2, EmptySeq
  <2>5. Len(words) \in Nat /\ SHELL_MAX_ARGS \in Nat
    BY <2>1, ShellAssumption
  <2>6. m \in 0 .. Len(words)
    BY <2>5, MinOfTwo
  <2>7. Len(args) = m /\ 1 \in 1 .. m
    <3> HIDE DEF m
    <3>1. Len(SubSeq(words, 1, m)) = m
      BY <2>1, <2>6
    <3> QED
      BY <2>3, <2>4, <2>6, <3>1
  <2>8. args[1] = words[1] /\ args[1] \in Line
    <3> HIDE DEF m
    <3>1. SubSeq(words, 1, m)[1] = words[1]
      BY <2>1, <2>5, <2>6, <2>7
    <3> QED
      BY <2>2, <2>3, <2>7, <3>1, ElementOfSeq
  <2>9. ASSUME NEW k \in DOMAIN Commands PROVE k \in Named <=> words[1] = Names[k]
    BY <2>8, NameOf, StrcmpIsEquality DEF Named, args
  <2>10. ASSUME NEW name \in Range(Names)
         PROVE  strncmp(args[1], name, strlen(args[1])) <=> IsPrefix(words[1], name)
    <3>1. name \in Line
      BY NameOf DEF Range
    <3> QED
      BY <2>8, <3>1, StrncmpIsPrefix
  <2>11. {name \in Range(Names) : strncmp(args[1], name, strlen(args[1]))}
            = {name \in Range(Names) : IsPrefix(words[1], name)}
    BY <2>10
  <2>12. Similar = Selected(Names, {name \in Range(Names) : IsPrefix(words[1], name)})
    BY <2>11 DEF Similar, args
  <2> QED
    BY <2>9, <2>12 DEF words
<1> QED
  BY <1>1, ShapeKept, ArgumentsStayWords, PTL
=============================================================================
