--------------------------- MODULE RollbackProofs ---------------------------
(***************************************************************************)
(* What a rollback restores.  However many execute requests are at work on *)
(* the host, whatever their plans and the file are, a rollback all of      *)
(* whose commands were answered gives the keys that nobody else has        *)
(* changed the values they had, unless sed interprets those, and the       *)
(* service what it ran with, unless the plan's first restart failed.       *)
(***************************************************************************)
EXTENDS AgentProofs

-----------------------------------------------------------------------------
(***************************************************************************)
(* What the shell commands do to the values of a key.                      *)
(***************************************************************************)
\* A key has the values of its lines.
LEMMA ValueIn ==
  ASSUME NEW file, NEW key, NEW v
  PROVE  v \in Values(file, key) <=>
           \E i \in DOMAIN file : file[i].key = key /\ file[i].value = v
BY DEF Values, ToSet

\* It has none when it has no line.
LEMMA Valued ==
  ASSUME NEW file, NEW key
  PROVE  Values(file, key) # {} <=> \E i \in DOMAIN file : file[i].key = key
<1>1. ASSUME NEW i \in DOMAIN file, file[i].key = key PROVE Values(file, key) # {}
  <2>1. file[i].value \in Values(file, key)
    BY <1>1, ValueIn
  <2>2. QED
    BY <2>1
<1>2. ASSUME Values(file, key) # {} PROVE \E i \in DOMAIN file : file[i].key = key
  <2>1. PICK v : v \in Values(file, key)
    BY <1>2
  <2>2. QED
    BY <2>1, ValueIn
<1>3. QED
  BY <1>1, <1>2

\* A key whose values differ is set in one of the files.
LEMMA WhatDiffers ==
  ASSUME NEW f, NEW g, NEW key, key # ""
  PROVE  key \in Differs(f, g) <=> Values(f, key) # Values(g, key)
<1>1. ASSUME NEW h, NEW v, v \in Values(h, key) PROVE key \in KeysOf(h)
  <2>1. PICK line \in {l \in ToSet(h) : l.key = key} : v = line.value
    BY <1>1 DEF Values
  <2>2. QED
    BY <2>1 DEF KeysOf
<1>2. Values(f, key) # Values(g, key) =>
        \E v : v \in Values(f, key) \/ v \in Values(g, key)
  OBVIOUS
<1>3. Values(f, key) # Values(g, key) => key \in KeysOf(f) \cup KeysOf(g)
  BY <1>1, <1>2
<1>4. QED
  BY <1>3 DEF Differs

\* sed keeps the key of what it writes, and the value unless it interprets it.
LEMMA ReplacedIs ==
  ASSUME NEW text \in Line, NEW line
  PROVE  /\ Replaced(text, line).key = text.key
         /\ text.value \notin Special => Replaced(text, line).value = text.value
BY DEF Replaced, Line

\* sed replaces the lines of its key, and those only.
LEMMA SedValues ==
  ASSUME NEW file \in Seq(Line), NEW k, NEW line \in Line
  PROVE  /\ \A key : key # k /\ key # line.key =>
              Values(Sed(file, k, line), key) = Values(file, key)
         /\ Values(file, k) = {} => Values(Sed(file, k, line), k) = {}
         /\ line.key = k /\ Values(file, k) # {} =>
              /\ Values(Sed(file, k, line), k) # {}
              /\ line.value \notin Special => Values(Sed(file, k, line), k) = {line.value}
         /\ line.key # k =>
              /\ Values(Sed(file, k, line), k) = {}
              /\ line.value \notin Special =>
                   Values(Sed(file, k, line), line.key) \subseteq
                     Values(file, line.key) \cup {line.value}
              /\ Values(file, line.key) \subseteq Values(Sed(file, k, line), line.key)
<1> DEFINE g == Sed(file, k, line)
           W(v) == \E i \in DOMAIN file : file[i].key = k /\ Replaced(line, file[i]).value = v
<1>1. /\ DOMAIN g = DOMAIN file
      /\ \A i \in DOMAIN file : g[i] = IF file[i].key = k THEN Replaced(line, file[i]) ELSE file[i]
  BY DEF Sed
<1>2. \A i \in DOMAIN file : Replaced(line, file[i]).key = line.key
  BY ReplacedIs
<1> HIDE DEF g
<1>3. ASSUME NEW key, NEW v
      PROVE  v \in Values(g, key) <=>
               \/ key # k /\ v \in Values(file, key)
               \/ key = line.key /\ W(v)
  <2>1. v \in Values(g, key) <=>
          \E i \in DOMAIN file : \/ /\ file[i].key # k
                                    /\ file[i].key = key /\ file[i].value = v
                                 \/ /\ file[i].key = k
                                    /\ line.key = key /\ Replaced(line, file[i]).value = v
    BY <1>1, <1>2, ValueIn
  <2>2. QED
    BY <2>1, ValueIn
<1>4. /\ Values(file, k) = {} => \A v : ~W(v)
      /\ Values(file, k) # {} => \E v : W(v)
      /\ Values(file, k) # {} /\ line.value \notin Special => \A v : W(v) <=> v = line.value
      /\ line.value \notin Special => \A v : W(v) => v = line.value
  <2>1. Values(file, k) # {} <=> \E i \in DOMAIN file : file[i].key = k
    BY Valued
  <2>2. line.value \notin Special =>
          \A i \in DOMAIN file : Replaced(line, file[i]).value = line.value
    BY ReplacedIs
  <2>3. QED
    BY <2>1, <2>2
<1> HIDE DEF W
<1>5. \A key : key # k /\ key # line.key => Values(g, key) = Values(file, key)
  BY <1>3
<1>6. Values(file, k) = {} => Values(g, k) = {}
  BY <1>3, <1>4
<1>7. ASSUME line.key = k, Values(file, k) # {}
      PROVE  /\ Values(g, k) # {}
             /\ line.value \notin Special => Values(g, k) = {line.value}
  <2>1. \A v : v \in Values(g, k) <=> W(v)
    BY <1>3, <1>7
  <2>2. Values(g, k) # {}
    BY <1>4, <1>7, <2>1
  <2>3. line.value \notin Special => \A v : v \in Values(g, k) <=> v = line.value
    BY <1>4, <1>7, <2>1
  <2>4. QED
    BY <2>2, <2>3
<1>8. line.key # k => /\ Values(g, k) = {}
                      /\ line.value \notin Special =>
                           Values(g, line.key) \subseteq Values(file, line.key) \cup {line.value}
                      /\ Values(file, line.key) \subseteq Values(g, line.key)
  BY <1>3, <1>4
<1>9. QED
  BY <1>5, <1>6, <1>7, <1>8 DEF g

\* Appending adds a value.
LEMMA AppendValues ==
  ASSUME NEW file \in Seq(Line), NEW line
  PROVE  \A key : Values(Append(file, line), key) =
           IF key = line.key THEN Values(file, key) \cup {line.value} ELSE Values(file, key)
<1> DEFINE g == Append(file, line)
<1>1. /\ DOMAIN g = 1 .. Len(file) + 1 /\ DOMAIN file = 1 .. Len(file) /\ Len(file) \in Nat
      /\ \A i \in DOMAIN file : g[i] = file[i]
      /\ g[Len(file) + 1] = line
  <2>1. file \in Seq(Line \cup {line}) /\ line \in Line \cup {line}
    BY SeqMonotonic
  <2>2. QED
    BY <2>1, AppendProperties
<1> HIDE DEF g
<1>2. ASSUME NEW key, NEW v
      PROVE  v \in Values(g, key) <=>
               v \in Values(file, key) \/ (key = line.key /\ v = line.value)
  <2>1. \A i : i \in DOMAIN g <=> i \in DOMAIN file \/ i = Len(file) + 1
    BY <1>1
  <2>2. QED
    BY <1>1, <2>1, ValueIn
<1>3. \A key : Values(g, key) =
        IF key = line.key THEN Values(file, key) \cup {line.value} ELSE Values(file, key)
  <2>1. TAKE key
  <2>2. CASE key = line.key
    <3>1. \A v : v \in Values(g, key) <=> v \in Values(file, key) \cup {line.value}
      BY <1>2, <2>2
    <3>2. QED
      BY <2>2, <3>1
  <2>3. CASE key # line.key
    <3>1. \A v : v \in Values(g, key) <=> v \in Values(file, key)
      BY <1>2, <2>3
    <3>2. QED
      BY <2>3, <3>1
  <2>4. QED
    BY <2>2, <2>3
<1>4. QED
  BY <1>3 DEF g

\* EDIT_CONFIG leaves the other keys alone and takes the key from nobody.
LEMMA EditedValues ==
  ASSUME NEW file \in Seq(Line), NEW k, NEW line \in Line, line.key = k
  PROVE  /\ \A key : key # k => Values(Edited(file, k, line), key) = Values(file, key)
         /\ Values(file, k) # {} => Values(Edited(file, k, line), k) # {}
<1>1. CASE Edited(file, k, line) = Sed(file, k, line)
  <2>1. \A key : key # k => Values(Sed(file, k, line), key) = Values(file, key)
    BY SedValues
  <2>2. Values(file, k) # {} => Values(Sed(file, k, line), k) # {}
    BY SedValues
  <2>3. QED
    BY <1>1, <2>1, <2>2
<1>2. CASE Edited(file, k, line) = Append(file, line)
  <2>1. /\ \A key : key # k => Values(Append(file, line), key) = Values(file, key)
        /\ Values(Append(file, line), k) = Values(file, k) \cup {line.value}
    BY AppendValues
  <2>2. QED
    BY <1>2, <2>1
<1>3. QED
  BY <1>1, <1>2 DEF Edited


-----------------------------------------------------------------------------
(***************************************************************************)
(* What there is to go back to.                                            *)
(***************************************************************************)
\* The two files agree about the keys that are not in others.
Same(f, g, others) == \A key : key \notin others => Values(f, key) = Values(g, key)

\* f agrees with g but for keys g does not have, which are UNKNOWN in f, and for
\* keys of T with a value in g that sed interprets, which f has too.
Like(f, g, others, T) ==
  \A key : key \notin others =>
    \/ Values(f, key) = Values(g, key)
    \/ Values(g, key) = {} /\ Values(f, key) = {"UNKNOWN"}
    \/ key \in T /\ Values(g, key) \cap Special # {} /\ Values(f, key) # {}

\* The command to undo an edit, of a key in T, remembers what the file f says
\* of the key: its value, that there is none, or that there is none but one of
\* a longer key.
Faithful(c, f, T) ==
  /\ c.do \in {"sed", "restart"}
  /\ c.do = "sed" /\ Replacement(c.text) =>
       /\ c.text \in Line /\ {c.key, c.text.key} \subseteq T
       /\ \/ c.text.key = c.key /\ Values(f, c.key) = {c.text.value}
          \/ c.text = Setting(c.key, "UNKNOWN") /\ Values(f, c.key) = {}
          \/ /\ c.text.key # c.key /\ Values(f, c.key) = {}
             /\ c.text.value \in Values(f, c.text.key)

\* From f to g only the key has changed that c undoes, and it is still there.
Follows(c, f, g, others) ==
  \A key : key \notin others =>
    /\ c.do # "sed" \/ key # c.key => Values(g, key) = Values(f, key)
    /\ Values(f, key) # {} => Values(g, key) # {}

\* cmds undoes, from its last command to its first, the steps between the
\* files S[0], S[1], ..., S[Len(cmds)].
Undoes(cmds, S, others, T) ==
  \A i \in 1 .. Len(cmds) : /\ Faithful(cmds[i], S[i - 1], T)
                            /\ Follows(cmds[i], S[i - 1], S[i], others)

\* cmds leads from the file back to what before says.
Restorable(before, cmds, file, others, T) ==
  \E S \in [Nat -> Seq(Line)] :
    /\ Same(S[0], before, others)
    /\ Undoes(cmds, S, others, T)
    /\ Same(file, S[Len(cmds)], others)

\* The same of a file that is being restored.
Restoring(before, cmds, file, others, T) ==
  \E S \in [Nat -> Seq(Line)] :
    /\ Same(S[0], before, others)
    /\ Undoes(cmds, S, others, T)
    /\ Like(file, S[Len(cmds)], others, T)

\* Nothing done, nothing to undo.
LEMMA RestorableAtFirst ==
  ASSUME NEW file \in Seq(Line), NEW others, NEW T
  PROVE  Restorable(file, << >>, file, others, T)
<1> DEFINE S == [n \in Nat |-> file]
<1>1. S \in [Nat -> Seq(Line)] /\ S[0] = file /\ S[Len(<< >>)] = file
  OBVIOUS
<1>2. Undoes(<< >>, S, others, T)
  BY DEF Undoes
<1>3. QED
  BY <1>1, <1>2 DEF Restorable, Same

\* What others do with other keys changes nothing.
LEMMA RestorableStays ==
  ASSUME NEW before, NEW cmds, NEW f, NEW g, NEW O, NEW P, NEW T, O \subseteq P,
         Same(f, g, P)
  PROVE  /\ Restorable(before, cmds, f, O, T) => Restorable(before, cmds, g, P, T)
         /\ Restoring(before, cmds, f, O, T) => Restoring(before, cmds, g, P, T)
<1>1. ASSUME NEW a, NEW b, Same(a, b, O) PROVE Same(a, b, P)
  BY <1>1 DEF Same
<1>2. ASSUME NEW S, Undoes(cmds, S, O, T) PROVE Undoes(cmds, S, P, T)
  BY <1>2 DEF Undoes, Follows
<1>3. ASSUME NEW a, Same(f, a, O) PROVE Same(g, a, P)
  BY <1>3 DEF Same
<1>4. ASSUME NEW a, Like(f, a, O, T) PROVE Like(g, a, P, T)
  BY <1>4 DEF Same, Like
<1>5. QED
  BY <1>1, <1>2, <1>3, <1>4 DEF Restorable, Restoring

\* What is remembered is remembered last.
LEMMA RememberedLast ==
  ASSUME NEW cmds \in Seq(Command), NEW c \in Command
  PROVE  /\ Len(cmds) \in Nat
         /\ Len(Append(cmds, c)) = Len(cmds) + 1
         /\ Append(cmds, c)[Len(cmds) + 1] = c
         /\ \A i \in 1 .. Len(cmds) : Append(cmds, c)[i] = cmds[i]
OBVIOUS

\* An edit or a restart is done and its undo remembered.
LEMMA RestorableMore ==
  ASSUME NEW before, NEW cmds \in Seq(Command), NEW f, NEW O, NEW T,
         Restorable(before, cmds, f, O, T),
         NEW saved \in Seq(Line), Same(f, saved, O),
         NEW g \in Seq(Line), NEW c \in Command,
         Faithful(c, saved, T), Follows(c, f, g, O)
  PROVE  Restorable(before, Append(cmds, c), g, O, T)
<1> DEFINE n == Len(cmds)
           t == Append(cmds, c)
<1>1. PICK S \in [Nat -> Seq(Line)] :
        Same(S[0], before, O) /\ Undoes(cmds, S, O, T) /\ Same(f, S[n], O)
  BY DEF Restorable
<1> DEFINE U == [i \in Nat |-> IF i = n THEN saved ELSE IF i = n + 1 THEN g ELSE S[i]]
<1>2. /\ n \in Nat /\ Len(t) = n + 1 /\ t[n + 1] = c
      /\ \A i \in 1 .. n : t[i] = cmds[i]
  BY RememberedLast, Zenon
<1>n. n \in Nat /\ Len(t) = n + 1
  BY <1>2
<1> HIDE DEF n, t
<1>3. U \in [Nat -> Seq(Line)] /\ U[n] = saved /\ U[n + 1] = g
      /\ \A i \in Nat : i < n => U[i] = S[i]
  <2>1. n \in Nat /\ n + 1 \in Nat /\ n + 1 # n /\ \A i \in Nat : i < n => i # n /\ i # n + 1
    BY <1>2
  <2>2. \A i \in Nat : S[i] \in Seq(Line)
    OBVIOUS
  <2>3. U \in [Nat -> Seq(Line)]
    BY <2>2, Zenon
  <2>4. \A i \in Nat : U[i] = IF i = n THEN saved ELSE IF i = n + 1 THEN g ELSE S[i]
    BY Zenon
  <2> HIDE DEF U
  <2>5. QED
    BY <2>1, <2>3, <2>4, Zenon
<1> HIDE DEF U
<1>4. Same(saved, S[n], O)
  BY <1>1 DEF Same
<1>5. Same(U[0], before, O)
  <2>1. CASE n = 0
    BY <1>1, <1>3, <1>4, <2>1 DEF Same
  <2>2. CASE n # 0
    <3>1. 0 \in Nat /\ 0 < n
      BY <1>2, <2>2
    <3>2. U[0] = S[0]
      BY <1>3, <3>1
    <3>3. QED
      BY <1>1, <3>2
  <2>3. QED
    BY <2>1, <2>2
<1>6. ASSUME NEW i \in 1 .. n PROVE Faithful(t[i], U[i - 1], T) /\ Follows(t[i], U[i - 1], U[i], O)
  <2>1. Faithful(cmds[i], S[i - 1], T) /\ Follows(cmds[i], S[i - 1], S[i], O)
    BY <1>1 DEF Undoes, n
  <2>2. U[i - 1] = S[i - 1] /\ t[i] = cmds[i]
    <3>1. i - 1 \in Nat /\ i - 1 < n
      BY <1>n
    <3>2. QED
      BY <1>2, <1>3, <3>1
  <2>3. Same(U[i], S[i], O)
    <3>1. CASE i = n
      BY <1>3, <1>4, <3>1
    <3>2. CASE i < n
      BY <1>3, <3>2 DEF Same
    <3>3. QED
      BY <1>2, <3>1, <3>2
  <2>4. QED
    BY <2>1, <2>2, <2>3 DEF Same, Follows
<1>7. Follows(c, saved, g, O)
  BY DEF Same, Follows
<1>8. Undoes(t, U, O, T)
  <2>1. \A i \in 1 .. Len(t) : i \in 1 .. n \/ (i = n + 1 /\ i - 1 = n)
    BY <1>n
  <2>2. QED
    BY <1>2, <1>3, <1>6, <1>7, <2>1 DEF Undoes
<1>9. Same(g, U[Len(t)], O)
  BY <1>2, <1>3 DEF Same
<1>10. QED
  BY <1>3, <1>5, <1>8, <1>9 DEF Restorable, t

\* The last command is undone.
LEMMA RestoringLess ==
  ASSUME NEW before, NEW cmds \in Seq(Command), NEW c \in Command, NEW O, NEW T,
         NEW h \in Host,
         Restoring(before, Append(cmds, c), h.file, O, T), Runnable(c)
  PROVE  Restoring(before, cmds, Effect(h, c).file, O, T)
<1> DEFINE n == Len(cmds)
           t == Append(cmds, c)
           f == h.file
           g == Effect(h, c).file
<1>1. PICK S \in [Nat -> Seq(Line)] :
        Same(S[0], before, O) /\ Undoes(t, S, O, T) /\ Like(f, S[Len(t)], O, T)
  BY DEF Restoring
<1>2. /\ n \in Nat /\ Len(t) = n + 1 /\ t[n + 1] = c
      /\ \A i \in 1 .. n : t[i] = cmds[i]
  BY RememberedLast, Zenon
<1>3. f \in Seq(Line)
  BY DEF Host
<1> HIDE DEF n, t
<1>4. Undoes(cmds, S, O, T)
  <2>1. ASSUME NEW i \in 1 .. n
        PROVE  Faithful(cmds[i], S[i - 1], T) /\ Follows(cmds[i], S[i - 1], S[i], O)
    <3>1. i \in 1 .. Len(t) /\ t[i] = cmds[i]
      BY <1>2
    <3>2. QED
      BY <1>1, <3>1 DEF Undoes
  <2>2. QED
    BY <2>1 DEF Undoes, n
<1>5. /\ Faithful(c, S[n], T) /\ Follows(c, S[n], S[n + 1], O) /\ Like(f, S[n + 1], O, T)
  <2>1. n + 1 \in 1 .. Len(t) /\ (n + 1) - 1 = n
    BY <1>2
  <2>2. QED
    BY <1>1, <1>2, <2>1 DEF Undoes
<1> DEFINE s == S[n]
           u == S[n + 1]
<1> HIDE DEF f, g, s, u
<1>6. Faithful(c, s, T) /\ Follows(c, s, u, O) /\ Like(f, u, O, T)
  BY <1>5 DEF s, u
<1>7. Like(g, s, O, T)
  <2>1. CASE c.do = "restart"
    <3>1. g = f
      BY <2>1 DEF Effect, Host, g, f
    <3>2. QED
      BY <1>6, <2>1, <3>1 DEF Like, Follows
  <2>2. CASE c.do = "sed"
    <3> DEFINE k    == c.key
               text == c.text
               Ok(key) == \/ Values(g, key) = Values(s, key)
                          \/ Values(s, key) = {} /\ Values(g, key) = {"UNKNOWN"}
                          \/ key \in T /\ Values(s, key) \cap Special # {} /\ Values(g, key) # {}
    <3>1. g = Sed(f, k, text) /\ Replacement(text)
      BY <2>2 DEF Effect, Runnable, Host, g, f
    <3>2. text \in Line
      BY DEF Command
    <3>3. /\ k \in T /\ text.key \in T
          /\ \/ text.key = k /\ Values(s, k) = {text.value}
             \/ text.key = k /\ text.value = "UNKNOWN" /\ Values(s, k) = {}
             \/ /\ text.key # k /\ Values(s, k) = {}
                /\ text.value \in Values(s, text.key)
      <4>1. Setting(k, "UNKNOWN").key = k /\ Setting(k, "UNKNOWN").value = "UNKNOWN"
        BY DEF Setting
      <4>2. QED
        BY <1>6, <2>2, <3>1, <4>1 DEF Faithful
    <3>4. ASSUME NEW key, key \notin O
          PROVE  \/ Values(f, key) = Values(u, key)
                 \/ Values(u, key) = {} /\ Values(f, key) = {"UNKNOWN"}
                 \/ key \in T /\ Values(u, key) \cap Special # {} /\ Values(f, key) # {}
      BY <1>6, <3>4 DEF Like
    <3>5. \A key : key \notin O =>
             /\ (key # k => Values(u, key) = Values(s, key))
             /\ (Values(s, key) # {} => Values(u, key) # {})
      BY <1>6 DEF Follows
    <3> HIDE DEF k, text
    <3>6. /\ \A key : key # k /\ key # text.key => Values(g, key) = Values(f, key)
          /\ Values(f, k) = {} => Values(g, k) = {}
          /\ text.key = k /\ Values(f, k) # {} =>
               Values(g, k) # {} /\ (text.value \notin Special => Values(g, k) = {text.value})
          /\ text.key # k =>
               /\ Values(g, k) = {}
               /\ text.value \notin Special =>
                    Values(g, text.key) \subseteq Values(f, text.key) \cup {text.value}
               /\ Values(f, text.key) \subseteq Values(g, text.key)
      <4> DEFINE w == Sed(f, k, text)
      <4>1. /\ \A key : key # k /\ key # text.key => Values(w, key) = Values(f, key)
            /\ Values(f, k) = {} => Values(w, k) = {}
            /\ text.key = k /\ Values(f, k) # {} =>
                 Values(w, k) # {} /\ (text.value \notin Special => Values(w, k) = {text.value})
            /\ text.key # k =>
                 /\ Values(w, k) = {}
                 /\ text.value \notin Special =>
                      Values(w, text.key) \subseteq Values(f, text.key) \cup {text.value}
                 /\ Values(f, text.key) \subseteq Values(w, text.key)
        BY <1>3, <3>2, SedValues, Zenon
      <4>2. g = w
        BY <3>1
      <4> HIDE DEF w
      <4>3. QED
        BY <4>1, <4>2, Zenon
    <3>7. ASSUME NEW key, key \notin O, key # k, key # text.key PROVE Ok(key)
      BY <3>4, <3>5, <3>6, <3>7
    <3>8. ASSUME k \notin O PROVE Ok(k)
      <4>1. CASE text.key = k /\ Values(s, k) = {text.value}
        <5>1. Values(f, k) # {}
          BY <3>4, <3>5, <3>8, <4>1
        <5>2. CASE text.value \notin Special
          BY <3>6, <4>1, <5>1, <5>2
        <5>3. CASE text.value \in Special
          <6>1. Values(s, k) \cap Special # {}
            BY <4>1, <5>3
          <6>2. QED
            BY <3>3, <3>6, <4>1, <5>1, <6>1
        <5>4. QED
          BY <5>2, <5>3
      <4>2. CASE text.key = k /\ text.value = "UNKNOWN" /\ Values(s, k) = {}
        <5>1. "UNKNOWN" \notin Special
          BY TextAssumption
        <5>2. QED
          BY <3>6, <4>2, <5>1
      <4>3. CASE text.key # k /\ Values(s, k) = {}
        BY <3>6, <4>3
      <4>4. QED
        BY <3>3, <4>1, <4>2, <4>3
    <3>9. ASSUME text.key \notin O, text.key # k PROVE Ok(text.key)
      <4> DEFINE l == text.key
      <4>1. text.value \in Values(s, l) /\ l \in T
        BY <3>3, <3>9
      <4>2. Values(u, l) = Values(s, l)
        BY <3>5, <3>9
      <4>3. /\ text.value \notin Special =>
                 Values(g, l) \subseteq Values(f, l) \cup {text.value}
            /\ Values(f, l) \subseteq Values(g, l)
        BY <3>6, <3>9
      <4>4. \/ Values(f, l) = Values(s, l)
            \/ Values(s, l) \cap Special # {} /\ Values(f, l) # {}
        <5>1. \/ Values(f, l) = Values(u, l)
              \/ Values(u, l) = {} /\ Values(f, l) = {"UNKNOWN"}
              \/ l \in T /\ Values(u, l) \cap Special # {} /\ Values(f, l) # {}
          BY <3>4, <3>9
        <5>2. QED
          BY <4>1, <4>2, <5>1
      <4> HIDE DEF l
      <4>5. CASE Values(f, l) = Values(s, l) /\ text.value \notin Special
        <5>1. Values(g, l) = Values(s, l)
          BY <4>1, <4>3, <4>5
        <5>2. QED
          BY <5>1 DEF l
      <4>6. CASE Values(f, l) = Values(s, l) /\ text.value \in Special
        <5>1. Values(s, l) \cap Special # {} /\ Values(g, l) # {}
          BY <4>1, <4>3, <4>6
        <5>2. QED
          BY <4>1, <5>1 DEF l
      <4>7. CASE Values(s, l) \cap Special # {} /\ Values(f, l) # {}
        <5>1. Values(g, l) # {}
          BY <4>3, <4>7
        <5>2. QED
          BY <4>1, <4>7, <5>1 DEF l
      <4>8. QED
        BY <4>4, <4>5, <4>6, <4>7
    <3> HIDE DEF Ok
    <3>10. \A key : key \notin O => Ok(key)
      BY <3>7, <3>8, <3>9
    <3>11. QED
      BY <3>10 DEF Like, Ok
  <2>3. QED
    BY <1>6, <2>1, <2>2 DEF Faithful
<1>8. QED
  BY <1>1, <1>4, <1>7 DEF Restoring, n, g, s

\* What is restorable is as good as being restored.
LEMMA RestoringAtFirst ==
  ASSUME NEW before, NEW cmds, NEW file, NEW O, NEW T, Restorable(before, cmds, file, O, T)
  PROVE  Restoring(before, cmds, file, O, T)
BY DEF Restorable, Restoring, Same, Like

\* The backup remembers what the file says.
LEMMA BackupFaithful ==
  ASSUME NEW file \in Seq(Line), NEW c \in Command, c.do = "sed",
         c.text = Backup(file, c.key), NEW T, c.key \in T,
         \A key \in Keys : <<c.key, key>> \in Longer => key \in T
  PROVE  Faithful(c, file, T)
<1> DEFINE k == c.key
           G == Grep(file, k)
<1>0. c.text \in Line
  BY DEF Command
<1>1. \A i \in DOMAIN file : file[i].key = k => i \in G
  BY DEF Grep
<1>2. CASE G = {}
  <2>1. c.text = Setting(k, "UNKNOWN")
    BY <1>2 DEF Backup
  <2>2. Values(file, k) = {}
    BY <1>1, <1>2, Valued
  <2>3. c.text.key = k
    BY <2>1 DEF Setting
  <2>4. QED
    BY <1>0, <2>1, <2>2, <2>3 DEF Faithful
<1>3. CASE \E i \in DOMAIN file : G = {i}
  <2>1. PICK i \in DOMAIN file : G = {i}
    BY <1>3
  <2>2. (CHOOSE j \in DOMAIN file : G = {j}) = i
    BY <2>1
  <2>3. c.text = file[i]
    BY <2>1, <2>2 DEF Backup
  <2>4. c.text.value \in Values(file, c.text.key)
    BY <2>3, ValueIn
  <2>5. file[i].key = k \/ <<k, file[i].key>> \in Longer
    BY <2>1 DEF Grep
  <2>6. c.text.key \in T
    BY <1>0, <2>3, <2>5 DEF Line
  <2>7. CASE file[i].key = k
    <3>1. \A v : v \in Values(file, k) <=> v = file[i].value
      BY <1>1, <2>1, <2>7, ValueIn
    <3>2. QED
      BY <1>0, <2>3, <2>6, <2>7, <3>1 DEF Faithful
  <2>8. CASE file[i].key # k
    <3>1. Values(file, k) = {}
      BY <1>1, <2>1, <2>8, Valued
    <3>2. QED
      BY <1>0, <2>3, <2>4, <2>6, <2>8, <3>1 DEF Faithful
  <2>9. QED
    BY <2>7, <2>8
<1>4. CASE G # {} /\ ~\E i \in DOMAIN file : G = {i}
  <2>1. c.text = SeveralLines
    BY <1>4 DEF Backup
  <2>2. QED
    BY <2>1 DEF Faithful, Replacement
<1>5. QED
  BY <1>2, <1>3, <1>4

-----------------------------------------------------------------------------
(***************************************************************************)
(* Types.                                                                  *)
(***************************************************************************)
\* Texts are lines.
LEMMA TextType ==
  /\ NoText \in Line /\ SeveralLines \in Line /\ ErrorText \in Line
  /\ \A key \in Keys, value \in Texts : Setting(key, value) \in Line
BY TextAssumption DEF NoText, SeveralLines, ErrorText, Setting, Line

LEMMA BackupType ==
  ASSUME NEW file \in Seq(Line), NEW key \in Keys
  PROVE  Backup(file, key) \in Line
<1>1. CASE \E i \in DOMAIN file : Grep(file, key) = {i}
  <2> DEFINE i == CHOOSE i \in DOMAIN file : Grep(file, key) = {i}
  <2>1. i \in DOMAIN file
    BY <1>1
  <2>2. file[i] \in Line
    BY <2>1
  <2>3. Grep(file, key) # {}
    BY <1>1
  <2>4. QED
    BY <1>1, <2>2, <2>3 DEF Backup
<1>2. CASE ~\E i \in DOMAIN file : Grep(file, key) = {i}
  <2>1. Setting(key, "UNKNOWN") \in Line /\ SeveralLines \in Line
    BY TextType, TextAssumption
  <2>2. QED
    BY <1>2, <2>1 DEF Backup
<1>3. QED
  BY <1>1, <1>2

LEMMA CommandType ==
  ASSUME NEW sol \in Step
  PROVE  CommandOf(sol) \in Command
<1>1. sol.key \in Keys /\ Setting(sol.key, sol.value) \in Line /\ NoText \in Line
      /\ "" \in Keys
  BY TextType, TextAssumption DEF Step
<1>2. QED
  BY <1>1 DEF CommandOf, Command, Restart, Clean

LEMMA UndoType ==
  ASSUME NEW sol \in Step, NEW backup \in Line
  PROVE  UndoOf(sol, backup) \in Seq(Command)
<1>1. Restart \in Command
  BY TextType, TextAssumption DEF Restart, Command
<1>2. [do |-> "sed", key |-> sol.key, text |-> backup] \in Command
  BY DEF Step, Command
<1>3. QED
  BY <1>1, <1>2 DEF UndoOf

LEMMA ReplacedType ==
  ASSUME NEW text \in Line, NEW line \in Line
  PROVE  Replaced(text, line) \in Line
<1>1. CASE text.value \in Special
  <2>1. Written[text.value, line] \in Texts
    BY <1>1, TextAssumption
  <2>2. QED
    BY <1>1, <2>1 DEF Replaced, Line
<1>2. CASE text.value \notin Special
  BY <1>2 DEF Replaced
<1>3. QED
  BY <1>1, <1>2

LEMMA FileType ==
  ASSUME NEW file \in Seq(Line), NEW k, NEW line \in Line
  PROVE  Sed(file, k, line) \in Seq(Line) /\ Edited(file, k, line) \in Seq(Line)
<1>1. \A i \in 1 .. Len(file) : file[i] \in Line /\ Replaced(line, file[i]) \in Line
  BY ReplacedType
<1>2. Sed(file, k, line) \in [1 .. Len(file) -> Line] /\ Len(file) \in Nat
  BY <1>1 DEF Sed
<1>3. Sed(file, k, line) \in Seq(Line)
  BY <1>2, SeqDef
<1>4. QED
  BY <1>3 DEF Edited

LEMMA EffectType ==
  ASSUME NEW h \in Host, NEW c \in Command
  PROVE  Effect(h, c) \in Host
<1>1. c.text \in Line /\ h.file \in Seq(Line) /\ h.loaded \in Seq(Line)
  BY DEF Command, Host
<1>2. /\ Sed(h.file, c.key, c.text) \in Seq(Line)
      /\ Edited(h.file, c.key, c.text) \in Seq(Line)
  BY <1>1, FileType
<1>3. QED
  BY <1>1, <1>2 DEF Effect, Host

\* What the commands do to the file and to the service.
LEMMA EffectIs ==
  ASSUME NEW h \in Host, NEW c
  PROVE  /\ c.do = "edit" => Effect(h, c).file = Edited(h.file, c.key, c.text)
         /\ c.do = "sed" /\ Replacement(c.text) =>
              Effect(h, c).file = Sed(h.file, c.key, c.text)
         /\ c.do \in {"restart", "clean"} => Effect(h, c).file = h.file
         /\ c.do = "restart" => Effect(h, c).loaded = h.file /\ Effect(h, c).up
         /\ c.do # "restart" => Effect(h, c).loaded = h.loaded /\ Effect(h, c).up = h.up
<1>1. CASE c.do = "edit"
  BY <1>1 DEF Effect, Host
<1>2. CASE c.do = "sed" /\ Replacement(c.text)
  BY <1>2 DEF Effect, Host
<1>3. CASE c.do = "restart"
  BY <1>3 DEF Effect, Host
<1>4. CASE c.do \notin {"edit", "restart"} /\ ~(c.do = "sed" /\ Replacement(c.text))
  <2>1. Effect(h, c) = h
    BY <1>4 DEF Effect
  <2>2. QED
    BY <1>4, <2>1
<1>5. QED
  BY <1>1, <1>2, <1>3, <1>4

LEMMA DiffersType ==
  ASSUME NEW f \in Seq(Line), NEW g \in Seq(Line)
  PROVE  Differs(f, g) \subseteq Keys
<1>1. ASSUME NEW h \in Seq(Line) PROVE KeysOf(h) \subseteq Keys
  <2>1. \A i \in DOMAIN h : h[i] \in Line
    OBVIOUS
  <2>2. QED
    BY <2>1 DEF KeysOf, ToSet, Line
<1>2. QED
  BY <1>1 DEF Differs

\* What of an execution the others do changes is who has changed what.
LEMMA OthersKnow ==
  ASSUME TypeOK, NEW r \in Executions, NEW h, NEW own, Changes(r, h, own), NEW q \in Executions
  PROVE  /\ q = r => history'[q] = own
         /\ q # r => /\ history'[q].host = history[q].host
                     /\ history'[q].spoiled = history[q].spoiled
                     /\ history'[q].broken = history[q].broken
         /\ q # r /\ Phase(q, "accepted") => history'[q].others = history[q].others
         /\ q # r /\ ~Phase(q, "accepted") =>
              history'[q].others =
                history[q].others \cup Differs(host.file, host'.file)
                  \cup IF host'.loaded # host.loaded \/ host'.up # host.up THEN {""} ELSE {}
<1> DEFINE D == Differs(host.file, h.file)
                  \cup IF h.loaded # host.loaded \/ h.up # host.up THEN {""} ELSE {}
<1>1. /\ host' = h
      /\ history'[q] = CASE q = r -> own
                         [] q # r /\ Phase(q, "accepted") -> history[q]
                         [] OTHER -> [history[q] EXCEPT
                              !.others = @ \cup Differs(host.file, h.file)
                                \cup IF h.loaded # host.loaded \/ h.up # host.up
                                     THEN {""} ELSE {}]
  BY DEF Changes
<1>2. history[q] \in Past
  BY DEF TypeOK
<1>3. CASE q = r
  BY <1>1, <1>3
<1>4. CASE q # r /\ Phase(q, "accepted")
  BY <1>1, <1>4
<1>5. CASE q # r /\ ~Phase(q, "accepted")
  <2>1. history'[q] = [history[q] EXCEPT !.others = (@ \cup Differs(host.file, h.file))
          \cup IF h.loaded # host.loaded \/ h.up # host.up THEN {""} ELSE {}]
    BY <1>1, <1>5
  <2>2. QED
    BY <1>1, <1>2, <1>5, <2>1 DEF Past
<1>6. QED
  BY <1>3, <1>4, <1>5

\* In short: what is remembered of the host at first, and what was spoiled.
LEMMA ChangeKnown ==
  ASSUME TypeOK, NEW r \in Executions, NEW h, NEW own, Changes(r, h, own)
  PROVE  /\ host' = h /\ history'[r] = own
         /\ \A q \in Executions \ {r} : /\ history'[q].host = history[q].host
                                         /\ history'[q].spoiled = history[q].spoiled
                                         /\ history'[q].broken = history[q].broken
<1>1. host' = h
  BY DEF Changes
<1>2. history'[r] = own
  BY DEF Changes
<1>3. ASSUME NEW q \in Executions \ {r}
      PROVE  /\ history'[q].host = history[q].host
             /\ history'[q].spoiled = history[q].spoiled
             /\ history'[q].broken = history[q].broken
  <2>1. q \in Executions /\ q # r
    OBVIOUS
  <2>2. QED
    BY <2>1, OthersKnow
<1>4. QED
  BY <1>1, <1>2, <1>3

LEMMA RunKnown ==
  ASSUME TypeOK, NEW r \in Executions, NEW c, Runs(r, c)
  PROVE  host' = Effect(host, c) /\ history'[r] = history[r]
<1>1. Changes(r, Effect(host, c), history[r])
  BY DEF Runs
<1>2. QED
  BY <1>1, ChangeKnown

\* A change leaves host and history what they should be.
LEMMA ChangesType ==
  ASSUME TypeOK, NEW r \in Executions, NEW h \in Host, NEW own \in Past, Changes(r, h, own)
  PROVE  host' \in Host /\ history' \in [Executions -> Past]
<1> DEFINE D == Differs(host.file, h.file)
                  \cup IF h.loaded # host.loaded \/ h.up # host.up THEN {""} ELSE {}
<1>1. D \in SUBSET Keys
  <2>1. host.file \in Seq(Line) /\ h.file \in Seq(Line)
    BY DEF TypeOK, Host
  <2>2. Differs(host.file, h.file) \subseteq Keys
    BY <2>1, DiffersType
  <2>3. QED
    BY <2>2, TextAssumption
<1>2. \A q \in Executions : history[q] \in Past
  BY DEF TypeOK
<1>3. history' = [q \in Executions |->
        CASE q = r -> own
          [] q # r /\ Phase(q, "accepted") -> history[q]
          [] OTHER -> [history[q] EXCEPT !.others = history[q].others \cup D]]
  BY DEF Changes
<1> HIDE DEF D
<1>4. \A q \in Executions : [history[q] EXCEPT !.others = history[q].others \cup D] \in Past
  BY <1>1, <1>2 DEF Past
<1>5. ASSUME NEW q \in Executions PROVE history'[q] \in Past
  <2>1. \/ history'[q] = own
        \/ history'[q] = history[q]
        \/ history'[q] = [history[q] EXCEPT !.others = history[q].others \cup D]
    BY <1>3
  <2>2. QED
    BY <1>2, <1>4, <2>1
<1>6. history' \in [Executions -> Past]
  BY <1>3, <1>5
<1>7. QED
  BY <1>6 DEF Changes

\* So does a command, whether it takes effect or fails.
LEMMA RunsType ==
  ASSUME TypeOK, NEW r \in Executions, NEW c \in Command,
         Runs(r, c) \/ \E own \in Past : FailsToRestart(r, c, own)
  PROVE  host' \in Host /\ history' \in [Executions -> Past]
<1>1. host \in Host /\ history[r] \in Past
  BY DEF TypeOK
<1>2. Effect(host, c) \in Host /\ [host EXCEPT !.up = FALSE] \in Host
  BY <1>1, EffectType DEF Host
<1>3. \E h \in Host, own \in Past : Changes(r, h, own)
  BY <1>1, <1>2 DEF Runs, FailsToRestart
<1>4. QED
  BY <1>3, ChangesType

LEMMA SpoiltType ==
  ASSUME TypeOK, NEW r \in Executions
  PROVE  /\ Spoilt(r) \in Past /\ Spoilt(r).spoiled # {}
         /\ history[r].spoiled \subseteq Spoilt(r).spoiled
         /\ Spoilt(r).host = history[r].host /\ Spoilt(r).others = history[r].others
<1>1. PICK w \in {"execution", "recovery"} :
        Spoilt(r) = [history[r] EXCEPT !.spoiled = history[r].spoiled \cup {w}]
  BY DEF Spoilt
<1>2. history[r] \in Past
  BY DEF TypeOK
<1>3. QED
  BY <1>1, <1>2 DEF Past

LEMMA SpoilType ==
  ASSUME TypeOK, NEW r \in Executions, Spoil(r)
  PROVE  /\ history' \in [Executions -> Past]
         /\ history'[r].spoiled # {}
         /\ \A q \in Executions \ {r} : history'[q] = history[q]
<1>1. history \in [Executions -> Past]
  BY DEF TypeOK
<1>2. QED
  BY <1>1, SpoiltType DEF Spoil

\* The types by name.
Entry == [phase : Phases, sols : Seq(Step), plan : Seq(Step), backup : Line,
          cmds : Seq(Command), retry : Nat]

Late == [by : Executions, cmd : Command]

LEMMA TypeByName ==
  TypeOK <=> /\ host \in Host
             /\ late \subseteq Late
             /\ exec \in [Executions -> Entry]
             /\ history \in [Executions -> Past]
BY DEF TypeOK, Late, Entry

\* What an action may send.
LEMMA SentType ==
  ASSUME TypeOK, NEW r \in Executions, NEW sol \in ToSet(exec[r].plan)
  PROVE  /\ sol \in Step /\ CommandOf(sol) \in Command
         /\ exec[r].plan # << >>
         /\ Tail(exec[r].plan) \in Seq(Step)
         /\ exec[r].cmds \o UndoOf(sol, exec[r].backup) \in Seq(Command)
<1>1. exec[r] \in Entry
  BY TypeByName
<1>2. exec[r].plan \in Seq(Step) /\ exec[r].cmds \in Seq(Command) /\ exec[r].backup \in Line
  BY <1>1 DEF Entry
<1>3. sol \in Step /\ exec[r].plan # << >>
  BY <1>2 DEF ToSet
<1>4. UndoOf(sol, exec[r].backup) \in Seq(Command)
  BY <1>2, <1>3, UndoType
<1>5. exec[r].cmds \o UndoOf(sol, exec[r].backup) \in Seq(Command)
  BY <1>2, <1>4
<1>6. QED
  BY <1>2, <1>3, <1>5, CommandType

\* An entry that keeps its type.
LEMMA EntryType ==
  ASSUME exec \in [Executions -> Entry], NEW r \in Executions, NEW e \in Entry,
         exec' = [exec EXCEPT ![r] = e]
  PROVE  exec' \in [Executions -> Entry]
OBVIOUS

\* The types are kept by each action.
LEMMA TypeStep ==
  ASSUME TypeOK, [Next]_vars
  PROVE  TypeOK'
<1>1. /\ host \in Host /\ late \subseteq Late
      /\ exec \in [Executions -> Entry] /\ history \in [Executions -> Past]
  BY TypeByName
<1>2. NoText \in Line /\ ErrorText \in Line /\ << >> \in Seq(Step) /\ << >> \in Seq(Command)
  BY TextType
<1>3. ASSUME NEW r \in Executions, NEW c \in Command, GivenUp(r, c)
      PROVE  late' \subseteq Late
  BY <1>1, <1>3 DEF GivenUp, Late
<1>4. ASSUME NEW r \in Executions, NEW c \in Command,
             Runs(r, c) \/ \E own \in Past : FailsToRestart(r, c, own)
      PROVE  host' \in Host /\ history' \in [Executions -> Past]
  BY <1>4, RunsType
<1>5. ASSUME NEW r \in Executions, Spoil(r)
      PROVE  history' \in [Executions -> Past]
  BY <1>5, SpoilType
<1>6. ASSUME NEW r \in Executions, Leave(r)
      PROVE  exec' \in [Executions -> Entry]
  <2> DEFINE e == [exec[r] EXCEPT !.phase = "commit", !.plan = << >>, !.backup = NoText]
  <2>1. exec' = [exec EXCEPT ![r] = e]
    BY <1>6 DEF Leave
  <2>2. exec[r] \in Entry /\ "commit" \in Phases
    BY <1>1 DEF Phases
  <2>3. e \in Entry
    BY <1>2, <2>2 DEF Entry
  <2>4. QED
    BY <1>1, <2>1, <2>3, EntryType
<1>7. ASSUME NEW r \in Executions
      PROVE  /\ exec[r].plan \in Seq(Step) /\ exec[r].cmds \in Seq(Command)
             /\ exec[r].plan # << >> => Head(exec[r].plan) \in Step /\ Tail(exec[r].plan) \in Seq(Step)
             /\ exec[r].cmds # << >> =>
                  Head(exec[r].cmds) \in Command /\ Tail(exec[r].cmds) \in Seq(Command)
             /\ exec[r].retry \in Nat
  <2>1. exec[r].plan \in Seq(Step) /\ exec[r].cmds \in Seq(Command) /\ exec[r].retry \in Nat
    BY <1>1 DEF Entry
  <2>2. QED
    BY <2>1
<1>8. host.file \in Seq(Line)
  BY <1>1 DEF Host
<1>9. ASSUME NEW r \in Executions, Load(r) PROVE TypeOK'
  <2>1. exec' \in [Executions -> Entry]
    BY <1>1, <1>9 DEF Load, Entry, Phases
  <2>2. history' \in [Executions -> Past]
    BY <1>1, <1>9 DEF Load, Past
  <2>3. QED
    BY <1>1, <1>9, <2>1, <2>2 DEF Load, TypeOK, Late, Entry
<1>10. ASSUME NEW r \in Executions, Skip(r) PROVE TypeOK'
  <2>1. exec' \in [Executions -> Entry]
    <3> DEFINE e == [exec[r] EXCEPT !.plan = Tail(exec[r].plan)]
    <3>1. exec' = [exec EXCEPT ![r] = e]
      BY <1>10 DEF Skip
    <3>2. exec[r] \in Entry /\ Tail(exec[r].plan) \in Seq(Step)
      BY <1>1, <1>7, <1>10 DEF Skip, Running
    <3>3. e \in Entry
      BY <3>2 DEF Entry
    <3>4. QED
      BY <1>1, <3>1, <3>3, EntryType
  <2>2. QED
    BY <1>1, <1>10, <2>1 DEF Skip, TypeOK, Late, Entry
<1>11. ASSUME NEW r \in Executions, SaveBackup(r) PROVE TypeOK'
  <2>1. Head(exec[r].plan).key \in Keys
    BY <1>7, <1>11 DEF SaveBackup, Running, Step
  <2>2. Backup(host.file, Head(exec[r].plan).key) \in Line
    BY <1>8, <2>1, BackupType
  <2>3. exec' \in [Executions -> Entry]
    <3>1. PICK b \in Line : exec' = [exec EXCEPT ![r] =
                              [exec[r] EXCEPT !.phase = "edit", !.backup = b]]
      BY <1>2, <1>11, <2>2 DEF SaveBackup
    <3>2. [exec[r] EXCEPT !.phase = "edit", !.backup = b] \in Entry
      BY <1>1 DEF Entry, Phases
    <3>3. QED
      BY <1>1, <3>1, <3>2, EntryType
  <2>4. history' \in [Executions -> Past]
    BY <1>1, <1>5, <1>11 DEF SaveBackup
  <2>5. QED
    BY <1>1, <1>11, <2>3, <2>4 DEF SaveBackup, TypeOK, Late, Entry
<1>12. ASSUME NEW r \in Executions, Succeed(r) PROVE TypeOK'
  <2>1. PICK sol \in ToSet(exec[r].plan) :
          /\ Runs(r, CommandOf(sol)) /\ UNCHANGED late
          /\ exec' = [exec EXCEPT ![r].phase = "run", ![r].plan = Tail(exec[r].plan),
                                  ![r].backup = NoText,
                                  ![r].cmds = exec[r].cmds \o UndoOf(sol, exec[r].backup)]
    BY <1>12 DEF Succeed
  <2>2. /\ CommandOf(sol) \in Command /\ Tail(exec[r].plan) \in Seq(Step)
        /\ exec[r].cmds \o UndoOf(sol, exec[r].backup) \in Seq(Command)
    BY SentType
  <2>3. exec' \in [Executions -> Entry]
    <3> DEFINE e == [exec[r] EXCEPT !.phase = "run", !.plan = Tail(exec[r].plan),
                                    !.backup = NoText,
                                    !.cmds = exec[r].cmds \o UndoOf(sol, exec[r].backup)]
    <3>1. exec' = [exec EXCEPT ![r] = e]
      BY <2>1
    <3>2. e \in Entry
      BY <1>1, <1>2, <2>2 DEF Entry, Phases
    <3>3. QED
      BY <1>1, <3>1, <3>2, EntryType
  <2>4. host' \in Host /\ history' \in [Executions -> Past]
    BY <1>4, <2>1, <2>2
  <2>5. QED
    BY <1>1, <2>1, <2>3, <2>4 DEF TypeOK, Late, Entry
<1>13. ASSUME NEW r \in Executions, Fail(r) PROVE TypeOK'
  <2>1. Leave(r) /\ UNCHANGED late
    BY <1>13 DEF Fail
  <2>2. host' \in Host /\ history' \in [Executions -> Past]
    <3>1. CASE UNCHANGED <<host, history>>
      BY <1>1, <3>1
    <3>2. CASE \E sol \in ToSet(exec[r].plan) :
                 FailsToRestart(r, CommandOf(sol),
                   [history[r] EXCEPT !.broken = Restart \notin ToSet(exec[r].cmds)])
      <4>1. PICK sol \in ToSet(exec[r].plan) :
              FailsToRestart(r, CommandOf(sol),
                [history[r] EXCEPT !.broken = Restart \notin ToSet(exec[r].cmds)])
        BY <3>2
      <4>2. [history[r] EXCEPT !.broken = Restart \notin ToSet(exec[r].cmds)] \in Past
        BY <1>1 DEF Past
      <4>3. CommandOf(sol) \in Command
        BY SentType
      <4>4. QED
        BY <1>4, <4>1, <4>2, <4>3
    <3>3. QED
      BY <1>13, <3>1, <3>2 DEF Fail
  <2>3. QED
    BY <1>1, <1>6, <2>1, <2>2 DEF TypeOK, Late, Entry
<1>14. ASSUME NEW r \in Executions, TimeOut(r) PROVE TypeOK'
  <2>1. PICK sol \in ToSet(exec[r].plan) :
          GivenUp(r, CommandOf(sol)) /\ Spoil(r) /\ Leave(r) /\ UNCHANGED host
    BY <1>14 DEF TimeOut
  <2>2. CommandOf(sol) \in Command
    BY SentType
  <2>3. late' \subseteq Late
    BY <1>3, <2>1, <2>2
  <2>4. QED
    BY <1>1, <1>5, <1>6, <2>1, <2>3 DEF TypeOK, Late, Entry
<1>15. ASSUME NEW r \in Executions, Report(r) PROVE TypeOK'
  <2>1. exec' \in [Executions -> Entry]
    <3> DEFINE e == [exec[r] EXCEPT !.phase = "reported", !.cmds = << >>]
    <3>1. exec' = [exec EXCEPT ![r] = e]
      BY <1>15 DEF Report
    <3>2. exec[r] \in Entry /\ "reported" \in Phases
      BY <1>1 DEF Phases
    <3>3. e \in Entry
      BY <1>2, <3>2 DEF Entry
    <3>4. QED
      BY <1>1, <3>1, <3>3, EntryType
  <2>2. QED
    BY <1>1, <1>15, <2>1 DEF Report, TypeOK, Late, Entry
<1>16. ASSUME NEW r \in Executions, Transition(r) PROVE TypeOK'
  <2>1. RollbackOrder(exec[r].cmds) \in Seq(Command)
    BY <1>7 DEF RollbackOrder, Reverse
  <2>2. exec' \in [Executions -> Entry]
    <3> DEFINE d == [exec[r] EXCEPT !.phase = "refresh"]
               e == [exec[r] EXCEPT !.phase = "undo", !.cmds = RollbackOrder(exec[r].cmds)]
    <3>1. exec' = [exec EXCEPT ![r] = d] \/ exec' = [exec EXCEPT ![r] = e]
      BY <1>16 DEF Transition
    <3>2. exec[r] \in Entry /\ "refresh" \in Phases /\ "undo" \in Phases
      BY <1>1 DEF Phases
    <3>3. d \in Entry /\ e \in Entry
      BY <2>1, <3>2 DEF Entry
    <3>4. QED
      BY <1>1, <3>1, <3>3, EntryType
  <2>3. QED
    BY <1>1, <1>16, <2>2 DEF Transition, TypeOK, Late, Entry
<1>17. ASSUME NEW r \in Executions, Undo(r) PROVE TypeOK'
  <2> DEFINE c == Head(exec[r].cmds)
  <2>1. c \in Command /\ Tail(exec[r].cmds) \in Seq(Command)
    BY <1>7, <1>17 DEF Undo
  <2>2. exec' \in [Executions -> Entry]
    BY <1>1, <1>17, <2>1 DEF Undo, Entry, Phases
  <2>3. \/ Runs(r, c) /\ UNCHANGED late
        \/ Spoil(r) /\ UNCHANGED <<host, late>>
        \/ FailsToRestart(r, c, Spoilt(r)) /\ UNCHANGED late
        \/ GivenUp(r, c) /\ Spoil(r) /\ UNCHANGED host
    BY <1>17 DEF Undo
  <2> HIDE DEF c
  <2>4. CASE Runs(r, c) /\ UNCHANGED late
    BY <1>1, <1>4, <2>1, <2>2, <2>4 DEF TypeOK, Late, Entry
  <2>5. CASE Spoil(r) /\ UNCHANGED <<host, late>>
    BY <1>1, <1>5, <2>2, <2>5 DEF TypeOK, Late, Entry
  <2>6. CASE GivenUp(r, c) /\ Spoil(r) /\ UNCHANGED host
    BY <1>1, <1>3, <1>5, <2>1, <2>2, <2>6 DEF TypeOK, Late, Entry
  <2>7. CASE FailsToRestart(r, c, Spoilt(r)) /\ UNCHANGED late
    <3>1. host' \in Host /\ history' \in [Executions -> Past]
      BY <1>4, <2>1, <2>7, SpoiltType
    <3>2. QED
      BY <1>1, <2>2, <2>7, <3>1 DEF TypeOK, Late, Entry
  <2>8. QED
    BY <2>3, <2>4, <2>5, <2>6, <2>7
<1>18. ASSUME NEW r \in Executions, Conclude(r) PROVE TypeOK'
  <2>1. CountedRetry(exec[r].retry) \in Nat
    BY <1>7 DEF CountedRetry
  <2>2. exec' \in [Executions -> Entry]
    <3> DEFINE e == [exec[r] EXCEPT !.phase = "concluded", !.retry = CountedRetry(exec[r].retry)]
    <3>1. exec' = [exec EXCEPT ![r] = e]
      BY <1>18 DEF Conclude
    <3>2. exec[r] \in Entry /\ "concluded" \in Phases
      BY <1>1 DEF Phases
    <3>3. e \in Entry
      BY <2>1, <3>2 DEF Entry
    <3>4. QED
      BY <1>1, <3>1, <3>3, EntryType
  <2>3. QED
    BY <1>1, <1>18, <2>2 DEF Conclude, TypeOK, Late, Entry
<1>19. ASSUME LateEffect PROVE TypeOK'
  <2>1. PICK l \in late : /\ Runs(l.by, l.cmd) \/ FailsToRestart(l.by, l.cmd, history[l.by])
                          /\ late' = late \ {l} /\ UNCHANGED exec
    BY <1>19 DEF LateEffect
  <2>2. l.by \in Executions /\ l.cmd \in Command /\ history[l.by] \in Past
    BY <1>1 DEF Late
  <2>3. QED
    BY <1>1, <1>4, <2>1, <2>2 DEF TypeOK, Late, Entry
<1>20. CASE UNCHANGED vars
  BY <1>1, <1>20 DEF vars, TypeOK, Late, Entry
<1>21. QED
  BY <1>9, <1>10, <1>11, <1>12, <1>13, <1>14, <1>15, <1>16, <1>17, <1>18, <1>19, <1>20
     DEF Next

\* TypeOK: whatever the plans and the file are, every variable keeps its type.
THEOREM AgentTyped ==
  Spec => []TypeOK
<1>1. Init => TypeOK
  <2> SUFFICES ASSUME Init PROVE TypeOK
    OBVIOUS
  <2>1. PICK f \in Files : host = [file |-> f, loaded |-> f, up |-> TRUE]
    BY DEF Init
  <2>2. host \in Host
    BY <2>1, FilesAssumption DEF Host
  <2>3. ASSUME NEW r \in Executions PROVE exec[r] \in Entry
    <3>1. PICK p \in Plans, n \in Retries :
            exec[r] = [phase |-> "accepted", sols |-> p, plan |-> p, backup |-> NoText,
                       cmds |-> << >>, retry |-> n]
      BY DEF Init
    <3>2. p \in Seq(Step) /\ n \in Nat /\ << >> \in Seq(Command) /\ NoText \in Line
      BY PlansAssumption, RetriesAssumption, TextType
    <3>3. QED
      BY <3>1, <3>2 DEF Entry, Phases
  <2>4. exec \in [Executions -> Entry]
    BY <2>3 DEF Init
  <2>5. history \in [Executions -> Past] /\ late \subseteq Late
    BY <2>2 DEF Init, Past
  <2>6. QED
    BY <2>2, <2>4, <2>5, TypeByName
<1>2. TypeOK /\ [Next]_vars => TypeOK'
  BY TypeStep
<1>3. QED
  BY <1>1, <1>2, PTL DEF Spec

-----------------------------------------------------------------------------
(***************************************************************************)
(* The steps of one request.                                               *)
(***************************************************************************)
StepOf(r) ==
  \/ Load(r) \/ Skip(r) \/ SaveBackup(r) \/ Succeed(r) \/ Fail(r) \/ TimeOut(r)
  \/ Report(r) \/ Transition(r) \/ Undo(r) \/ Conclude(r)

\* They are nobody else's.
LEMMA OwnStep ==
  ASSUME TypeOK, NEW r \in Executions, StepOf(r), NEW q \in Executions \ {r}
  PROVE  exec'[q] = exec[q]
<1>1. exec \in [Executions -> Entry]
  BY TypeByName
<1>2. \E e : exec' = [exec EXCEPT ![r] = e]
  <2>1. ASSUME Leave(r) PROVE \E e : exec' = [exec EXCEPT ![r] = e]
    BY <2>1 DEF Leave
  <2>2. CASE Load(r)
    BY <2>2 DEF Load
  <2>3. CASE Skip(r)
    BY <2>3 DEF Skip
  <2>4. CASE SaveBackup(r)
    BY <2>4 DEF SaveBackup
  <2>5. CASE Succeed(r)
    BY <2>5 DEF Succeed
  <2>6. CASE Fail(r)
    <3>1. Leave(r)
      BY <2>6 DEF Fail
    <3>2. QED
      BY <2>1, <3>1
  <2>7. CASE TimeOut(r)
    BY <2>1, <2>7 DEF TimeOut
  <2>8. CASE Report(r)
    BY <2>8 DEF Report
  <2>9. CASE Transition(r)
    BY <2>9 DEF Transition
  <2>10. CASE Undo(r)
    <3>1. exec' = [exec EXCEPT ![r].cmds = Tail(@)]
      BY <2>10 DEF Undo
    <3>2. QED
      BY <3>1
  <2>11. CASE Conclude(r)
    BY <2>11 DEF Conclude
  <2>12. QED
    BY <2>2, <2>3, <2>4, <2>5, <2>6, <2>7, <2>8, <2>9, <2>10, <2>11 DEF StepOf
<1>3. QED
  BY <1>1, <1>2

\* The entry of a request that is left for its rollback.
LEMMA LeftEntry ==
  ASSUME TypeOK, NEW r \in Executions, Leave(r)
  PROVE  exec'[r].phase = "commit" /\ exec'[r].cmds = exec[r].cmds
         /\ exec'[r].sols = exec[r].sols /\ exec'[r].plan = << >>
<1> DEFINE e == [exec[r] EXCEPT !.phase = "commit", !.plan = << >>, !.backup = NoText]
<1>1. exec \in [Executions -> Entry] /\ exec[r] \in Entry
  BY TypeByName
<1>2. exec' = [exec EXCEPT ![r] = e]
  BY DEF Leave
<1>3. exec'[r] = e
  BY <1>1, <1>2
<1>4. e.phase = "commit" /\ e.cmds = exec[r].cmds /\ e.sols = exec[r].sols /\ e.plan = << >>
  BY <1>1 DEF Entry
<1>5. QED
  BY <1>3, <1>4

\* What is left of a plan is part of it.
LEMMA TailWithin ==
  ASSUME NEW S, NEW s \in Seq(S), s # << >>
  PROVE  Head(s) \in ToSet(s) /\ ToSet(Tail(s)) \subseteq ToSet(s)
<1> DEFINE n == Len(s)
           t == Tail(s)
<1>1. /\ n \in Nat /\ n > 0 /\ Head(s) = s[1] /\ DOMAIN s = 1 .. n /\ DOMAIN t = 1 .. n - 1
      /\ \A i \in 1 .. n - 1 : t[i] = s[i + 1]
  OBVIOUS
<1> HIDE DEF n, t
<1>2. 1 \in DOMAIN s /\ \A i \in DOMAIN t : i + 1 \in DOMAIN s /\ t[i] = s[i + 1]
  BY <1>1
<1>3. QED
  BY <1>1, <1>2 DEF ToSet, t

\* The entry of a request whose command has succeeded.
LEMMA SucceededEntry ==
  ASSUME TypeOK, NEW r \in Executions, Succeed(r)
  PROVE  \E sol \in Step :
           /\ exec[r].plan # << >> /\ sol = Head(exec[r].plan)
           /\ Sends(r, sol) /\ Runs(r, CommandOf(sol)) /\ UNCHANGED late
           /\ exec'[r].phase = "run"
           /\ exec'[r].sols = exec[r].sols /\ exec'[r].plan = Tail(exec[r].plan)
           /\ exec'[r].cmds = exec[r].cmds \o UndoOf(sol, exec[r].backup)
<1>1. PICK sol \in ToSet(exec[r].plan) :
        /\ Sends(r, sol) /\ Runs(r, CommandOf(sol)) /\ UNCHANGED late
        /\ exec' = [exec EXCEPT ![r] =
                      [exec[r] EXCEPT !.phase = "run", !.plan = Tail(exec[r].plan),
                                      !.backup = NoText,
                                      !.cmds = exec[r].cmds \o UndoOf(sol, exec[r].backup)]]
  BY DEF Succeed
<1> DEFINE e == [exec[r] EXCEPT !.phase = "run", !.plan = Tail(exec[r].plan),
                                !.backup = NoText,
                                !.cmds = exec[r].cmds \o UndoOf(sol, exec[r].backup)]
<1>2. exec \in [Executions -> Entry] /\ exec[r] \in Entry
  BY TypeByName
<1>3. exec'[r] = e
  BY <1>1, <1>2
<1>4. e.phase = "run" /\ e.sols = exec[r].sols /\ e.plan = Tail(exec[r].plan)
      /\ e.cmds = exec[r].cmds \o UndoOf(sol, exec[r].backup)
  BY <1>2 DEF Entry
<1>5. sol \in Step /\ exec[r].plan # << >>
  BY SentType
<1>6. sol = Head(exec[r].plan)
  BY <1>1 DEF Sends
<1>7. QED
  BY <1>1, <1>3, <1>4, <1>5, <1>6

\* The solutions are kept, and the plan gets shorter.
LEMMA PlanShrinks ==
  ASSUME TypeOK, NEW r \in Executions, StepOf(r)
  PROVE  /\ exec'[r].sols = exec[r].sols
         /\ ToSet(exec'[r].plan) \subseteq ToSet(exec[r].plan)
<1>1. exec \in [Executions -> Entry] /\ exec[r] \in Entry /\ exec[r].plan \in Seq(Step)
  BY TypeByName DEF Entry
<1>2. exec[r].plan # << >> => ToSet(Tail(exec[r].plan)) \subseteq ToSet(exec[r].plan)
  BY <1>1, TailWithin
<1>3. ToSet(<< >>) = {}
  BY DEF ToSet
<1>4. CASE Load(r)
  BY <1>1, <1>4 DEF Load, Entry
<1>5. CASE Skip(r)
  BY <1>1, <1>2, <1>5 DEF Skip, Running, Entry
<1>6. CASE SaveBackup(r)
  BY ZenonT(30), <1>1, <1>6 DEF SaveBackup, Entry
<1>7. CASE Succeed(r)
  <2>1. /\ exec[r].plan # << >> /\ exec'[r].sols = exec[r].sols
        /\ exec'[r].plan = Tail(exec[r].plan)
    BY <1>7, SucceededEntry
  <2>2. QED
    BY <1>2, <2>1
<1>8. CASE Fail(r) \/ TimeOut(r)
  <2>1. Leave(r)
    BY <1>8 DEF Fail, TimeOut
  <2>2. QED
    BY <1>3, <2>1, LeftEntry
<1>9. CASE Report(r)
  BY <1>1, <1>9 DEF Report, Entry
<1>10. CASE Transition(r)
  BY <1>1, <1>10 DEF Transition, Entry
<1>11. CASE Undo(r)
  <2>1. exec' = [exec EXCEPT ![r].cmds = Tail(exec[r].cmds)]
    BY <1>11 DEF Undo
  <2>2. QED
    BY <1>1, <2>1 DEF Entry
<1>12. CASE Conclude(r)
  BY <1>1, <1>12 DEF Conclude, Entry
<1>13. QED
  BY <1>4, <1>5, <1>6, <1>7, <1>8, <1>9, <1>10, <1>11, <1>12 DEF StepOf

\* Only by succeeding does a request go on after an edit.
LEMMA EditSucceeds ==
  ASSUME TypeOK, Next, NEW r \in Executions, Phase(r, "edit"), exec'[r].phase = "run"
  PROVE  Succeed(r)
<1>1. exec \in [Executions -> Entry] /\ exec[r].phase = "edit"
  BY TypeByName DEF Phase
<1>2. exec'[r] # exec[r]
  BY <1>1
<1>3. StepOf(r)
  <2>1. ~LateEffect
    BY <1>2 DEF LateEffect
  <2>2. PICK q \in Executions : StepOf(q)
    BY <2>1 DEF Next, StepOf
  <2>3. QED
    BY <1>2, <2>2, OwnStep
<1>4. ~Fail(r) /\ ~TimeOut(r)
  <2>1. ~Leave(r)
    BY LeftEntry
  <2>2. QED
    BY <2>1 DEF Fail, TimeOut
<1>5. QED
  BY <1>1, <1>3, <1>4
  DEF StepOf, Load, Skip, SaveBackup, Report, Transition, Undo, Conclude, Running, Phase

\* EditsTakeEffect: an edit that reports success has set the key to the value
\* it was given, whatever the file said and whoever is at work beside it; but
\* for a value sed has interpreted, and for a key the file does not have behind
\* a longer one.
THEOREM EditTakesEffect ==
  Spec => EditsTakeEffect
<1> DEFINE A == \A r \in Executions :
        Phase(r, "edit") /\ exec'[r].phase = "run" =>
          LET sol == Head(exec[r].plan) IN
          \/ sol.value \in Values(host'.file, sol.key)
          \/ sol.value \in Special /\ Values(host.file, sol.key) # {}
          \/ Values(host.file, sol.key) = {} /\ Grep(host.file, sol.key) # {}
<1>1. TypeOK /\ ExecInv /\ [Next]_vars => [A]_vars
  <2> SUFFICES ASSUME TypeOK, ExecInv, Next, NEW r \in Executions, Phase(r, "edit"),
                      exec'[r].phase = "run", NEW sol, sol = Head(exec[r].plan)
               PROVE  \/ sol.value \in Values(host'.file, sol.key)
                      \/ sol.value \in Special /\ Values(host.file, sol.key) # {}
                      \/ Values(host.file, sol.key) = {} /\ Grep(host.file, sol.key) # {}
    BY DEF vars
  <2>1. Succeed(r)
    BY EditSucceeds
  <2>2. sol.action_type = "EDIT_CONFIG"
    BY DEF ExecInv, Consistent, Phase
  <2>3. Runs(r, CommandOf(sol)) /\ sol \in Step
    BY <2>1, SucceededEntry
  <2> DEFINE f == host.file
             k == sol.key
             line == Setting(sol.key, sol.value)
  <2>4. host'.file = Edited(f, k, line)
    <3>1. host' = Effect(host, CommandOf(sol))
      BY <2>3 DEF Runs, Changes
    <3>2. /\ CommandOf(sol).do = "edit" /\ CommandOf(sol).key = sol.key
          /\ CommandOf(sol).text = Setting(sol.key, sol.value)
      BY <2>2 DEF CommandOf
    <3>3. host \in Host
      BY TypeByName
    <3>4. QED
      BY <3>1, <3>2, <3>3 DEF Effect, Host
  <2>5. f \in Seq(Line)
    BY TypeByName DEF Host
  <2>6. line.key = k /\ line.value = sol.value /\ line \in Line
    BY <2>3, TextType DEF Setting, Step
  <2> HIDE DEF f, k, line
  <2>7. CASE Grep(f, k) # {} /\ Replacement(line)
    <3>1. CASE Values(f, k) = {}
      BY <2>7, <3>1 DEF f, k
    <3>2. CASE Values(f, k) # {} /\ sol.value \notin Special
      <4>1. Values(Sed(f, k, line), k) = {line.value}
        BY <2>5, <2>6, <3>2, SedValues
      <4>2. QED
        BY <2>4, <2>6, <2>7, <4>1 DEF Edited, k
    <3>3. CASE Values(f, k) # {} /\ sol.value \in Special
      BY <3>3 DEF f, k
    <3>4. QED
      BY <3>1, <3>2, <3>3
  <2>8. CASE ~(Grep(f, k) # {} /\ Replacement(line))
    <3>1. Values(Append(f, line), k) = Values(f, k) \cup {line.value}
      BY <2>5, <2>6, AppendValues
    <3>2. QED
      BY <2>4, <2>6, <2>8, <3>1 DEF Edited, k
  <2>9. QED
    BY <2>7, <2>8
<1>2. Spec => []ExecInv
  BY ExecAlways
<1>3. QED
  BY <1>1, <1>2, AgentTyped, PTL DEF Spec, EditsTakeEffect

-----------------------------------------------------------------------------
(***************************************************************************)
(* The keys.                                                               *)
(***************************************************************************)
\* The keys of which nothing is promised: what somebody else has changed, and
\* the lines that set no key.
Off(past) == past.others \cup {""}

\* The command that undoes the edit a request is about to send.
Pending(e) == [do |-> "sed", key |-> Head(e.plan).key, text |-> e.backup]

\* What there is to go back to for a request, in each phase.
Recoverable(e, past, file) ==
  /\ ToSet(e.plan) \subseteq ToSet(e.sols)
  /\ e.phase \in {"run", "edit", "commit", "refresh"} =>
       Restorable(past.host.file, e.cmds, file, Off(past), Touched(e.sols))
  /\ e.phase = "edit" =>
       \E saved \in Seq(Line) : /\ Same(file, saved, Off(past))
                                /\ Faithful(Pending(e), saved, Touched(e.sols))
  /\ e.phase = "undo" =>
       Restoring(past.host.file, Reverse(e.cmds), file, Off(past), Touched(e.sols))
  /\ e.phase = "concluded" =>
       Restoring(past.host.file, << >>, file, Off(past), Touched(e.sols))

\* A command that was given up on has spoiled its execution.
LateSpoils(commands, past) == \A l \in commands : past[l.by].spoiled # {}

\* The inductive invariant: an execution all of whose commands were answered
\* can be gone back from.
RollbackInv ==
  /\ LateSpoils(late, history)
  /\ \A r \in Executions :
       history[r].spoiled = {} => Recoverable(exec[r], history[r], host.file)

\* The last command is the first to be undone.
LEMMA ReverseMore ==
  ASSUME NEW S, NEW s \in Seq(S), s # << >>
  PROVE  /\ Reverse(Tail(s)) \in Seq(S) /\ Head(s) \in S
         /\ Reverse(s) = Append(Reverse(Tail(s)), Head(s))
<1> DEFINE n == Len(s)
           t == Tail(s)
<1>1. /\ n \in Nat /\ n > 0 /\ t \in Seq(S) /\ Len(t) = n - 1 /\ Head(s) \in S
      /\ Head(s) = s[1] /\ \A i \in 1 .. n - 1 : t[i] = s[i + 1]
  OBVIOUS
<1>2. ASSUME NEW u \in Seq(S)
      PROVE  /\ Reverse(u) \in Seq(S) /\ Len(Reverse(u)) = Len(u)
             /\ \A i \in 1 .. Len(u) : Reverse(u)[i] = u[(Len(u) - i) + 1]
  BY DEF Reverse
<1>3. /\ Reverse(s) \in Seq(S) /\ Len(Reverse(s)) = n
      /\ \A i \in 1 .. n : Reverse(s)[i] = s[(n - i) + 1]
  BY <1>2
<1> HIDE DEF n, t
<1>4. /\ Reverse(t) \in Seq(S) /\ Len(Reverse(t)) = n - 1
      /\ \A i \in 1 .. n - 1 : Reverse(t)[i] = t[((n - 1) - i) + 1]
  <2>1. /\ Reverse(t) \in Seq(S) /\ Len(Reverse(t)) = Len(t)
        /\ \A i \in 1 .. Len(t) : Reverse(t)[i] = t[(Len(t) - i) + 1]
    BY <1>1, <1>2
  <2>2. QED
    BY <1>1, <2>1
<1> DEFINE a == Append(Reverse(t), Head(s))
<1>5. /\ a \in Seq(S) /\ Len(a) = n /\ a[n] = Head(s)
      /\ \A i \in 1 .. n - 1 : a[i] = Reverse(t)[i]
  BY <1>1, <1>4, AppendProperties
<1> HIDE DEF a
<1>6. ASSUME NEW i \in 1 .. n PROVE Reverse(s)[i] = a[i]
  <2>1. CASE i = n
    <3>1. (n - i) + 1 = 1
      BY <1>1, <2>1
    <3>2. QED
      BY <1>1, <1>3, <1>5, <2>1, <3>1
  <2>2. CASE i # n
    <3>1. i \in 1 .. n - 1 /\ ((n - 1) - i) + 1 = n - i /\ n - i \in 1 .. n - 1
      BY <1>1, <2>2
    <3>2. a[i] = t[n - i] /\ t[n - i] = s[(n - i) + 1]
      BY <1>1, <1>4, <1>5, <3>1
    <3>3. QED
      BY <1>3, <3>2
  <2>3. QED
    BY <2>1, <2>2
<1>7. Reverse(s) = a
  BY <1>3, <1>5, <1>6, SeqEqual
<1>8. QED
  BY <1>1, <1>4, <1>7 DEF a, t

\* Reversed twice is not reversed.
LEMMA ReverseTwice ==
  ASSUME NEW S, NEW s \in Seq(S)
  PROVE  Reverse(Reverse(s)) = s
<1>1. ASSUME NEW u \in Seq(S)
      PROVE  /\ Reverse(u) \in Seq(S) /\ Len(Reverse(u)) = Len(u)
             /\ \A i \in 1 .. Len(u) : Reverse(u)[i] = u[(Len(u) - i) + 1]
  BY DEF Reverse
<1> DEFINE t == Reverse(s)
<1>2. t \in Seq(S) /\ Len(t) = Len(s) /\ \A i \in 1 .. Len(s) : t[i] = s[(Len(s) - i) + 1]
  BY <1>1
<1>3. Reverse(t) \in Seq(S) /\ Len(Reverse(t)) = Len(s)
      /\ \A i \in 1 .. Len(s) : Reverse(t)[i] = t[(Len(s) - i) + 1]
  BY <1>1, <1>2
<1> HIDE DEF t
<1>4. ASSUME NEW i \in 1 .. Len(s) PROVE Reverse(t)[i] = s[i]
  <2>1. (Len(s) - i) + 1 \in 1 .. Len(s) /\ (Len(s) - ((Len(s) - i) + 1)) + 1 = i
    OBVIOUS
  <2>2. QED
    BY <1>2, <1>3, <2>1
<1>5. QED
  BY <1>3, <1>4, SeqEqual DEF t

\* A step of another request or of a late command leaves an execution
\* recoverable: what it changes is remembered.
LEMMA RecoverableStays ==
  ASSUME TypeOK, NEW r \in Executions, NEW h \in Host, NEW own, Changes(r, h, own),
         NEW q \in Executions, q # r, Recoverable(exec[q], history[q], host.file)
  PROVE  Recoverable(exec[q], history'[q], host'.file)
<1>1. CASE exec[q].phase = "accepted"
  BY <1>1 DEF Recoverable
<1>2. CASE exec[q].phase # "accepted"
  <2> DEFINE O == Off(history[q])
             P == Off(history'[q])
             T == Touched(exec[q].sols)
  <2>1. /\ history'[q].host = history[q].host
        /\ history'[q].others = history[q].others \cup Differs(host.file, host'.file)
             \cup IF host'.loaded # host.loaded \/ host'.up # host.up THEN {""} ELSE {}
    BY ZenonT(30), <1>2, OthersKnow DEF Phase
  <2>2. O \subseteq P
    BY <2>1 DEF Off
  <2>3. Same(host.file, host'.file, P)
    BY <2>1, WhatDiffers DEF Same, Off
  <2>4. \A saved : Same(host.file, saved, O) => Same(host'.file, saved, P)
    BY <2>2, <2>3 DEF Same
  <2> HIDE DEF O, P, T
  <2>5. \A before, cmds :
          /\ Restorable(before, cmds, host.file, O, T) =>
               Restorable(before, cmds, host'.file, P, T)
          /\ Restoring(before, cmds, host.file, O, T) =>
               Restoring(before, cmds, host'.file, P, T)
    BY <2>2, <2>3, RestorableStays
  <2>6. QED
    BY <2>1, <2>4, <2>5 DEF Recoverable, O, P, T
<1>3. QED
  BY <1>1, <1>2

\* What an action that succeeds does, its undo gives back.
LEMMA RecoverableMore ==
  ASSUME TypeOK, ExecInv, NEW r \in Executions, Succeed(r),
         Recoverable(exec[r], history[r], host.file)
  PROVE  Recoverable(exec'[r], history'[r], host'.file)
<1>1. PICK sol \in Step :
        /\ exec[r].plan # << >> /\ sol = Head(exec[r].plan)
        /\ Sends(r, sol) /\ Runs(r, CommandOf(sol))
        /\ exec'[r].phase = "run" /\ exec'[r].sols = exec[r].sols
        /\ exec'[r].cmds = exec[r].cmds \o UndoOf(sol, exec[r].backup)
  BY SucceededEntry
<1> DEFINE before == history[r].host.file
           cmds   == exec[r].cmds
           f      == host.file
           g      == host'.file
           O      == Off(history[r])
           T      == Touched(exec[r].sols)
<1>2. exec[r] \in Entry /\ host \in Host
  BY TypeByName
<1>3. /\ cmds \in Seq(Command) /\ exec[r].backup \in Line /\ f \in Seq(Line)
      /\ CommandOf(sol) \in Command
  BY <1>2, CommandType DEF Entry, Host
<1>4. host' = Effect(host, CommandOf(sol)) /\ host' \in Host
  BY <1>1, <1>2, <1>3, EffectType DEF Runs, Changes
<1>5. g \in Seq(Line)
  BY <1>4 DEF Host
<1>6. history'[r] = history[r]
  BY <1>1, RunKnown
<1>7. exec[r].phase \in {"run", "edit"}
  BY <1>1 DEF Sends, Phase, Running
<1>8. Restorable(before, cmds, f, O, T)
  BY <1>7 DEF Recoverable
<1> HIDE DEF before, cmds, f, g, O, T
<1>9. Restorable(before, cmds \o UndoOf(sol, exec[r].backup), g, O, T)
  <2>1. CASE sol.action_type = "RESTART"
    <3>1. UndoOf(sol, exec[r].backup) = <<Restart>> /\ CommandOf(sol) = Restart
      BY <2>1 DEF UndoOf, CommandOf
    <3>2. g = f
      <4>1. Restart.do = "restart"
        BY DEF Restart
      <4>2. Effect(host, Restart).file = host.file
        BY <1>2, <4>1, EffectIs
      <4>3. QED
        BY <1>4, <3>1, <4>2 DEF f, g
    <3>3. Restart \in Command /\ Faithful(Restart, f, T) /\ Follows(Restart, f, g, O)
      BY <1>3, <3>1, <3>2 DEF Restart, Faithful, Follows
    <3>4. Same(f, f, O)
      BY DEF Same
    <3>5. Restorable(before, Append(cmds, Restart), g, O, T)
      BY <1>3, <1>5, <1>8, <3>3, <3>4, RestorableMore
    <3>6. QED
      BY <1>3, <3>1, <3>3, <3>5, AppendIsConcat
  <2>2. CASE sol.action_type = "EDIT_CONFIG"
    <3> DEFINE c == Pending(exec[r])
    <3>1. exec[r].phase = "edit"
      BY <1>1, <2>2 DEF Sends, Phase
    <3>2. PICK saved \in Seq(Line) : Same(f, saved, O) /\ Faithful(c, saved, T)
      BY <3>1 DEF Recoverable, f, O, T
    <3>3. c \in Command /\ c.key = sol.key
      BY <1>1, <1>3 DEF Pending, Step, Command
    <3>4. UndoOf(sol, exec[r].backup) = <<c>>
      BY <1>1, <2>2 DEF UndoOf, Pending
    <3>5. g = Edited(f, sol.key, Setting(sol.key, sol.value))
      <4>1. /\ CommandOf(sol).do = "edit" /\ CommandOf(sol).key = sol.key
            /\ CommandOf(sol).text = Setting(sol.key, sol.value)
        BY <2>2 DEF CommandOf
      <4>2. QED
        BY <1>2, <1>4, <4>1 DEF Effect, Host, f, g
    <3>6. Follows(c, f, g, O)
      <4> DEFINE k == sol.key
                 line == Setting(sol.key, sol.value)
      <4>1. line.key = k /\ line \in Line /\ g = Edited(f, k, line)
        BY <3>5, TextType DEF Setting, Step
      <4> HIDE DEF k, line
      <4>2. /\ \A key : key # k => Values(g, key) = Values(f, key)
            /\ Values(f, k) # {} => Values(g, k) # {}
        <5>1. f \in Seq(Line)
          BY <1>3
        <5>2. /\ \A key : key # k => Values(Edited(f, k, line), key) = Values(f, key)
              /\ Values(f, k) # {} => Values(Edited(f, k, line), k) # {}
          BY SMTT(20), <4>1, <5>1, EditedValues
        <5>3. QED
          BY <4>1, <5>2
      <4>3. c.do = "sed"
        BY DEF Pending
      <4>4. QED
        BY <3>3, <4>2, <4>3 DEF Follows, k
    <3> HIDE DEF c
    <3>7. Restorable(before, Append(cmds, c), g, O, T)
      BY <1>3, <1>5, <1>8, <3>2, <3>3, <3>6, RestorableMore
    <3>8. QED
      BY <1>3, <3>3, <3>4, <3>7, AppendIsConcat
  <2>3. CASE sol.action_type \notin {"RESTART", "EDIT_CONFIG"}
    <3>1. UndoOf(sol, exec[r].backup) = << >> /\ CommandOf(sol) = Clean
      BY <2>3 DEF UndoOf, CommandOf
    <3>2. g = f
      <4>1. Clean.do = "clean"
        BY DEF Clean
      <4>2. Effect(host, Clean).file = host.file
        BY <1>2, <4>1, EffectIs
      <4>3. QED
        BY <1>4, <3>1, <4>2 DEF f, g
    <3>3. cmds \o << >> = cmds
      BY <1>3
    <3>4. QED
      BY <1>8, <3>1, <3>2, <3>3
  <2>4. QED
    BY <2>1, <2>2, <2>3
<1>10. ToSet(exec'[r].plan) \subseteq ToSet(exec[r].sols)
  <2>1. ToSet(exec'[r].plan) \subseteq ToSet(exec[r].plan)
    BY PlanShrinks DEF StepOf
  <2>2. QED
    BY <2>1 DEF Recoverable
<1>11. QED
  BY <1>1, <1>6, <1>9, <1>10 DEF Recoverable, before, cmds, g, O, T

\* A command that is undone brings the execution one step back.
LEMMA RecoverableLess ==
  ASSUME TypeOK, NEW r \in Executions, exec[r].phase = "undo", exec[r].cmds # << >>,
         Runnable(Head(exec[r].cmds)), Runs(r, Head(exec[r].cmds)),
         exec' = [exec EXCEPT ![r].cmds = Tail(exec[r].cmds)],
         Recoverable(exec[r], history[r], host.file)
  PROVE  Recoverable(exec'[r], history'[r], host'.file)
<1> DEFINE before == history[r].host.file
           cmds   == exec[r].cmds
           c      == Head(cmds)
           O      == Off(history[r])
           T      == Touched(exec[r].sols)
<1>1. exec \in [Executions -> Entry] /\ exec[r] \in Entry /\ host \in Host
  BY TypeByName
<1>2. cmds \in Seq(Command) /\ exec'[r].phase = "undo" /\ exec'[r].cmds = Tail(cmds)
      /\ exec'[r].sols = exec[r].sols /\ exec'[r].plan = exec[r].plan
  BY <1>1 DEF Entry
<1>3. /\ Reverse(Tail(cmds)) \in Seq(Command) /\ c \in Command
      /\ Reverse(cmds) = Append(Reverse(Tail(cmds)), c)
  BY <1>2, ReverseMore
<1>4. Restoring(before, Append(Reverse(Tail(cmds)), c), host.file, O, T)
  BY <1>3 DEF Recoverable
<1>5. host' = Effect(host, c)
  BY DEF Runs, Changes
<1>6. Runnable(c)
  OBVIOUS
<1>7. history'[r] = history[r]
  BY RunKnown
<1> HIDE DEF before, cmds, c, O, T
<1>8. Restoring(before, Reverse(Tail(cmds)), Effect(host, c).file, O, T)
  BY <1>1, <1>3, <1>4, <1>6, RestoringLess
<1>9. QED
  BY <1>2, <1>5, <1>7, <1>8 DEF Recoverable, before, cmds, O, T

\* A step on which nothing happens to the host.
LEMMA QuietStep ==
  ASSUME TypeOK, RollbackInv, NEW r \in Executions, StepOf(r),
         UNCHANGED <<host, late, history>>,
         history[r].spoiled = {} => Recoverable(exec'[r], history[r], host.file)
  PROVE  RollbackInv'
<1>1. \A q \in Executions : history[q].spoiled = {} =>
        Recoverable(exec'[q], history[q], host.file)
  BY OwnStep DEF RollbackInv
<1>2. late' = late /\ history' = history /\ host' = host
  OBVIOUS
<1>3. QED
  BY <1>1, <1>2 DEF RollbackInv

\* A step on which a command is not heard of.
LEMMA SpoiledStep ==
  ASSUME TypeOK, RollbackInv, NEW r \in Executions, StepOf(r), Spoil(r), UNCHANGED host,
         UNCHANGED late \/ \E c : GivenUp(r, c)
  PROVE  RollbackInv'
<1>1. history'[r].spoiled # {} /\ \A q \in Executions \ {r} : history'[q] = history[q]
  BY SpoilType
<1>2. \A q \in Executions : history'[q].spoiled = {} =>
        Recoverable(exec'[q], history'[q], host'.file)
  BY <1>1, OwnStep DEF RollbackInv
<1>3. \A l \in late' : l.by = r \/ (l \in late /\ l.by \in Executions)
  BY TypeByName DEF GivenUp, Late
<1>4. LateSpoils(late', history')
  BY <1>1, <1>3 DEF RollbackInv, LateSpoils
<1>5. QED
  BY <1>2, <1>4 DEF RollbackInv

\* A step on which the host changes.
LEMMA ChangeStep ==
  ASSUME TypeOK, RollbackInv, NEW r \in Executions, NEW h \in Host, NEW own,
         Changes(r, h, own), history[r].spoiled \subseteq own.spoiled,
         late' \subseteq late, \A q \in Executions \ {r} : exec'[q] = exec[q],
         own.spoiled = {} => Recoverable(exec'[r], own, h.file)
  PROVE  RollbackInv'
<1>1. /\ history'[r] = own /\ host' = h
      /\ \A q \in Executions \ {r} : history'[q].spoiled = history[q].spoiled
  BY ChangeKnown
<1>2. ASSUME NEW q \in Executions, q # r, history'[q].spoiled = {}
      PROVE  Recoverable(exec'[q], history'[q], host'.file)
  <2>1. Recoverable(exec[q], history[q], host.file)
    BY <1>1, <1>2 DEF RollbackInv
  <2>2. Recoverable(exec[q], history'[q], host'.file)
    BY <1>2, <2>1, RecoverableStays
  <2>3. exec'[q] = exec[q]
    BY <1>2
  <2>4. QED
    BY <2>2, <2>3
<1>3. LateSpoils(late', history')
  <2>1. \A l \in late' : l \in late /\ l.by \in Executions
    BY TypeByName DEF Late
  <2>2. \A l \in late' : history[l.by].spoiled # {}
    BY <2>1 DEF RollbackInv, LateSpoils
  <2>3. QED
    BY <1>1, <2>1, <2>2 DEF LateSpoils
<1>4. QED
  BY <1>1, <1>2, <1>3 DEF RollbackInv

\* A step into a phase of which the same is known.
LEMMA SameKnown ==
  ASSUME TypeOK, RollbackInv, NEW r \in Executions, history[r].spoiled = {}, StepOf(r),
         exec[r].phase \in {"run", "edit", "commit", "refresh"},
         exec'[r].phase \in {"run", "commit", "refresh"}, exec'[r].cmds = exec[r].cmds,
         NEW past, past.host = history[r].host, past.others = history[r].others
  PROVE  Recoverable(exec'[r], past, host.file)
<1>1. Recoverable(exec[r], history[r], host.file) /\ Off(past) = Off(history[r])
  BY DEF RollbackInv, Off
<1>2. QED
  BY <1>1, PlanShrinks DEF Recoverable

\* The invariant is kept.
LEMMA RollbackKept ==
  ASSUME TypeOK, ExecInv, RollbackInv, [Next]_vars
  PROVE  RollbackInv'
<1>1. exec \in [Executions -> Entry] /\ host \in Host /\ late \subseteq Late
      /\ \A q \in Executions : exec[q] \in Entry
  BY TypeByName
<1>2. ASSUME NEW r \in Executions, Load(r) PROVE RollbackInv'
  <2>1. exec'[r].phase = "run" /\ exec'[r].cmds = << >>
    BY <1>1, <1>2 DEF Load, ExecInv, Consistent, Phase, Entry
  <2>2. /\ history'[r].host = host /\ history'[r].spoiled = history[r].spoiled
        /\ \A q \in Executions \ {r} : history'[q] = history[q]
    BY <1>2 DEF Load, TypeOK
  <2>3. Restorable(host.file, << >>, host.file, Off(history'[r]), Touched(exec'[r].sols))
    BY <1>1, RestorableAtFirst DEF Host
  <2>4. ToSet(exec'[r].plan) \subseteq ToSet(exec'[r].sols)
    BY <1>1, <1>2 DEF Load, ExecInv, Consistent, Phase, Entry
  <2>5. Recoverable(exec'[r], history'[r], host.file)
    BY <2>1, <2>2, <2>3, <2>4 DEF Recoverable
  <2>6. StepOf(r) /\ UNCHANGED <<host, late>>
    BY <1>2 DEF StepOf, Load
  <2>7. \A q \in Executions : history'[q].spoiled = {} =>
          Recoverable(exec'[q], history'[q], host.file)
    BY <2>2, <2>5, <2>6, OwnStep DEF RollbackInv
  <2>8. LateSpoils(late, history')
    BY <1>1, <2>2 DEF RollbackInv, LateSpoils, Late
  <2>9. QED
    BY <2>6, <2>7, <2>8 DEF RollbackInv
<1>3. ASSUME NEW r \in Executions, Skip(r) PROVE RollbackInv'
  <2>1. exec[r].phase = "run" /\ exec'[r].phase = "run" /\ exec'[r].cmds = exec[r].cmds
    BY <1>1, <1>3 DEF Skip, Running, Phase, Entry
  <2>2. UNCHANGED <<host, late, history>> /\ StepOf(r)
    BY <1>3 DEF Skip, StepOf
  <2>3. QED
    BY <2>1, <2>2, SameKnown, QuietStep
<1>4. ASSUME NEW r \in Executions, SaveBackup(r) PROVE RollbackInv'
  <2>1. StepOf(r) /\ UNCHANGED <<host, late>>
    BY <1>4 DEF StepOf, SaveBackup
  <2>2. CASE Spoil(r)
    BY <2>1, <2>2, SpoiledStep
  <2>3. CASE /\ exec' = [exec EXCEPT ![r].phase = "edit",
                                     ![r].backup = Backup(host.file, Head(exec[r].plan).key)]
             /\ UNCHANGED history
    <3> DEFINE b == Backup(host.file, Head(exec[r].plan).key)
               e == [exec[r] EXCEPT !.phase = "edit", !.backup = b]
    <3>1. exec'[r] = e
      BY <1>1, <2>3
    <3> HIDE DEF b
    <3>2. /\ e.phase = "edit" /\ e.backup = b /\ e.cmds = exec[r].cmds
          /\ e.plan = exec[r].plan
      BY <1>1 DEF Entry
    <3>3. exec[r].phase = "run" /\ exec[r].plan # << >> /\ exec[r].plan \in Seq(Step)
      BY <1>1, <1>4 DEF SaveBackup, Running, Phase, Entry
    <3>4. Head(exec[r].plan).key \in Keys /\ host.file \in Seq(Line)
      <4>1. Head(exec[r].plan) \in Step
        BY <3>3
      <4>2. QED
        BY <1>1, <4>1 DEF Step, Host
    <3> DEFINE T == Touched(exec[r].sols)
    <3> DEFINE c == Pending(exec'[r])
    <3>5. c.do = "sed" /\ c.key = Head(exec[r].plan).key /\ c.text = b
      BY <3>1, <3>2 DEF Pending
    <3>6. c \in Command
      BY <3>1, <3>2, <3>4, BackupType DEF Pending, Command, b
    <3>7. history[r].spoiled = {} => Faithful(c, host.file, T)
      <4> HIDE DEF c
      <4>1. c.text = Backup(host.file, c.key)
        BY <3>5 DEF b
      <4>2. ASSUME history[r].spoiled = {}
            PROVE  c.key \in T /\ \A key \in Keys : <<c.key, key>> \in Longer => key \in T
        <5>1. Head(exec[r].plan) \in ToSet(exec[r].plan)
          BY <3>3, TailWithin
        <5>2. Head(exec[r].plan) \in ToSet(exec[r].sols)
          BY <4>2, <5>1 DEF RollbackInv, Recoverable
        <5>3. Head(exec[r].plan).action_type = "EDIT_CONFIG"
          BY <1>4 DEF SaveBackup
        <5>4. QED
          BY <3>4, <3>5, <5>2, <5>3 DEF Touched, ToSet
      <4>3. QED
        BY <3>4, <3>5, <3>6, <4>1, <4>2, BackupFaithful
    <3>8. Same(host.file, host.file, Off(history[r]))
      BY DEF Same
    <3>9. history[r].spoiled = {} => Recoverable(exec'[r], history[r], host.file)
      <4>1. exec'[r].sols = exec[r].sols /\ exec'[r].plan = exec[r].plan
        BY <3>1, <3>2, <1>1 DEF Entry
      <4> HIDE DEF e, c
      <4>2. ASSUME history[r].spoiled = {} PROVE Recoverable(exec'[r], history[r], host.file)
        <5>1. Recoverable(exec[r], history[r], host.file)
          BY <4>2 DEF RollbackInv
        <5>2. Faithful(Pending(exec'[r]), host.file, T)
          BY <3>7, <4>2 DEF c
        <5>3. QED
          BY <3>1, <3>2, <3>3, <3>4, <3>8, <4>1, <5>1, <5>2 DEF Recoverable
      <4>3. QED
        BY <4>2
    <3>10. QED
      BY <2>1, <2>3, <3>9, QuietStep
  <2>4. QED
    BY <1>4, <2>2, <2>3 DEF SaveBackup
<1>5. ASSUME NEW r \in Executions, Succeed(r) PROVE RollbackInv'
  <2>1. PICK sol \in Step : Runs(r, CommandOf(sol)) /\ UNCHANGED late
    BY <1>5, SucceededEntry
  <2>2. Effect(host, CommandOf(sol)) \in Host
    BY <1>1, CommandType, EffectType
  <2>3. StepOf(r)
    BY <1>5 DEF StepOf
  <2>4. history[r].spoiled = {} => Recoverable(exec'[r], history'[r], host'.file)
    BY <1>5, RecoverableMore DEF RollbackInv
  <2>5. \A q \in Executions \ {r} : exec'[q] = exec[q]
    BY <2>3, OwnStep
  <2>6. Changes(r, Effect(host, CommandOf(sol)), history[r])
    BY <2>1 DEF Runs
  <2>7. history'[r] = history[r] /\ host' = Effect(host, CommandOf(sol))
    BY <2>1, RunKnown
  <2>8. QED
    BY <2>1, <2>2, <2>4, <2>5, <2>6, <2>7, ChangeStep
<1>6. ASSUME NEW r \in Executions, Fail(r) PROVE RollbackInv'
  <2>1. exec[r].phase \in {"run", "edit"} /\ Leave(r) /\ UNCHANGED late
    BY <1>6 DEF Fail, Sends, Running, Phase
  <2>2. StepOf(r)
    BY <1>6 DEF StepOf
  <2>3. exec'[r].phase = "commit" /\ exec'[r].cmds = exec[r].cmds
    BY <2>1, LeftEntry
  <2>4. CASE UNCHANGED <<host, history>>
    BY <2>1, <2>2, <2>3, <2>4, SameKnown, QuietStep
  <2>5. CASE \E sol \in ToSet(exec[r].plan) :
               FailsToRestart(r, CommandOf(sol),
                 [history[r] EXCEPT !.broken = Restart \notin ToSet(exec[r].cmds)])
    <3> DEFINE own == [history[r] EXCEPT !.broken = Restart \notin ToSet(exec[r].cmds)]
               h   == [host EXCEPT !.up = FALSE]
    <3>1. Changes(r, h, own)
      BY <2>5 DEF FailsToRestart
    <3>2. /\ own.host = history[r].host /\ own.others = history[r].others
          /\ own.spoiled = history[r].spoiled
      BY DEF TypeOK, Past
    <3>3. h \in Host /\ h.file = host.file
      BY <1>1 DEF Host
    <3> HIDE DEF own, h
    <3>4. own.spoiled = {} => Recoverable(exec'[r], own, h.file)
      BY <2>1, <2>2, <2>3, <3>2, <3>3, SameKnown
    <3>5. \A q \in Executions \ {r} : exec'[q] = exec[q]
      BY <2>2, OwnStep
    <3>6. QED
      BY <2>1, <3>1, <3>2, <3>3, <3>4, <3>5, ChangeStep
  <2>6. QED
    BY <1>6, <2>4, <2>5 DEF Fail
<1>7. ASSUME NEW r \in Executions, TimeOut(r) PROVE RollbackInv'
  <2>1. Spoil(r) /\ UNCHANGED host /\ StepOf(r) /\ \E c : GivenUp(r, c)
    BY <1>7 DEF TimeOut, StepOf
  <2>2. QED
    BY <2>1, SpoiledStep
<1>8. ASSUME NEW r \in Executions, Report(r) PROVE RollbackInv'
  <2>1. exec'[r].phase = "reported"
    BY <1>1, <1>8 DEF Report, Entry
  <2>2. UNCHANGED <<host, late, history>> /\ StepOf(r)
    BY <1>8 DEF Report, StepOf
  <2>3. history[r].spoiled = {} => Recoverable(exec'[r], history[r], host.file)
    BY <2>1, <2>2, PlanShrinks DEF RollbackInv, Recoverable
  <2>4. QED
    BY <2>2, <2>3, QuietStep
<1>9. ASSUME NEW r \in Executions, Transition(r) PROVE RollbackInv'
  <2>1. UNCHANGED <<host, late, history>> /\ StepOf(r)
    BY <1>9 DEF Transition, StepOf
  <2>2. CASE exec[r].phase = "commit" /\ exec' = [exec EXCEPT ![r].phase = "refresh"]
    <3>1. exec'[r].phase = "refresh" /\ exec'[r].cmds = exec[r].cmds
      BY <1>1, <2>2 DEF Entry
    <3>2. QED
      BY <2>1, <2>2, <3>1, SameKnown, QuietStep
  <2>3. CASE /\ exec[r].phase = "refresh"
             /\ exec' = [exec EXCEPT ![r].phase = "undo",
                                     ![r].cmds = RollbackOrder(exec[r].cmds)]
    <3> DEFINE e == [exec[r] EXCEPT !.phase = "undo", !.cmds = RollbackOrder(exec[r].cmds)]
    <3>1. exec'[r] = e
      BY <1>1, <2>3
    <3>2. e.phase = "undo" /\ e.cmds = Reverse(exec[r].cmds)
      BY <1>1 DEF Entry, RollbackOrder
    <3>3. exec[r].cmds \in Seq(Command)
      BY <1>1 DEF Entry
    <3>4. Reverse(e.cmds) = exec[r].cmds
      BY <3>2, <3>3, ReverseTwice
    <3>5. history[r].spoiled = {} => Recoverable(exec'[r], history[r], host.file)
      <4>1. /\ exec'[r].sols = exec[r].sols
            /\ ToSet(exec'[r].plan) \subseteq ToSet(exec[r].plan)
        BY <2>1, PlanShrinks
      <4>2. exec'[r].phase = "undo" /\ Reverse(exec'[r].cmds) = exec[r].cmds
        BY <3>1, <3>2, <3>4
      <4>3. ASSUME history[r].spoiled = {} PROVE Recoverable(exec'[r], history[r], host.file)
        <5>1. Recoverable(exec[r], history[r], host.file)
          BY <4>3 DEF RollbackInv
        <5>2. Restoring(history[r].host.file, exec[r].cmds, host.file, Off(history[r]),
                        Touched(exec[r].sols))
          BY <2>3, <5>1, RestoringAtFirst DEF Recoverable
        <5>3. QED
          BY <4>1, <4>2, <5>1, <5>2 DEF Recoverable
      <4>4. QED
        BY <4>3
    <3>6. QED
      BY <2>1, <3>5, QuietStep
  <2>4. QED
    BY <1>9, <2>2, <2>3 DEF Transition, Phase
<1>10. ASSUME NEW r \in Executions, Undo(r) PROVE RollbackInv'
  <2> DEFINE c == Head(exec[r].cmds)
  <2>1. /\ exec[r].phase = "undo" /\ exec[r].cmds # << >> /\ StepOf(r)
        /\ exec' = [exec EXCEPT ![r].cmds = Tail(exec[r].cmds)]
    BY <1>10 DEF Undo, Phase, StepOf
  <2>2. c \in Command
    BY <1>1, <2>1 DEF Entry
  <2>3. \A q \in Executions \ {r} : exec'[q] = exec[q]
    BY <2>1, OwnStep
  <2>4. CASE Runnable(c) /\ Runs(r, c) /\ UNCHANGED late
    <3>1. history[r].spoiled = {} => Recoverable(exec'[r], history'[r], host'.file)
      BY <2>1, <2>4, RecoverableLess DEF RollbackInv
    <3>2. Changes(r, Effect(host, c), history[r])
      BY <2>4 DEF Runs
    <3>3. history'[r] = history[r] /\ host' = Effect(host, c)
      BY <2>4, RunKnown
    <3>4. Effect(host, c) \in Host
      BY <1>1, <2>2, EffectType
    <3>5. QED
      BY <2>3, <2>4, <3>1, <3>2, <3>3, <3>4, ChangeStep
  <2>5. CASE Spoil(r) /\ UNCHANGED <<host, late>>
    BY <2>1, <2>5, SpoiledStep
  <2>6. CASE FailsToRestart(r, c, Spoilt(r)) /\ UNCHANGED late
    <3>1. Changes(r, [host EXCEPT !.up = FALSE], Spoilt(r))
      BY <2>6 DEF FailsToRestart
    <3>2. [host EXCEPT !.up = FALSE] \in Host
      BY <1>1 DEF Host
    <3>3. Spoilt(r).spoiled # {} /\ history[r].spoiled \subseteq Spoilt(r).spoiled
      BY SpoiltType
    <3>4. QED
      BY <2>3, <2>6, <3>1, <3>2, <3>3, ChangeStep
  <2>7. CASE GivenUp(r, c) /\ Spoil(r) /\ UNCHANGED host
    BY <2>1, <2>7, SpoiledStep
  <2>8. QED
    BY <1>10, <2>4, <2>5, <2>6, <2>7 DEF Undo
<1>11. ASSUME NEW r \in Executions, Conclude(r) PROVE RollbackInv'
  <2>1. /\ exec[r].phase = "undo" /\ exec[r].cmds = << >> /\ exec'[r].phase = "concluded"
    BY <1>1, <1>11 DEF Conclude, Phase, Entry
  <2>2. Reverse(<< >>) = << >>
    BY DEF Reverse
  <2>3. UNCHANGED <<host, late, history>> /\ StepOf(r)
    BY <1>11 DEF Conclude, StepOf
  <2>4. history[r].spoiled = {} => Recoverable(exec'[r], history[r], host.file)
    BY <2>1, <2>2, <2>3, PlanShrinks DEF RollbackInv, Recoverable
  <2>5. QED
    BY <2>3, <2>4, QuietStep
<1>12. ASSUME LateEffect PROVE RollbackInv'
  <2>1. PICK l \in late : /\ Runs(l.by, l.cmd) \/ FailsToRestart(l.by, l.cmd, history[l.by])
                          /\ late' = late \ {l} /\ UNCHANGED exec
    BY <1>12 DEF LateEffect
  <2>2. l.by \in Executions /\ l.cmd \in Command /\ history[l.by].spoiled # {}
    BY <1>1 DEF Late, RollbackInv, LateSpoils
  <2>3. Effect(host, l.cmd) \in Host /\ [host EXCEPT !.up = FALSE] \in Host
    BY <1>1, <2>2, EffectType DEF Host
  <2>4. PICK h \in Host : Changes(l.by, h, history[l.by])
    BY <2>1, <2>3 DEF Runs, FailsToRestart
  <2>5. QED
    BY <2>1, <2>2, <2>4, ChangeStep
<1>13. CASE UNCHANGED vars
  BY <1>13 DEF vars, RollbackInv
<1>14. QED
  BY <1>2, <1>3, <1>4, <1>5, <1>6, <1>7, <1>8, <1>9, <1>10, <1>11, <1>12, <1>13 DEF Next

LEMMA RollbackAlways ==
  Spec => []RollbackInv
<1>1. Init => RollbackInv
  <2> SUFFICES ASSUME Init PROVE RollbackInv
    OBVIOUS
  <2>1. \A r \in Executions : exec[r].phase = "accepted" /\ exec[r].plan = exec[r].sols
    BY DEF Init
  <2>2. QED
    BY <2>1 DEF Init, RollbackInv, LateSpoils, Recoverable
<1>2. TypeOK /\ ExecInv /\ RollbackInv /\ [Next]_vars => RollbackInv'
  BY RollbackKept
<1>3. QED
  BY <1>1, <1>2, AgentTyped, ExecAlways, PTL DEF Spec

\* KeysRestored: whatever the plans and the file are, however often a key is
\* edited and whoever is at work beside it, a rollback all of whose commands
\* were answered gives every key that nobody else has changed the values it
\* had, but for an UNKNOWN it may leave where there was none, and for a key the
\* plan edits whose old value sed interprets, which keeps some value.
THEOREM RollbackRestoresKeys ==
  Spec => []KeysRestored
<1>1. RollbackInv => KeysRestored
  <2> SUFFICES ASSUME RollbackInv, NEW r \in Executions, RolledBack(r),
                      NEW key \in Differs(host.file, history[r].host.file) \ history[r].others
               PROVE  \/ /\ Values(history[r].host.file, key) = {}
                         /\ Values(host.file, key) = {"UNKNOWN"}
                      \/ /\ key \in Touched(exec[r].sols)
                         /\ Values(history[r].host.file, key) \cap Special # {}
                         /\ Values(host.file, key) # {}
    BY DEF KeysRestored
  <2> DEFINE before == history[r].host.file
             O == Off(history[r])
             T == Touched(exec[r].sols)
  <2>1. Restoring(before, << >>, host.file, O, T)
    BY DEF RollbackInv, Recoverable, RolledBack, Phase
  <2>2. PICK S : Same(S[0], before, O) /\ Like(host.file, S[Len(<< >>)], O, T)
    BY <2>1 DEF Restoring
  <2>3. Len(<< >>) = 0
    OBVIOUS
  <2>4. Values(host.file, key) # Values(before, key) /\ key # "" /\ key \notin O
    BY DEF Differs, KeysOf, Off
  <2> HIDE DEF T, O, before
  <2>5. Values(S[0], key) = Values(before, key)
    BY <2>2, <2>4 DEF Same
  <2>6. \/ Values(host.file, key) = Values(S[0], key)
        \/ Values(S[0], key) = {} /\ Values(host.file, key) = {"UNKNOWN"}
        \/ key \in T /\ Values(S[0], key) \cap Special # {} /\ Values(host.file, key) # {}
    BY <2>2, <2>3, <2>4 DEF Like
  <2>7. QED
    BY <2>4, <2>5, <2>6 DEF before, T
<1>2. QED
  BY <1>1, RollbackAlways, PTL

-----------------------------------------------------------------------------
(***************************************************************************)
(* The service.                                                            *)
(***************************************************************************)
\* What a plan that restarts first leaves behind: once it has edited it will
\* not restart, and what it did first, if it did restart, was a restart; the
\* service runs with what it ran with before, or will be restarted last, or its
\* first restart has left it down.
Traced(plan, cmds, past, h) ==
  /\ RestartsComeFirst(plan)
  /\ \A i \in 1 .. Len(cmds) : cmds[i].do \in {"sed", "restart"}
  /\ \A i \in 1 .. Len(cmds) : cmds[i].do = "sed" =>
       \A j \in DOMAIN plan : plan[j].action_type # "RESTART"
  /\ \A i \in 1 .. Len(cmds) : cmds[i].do = "restart" => cmds[1].do = "restart"
  /\ \/ h.up = past.host.up /\ h.loaded = past.host.loaded
     \/ cmds # << >> /\ cmds[1].do = "restart"
     \/ past.broken /\ ~h.up

\* The same while it is undone: or it has been restarted last.
Retraced(cmds, past, h) ==
  \/ Traced(<< >>, cmds, past, h)
  \/ cmds = << >> /\ h.up /\ Differs(h.loaded, h.file) = {}

Serviced(e, past, h) ==
  /\ e.phase \in {"run", "edit", "commit", "refresh"} => Traced(e.plan, e.cmds, past, h)
  /\ e.phase = "undo" => Retraced(Reverse(e.cmds), past, h)
  /\ e.phase = "concluded" => Retraced(<< >>, past, h)

\* What ServiceRestored is about.
Alone(e, past) == past.spoiled = {} /\ past.others = {} /\ RestartsComeFirst(e.sols)

ServiceInv ==
  \A r \in Executions : Alone(exec[r], history[r]) => Serviced(exec[r], history[r], host)

\* A plan that restarts first goes on as one.
LEMMA RestartsFirstTail ==
  ASSUME NEW plan \in Seq(Step), plan # << >>, RestartsComeFirst(plan)
  PROVE  /\ RestartsComeFirst(Tail(plan))
         /\ Head(plan).action_type = "EDIT_CONFIG" =>
              \A j \in DOMAIN Tail(plan) : Tail(plan)[j].action_type # "RESTART"
         /\ \A j \in DOMAIN Tail(plan) : j + 1 \in DOMAIN plan /\ Tail(plan)[j] = plan[j + 1]
<1> DEFINE t == Tail(plan)
<1>1. /\ DOMAIN plan = 1 .. Len(plan) /\ Len(plan) \in Nat /\ Len(plan) > 0
      /\ DOMAIN t = 1 .. Len(plan) - 1 /\ Head(plan) = plan[1]
      /\ \A j \in 1 .. Len(plan) - 1 : t[j] = plan[j + 1]
  OBVIOUS
<1> HIDE DEF t
<1>2. \A j \in DOMAIN t : j \in Nat /\ j + 1 \in DOMAIN plan /\ t[j] = plan[j + 1]
  BY <1>1
<1>3. \A i, j \in DOMAIN plan :
        plan[i].action_type = "EDIT_CONFIG" /\ plan[j].action_type = "RESTART" => j < i
  BY DEF RestartsComeFirst
<1>4. ASSUME NEW i \in DOMAIN t, NEW j \in DOMAIN t, t[i].action_type = "EDIT_CONFIG",
             t[j].action_type = "RESTART"
      PROVE  j < i
  <2>1. j + 1 < i + 1
    BY <1>2, <1>3, <1>4
  <2>2. QED
    BY <1>2, <2>1
<1>5. ASSUME Head(plan).action_type = "EDIT_CONFIG", NEW j \in DOMAIN t,
             t[j].action_type = "RESTART"
      PROVE  FALSE
  <2>1. 1 \in DOMAIN plan /\ plan[1].action_type = "EDIT_CONFIG"
    BY <1>1, <1>5
  <2>2. j + 1 < 1
    BY <1>2, <1>3, <1>5, <2>1
  <2>3. QED
    BY <1>2, <2>2
<1>6. QED
  BY <1>2, <1>4, <1>5 DEF RestartsComeFirst, t

\* The next step is not what the plan is traced by.
LEMMA TracedSkip ==
  ASSUME NEW plan \in Seq(Step), plan # << >>, NEW cmds, NEW past, NEW h,
         Traced(plan, cmds, past, h)
  PROVE  Traced(Tail(plan), cmds, past, h)
BY RestartsFirstTail DEF Traced

\* An edit is done and remembered.
LEMMA TracedEdit ==
  ASSUME NEW plan \in Seq(Step), plan # << >>, Head(plan).action_type = "EDIT_CONFIG",
         NEW cmds \in Seq(Command), NEW past, NEW h, Traced(plan, cmds, past, h),
         NEW c \in Command, c.do = "sed", NEW g, g.loaded = h.loaded, g.up = h.up
  PROVE  Traced(Tail(plan), Append(cmds, c), past, g)
<1> DEFINE n == Len(cmds)
           t == Append(cmds, c)
<1>1. /\ n \in Nat /\ Len(t) = n + 1 /\ t[n + 1] = c /\ t # << >>
      /\ \A i \in 1 .. n : t[i] = cmds[i]
  BY AppendProperties
<1>2. \A i \in 1 .. Len(t) : i \in 1 .. n \/ i = n + 1
  BY <1>1
<1>3. cmds # << >> => 1 \in 1 .. n
  BY <1>1
<1> HIDE DEF t
<1>4. /\ RestartsComeFirst(Tail(plan))
      /\ \A j \in DOMAIN Tail(plan) : Tail(plan)[j].action_type # "RESTART"
  BY RestartsFirstTail DEF Traced
<1>5. \A i \in 1 .. Len(t) : t[i].do \in {"sed", "restart"}
  BY <1>1, <1>2 DEF Traced
<1>6. ASSUME NEW i \in 1 .. Len(t), t[i].do = "restart" PROVE t[1].do = "restart"
  <2>1. i \in 1 .. n
    BY <1>1, <1>2, <1>6
  <2>2. cmds[1].do = "restart" /\ 1 \in 1 .. n
    BY <1>1, <1>6, <2>1 DEF Traced
  <2>3. QED
    BY <1>1, <2>2
<1>7. \/ g.up = past.host.up /\ g.loaded = past.host.loaded
      \/ t # << >> /\ t[1].do = "restart"
      \/ past.broken /\ ~g.up
  BY <1>1, <1>3 DEF Traced
<1>8. QED
  BY <1>4, <1>5, <1>6, <1>7 DEF Traced, t

\* A restart is done and remembered.
LEMMA TracedRestart ==
  ASSUME NEW plan \in Seq(Step), plan # << >>, Head(plan).action_type = "RESTART",
         NEW cmds \in Seq(Command), NEW past, NEW h, Traced(plan, cmds, past, h),
         NEW c \in Command, c.do = "restart", NEW g
  PROVE  Traced(Tail(plan), Append(cmds, c), past, g)
<1> DEFINE n == Len(cmds)
           t == Append(cmds, c)
<1>1. /\ n \in Nat /\ Len(t) = n + 1 /\ t[n + 1] = c /\ t # << >>
      /\ \A i \in 1 .. n : t[i] = cmds[i]
  BY AppendProperties
<1>2. \A i \in 1 .. Len(t) : i \in 1 .. n \/ i = n + 1
  BY <1>1
<1> HIDE DEF t
<1>3. RestartsComeFirst(Tail(plan))
  BY RestartsFirstTail DEF Traced
<1>4. 1 \in DOMAIN plan /\ plan[1].action_type = "RESTART"
  OBVIOUS
<1>5. \A i \in 1 .. n : cmds[i].do = "restart"
  BY <1>4 DEF Traced
<1>6. \A i \in 1 .. Len(t) : t[i].do = "restart"
  BY <1>1, <1>2, <1>5
<1>7. 1 \in 1 .. Len(t)
  BY <1>1
<1>8. QED
  BY <1>1, <1>3, <1>6, <1>7 DEF Traced, t

\* The last command is undone.
LEMMA RetracedLess ==
  ASSUME NEW cmds \in Seq(Command), NEW c \in Command, NEW past, NEW h \in Host,
         Retraced(Append(cmds, c), past, h)
  PROVE  Retraced(cmds, past, Effect(h, c))
<1> DEFINE n == Len(cmds)
           t == Append(cmds, c)
           g == Effect(h, c)
<1>1. /\ n \in Nat /\ Len(t) = n + 1 /\ t[n + 1] = c /\ t # << >>
      /\ \A i \in 1 .. n : t[i] = cmds[i]
  BY AppendProperties
<1>2. \A i \in 1 .. n : i \in 1 .. Len(t)
  BY <1>1
<1>3. n + 1 \in 1 .. Len(t)
  BY <1>1
<1>4. cmds # << >> => 1 \in 1 .. n
  BY <1>1
<1>5. cmds = << >> => n = 0
  OBVIOUS
<1> HIDE DEF n, t, g
<1>6. Traced(<< >>, t, past, h)
  BY <1>1 DEF Retraced, t
<1>7. /\ RestartsComeFirst(<< >>)
      /\ \A i \in 1 .. n : cmds[i].do \in {"sed", "restart"}
      /\ \A i \in 1 .. n : cmds[i].do = "sed" =>
           \A j \in DOMAIN << >> : << >>[j].action_type # "RESTART"
  BY <1>1, <1>2, <1>6 DEF Traced
<1>8. ASSUME NEW i \in 1 .. n, cmds[i].do = "restart" PROVE cmds[1].do = "restart"
  <2>1. t[1].do = "restart" /\ 1 \in 1 .. n
    BY <1>1, <1>2, <1>6, <1>8 DEF Traced
  <2>2. QED
    BY <1>1, <2>1
<1>9. CASE c.do = "restart"
  <2>1. g.loaded = h.file /\ g.file = h.file /\ g.up
    BY <1>9, EffectIs DEF g
  <2>2. CASE cmds = << >>
    <3>1. Differs(g.loaded, g.file) = {}
      BY <2>1 DEF Differs
    <3>2. QED
      BY <2>1, <2>2, <3>1 DEF Retraced, g
  <2>3. CASE cmds # << >>
    <3>1. t[1].do = "restart"
      BY <1>1, <1>3, <1>6, <1>9 DEF Traced
    <3>2. cmds[1].do = "restart"
      BY <1>1, <1>4, <2>3, <3>1
    <3>3. QED
      BY <1>7, <1>8, <2>3, <3>2 DEF Retraced, Traced, n, g
  <2>4. QED
    BY <2>2, <2>3
<1>10. CASE c.do # "restart"
  <2>1. g.loaded = h.loaded /\ g.up = h.up
    BY <1>10, EffectIs DEF g
  <2>2. \/ g.up = past.host.up /\ g.loaded = past.host.loaded
        \/ cmds # << >> /\ cmds[1].do = "restart"
        \/ past.broken /\ ~g.up
    <3>1. \/ h.up = past.host.up /\ h.loaded = past.host.loaded
          \/ t[1].do = "restart"
          \/ past.broken /\ ~h.up
      BY <1>6 DEF Traced
    <3>2. cmds = << >> => t[1].do # "restart"
      BY <1>1, <1>5, <1>10
    <3>3. QED
      BY <1>1, <1>4, <2>1, <3>1, <3>2
  <2>3. QED
    BY <1>7, <1>8, <2>2 DEF Retraced, Traced, n, g
<1>11. QED
  BY <1>9, <1>10

\* What others do leaves an execution serviced, as long as it is alone.
LEMMA ServicedStays ==
  ASSUME TypeOK, NEW r \in Executions, NEW h \in Host, NEW own, Changes(r, h, own),
         NEW q \in Executions, q # r, history'[q].others = {},
         Serviced(exec[q], history[q], host)
  PROVE  Serviced(exec[q], history'[q], host')
<1>1. CASE exec[q].phase = "accepted"
  BY <1>1 DEF Serviced
<1>2. CASE exec[q].phase # "accepted"
  <2>1. /\ history'[q].host = history[q].host /\ history'[q].broken = history[q].broken
        /\ history'[q].others = history[q].others \cup Differs(host.file, host'.file)
             \cup IF host'.loaded # host.loaded \/ host'.up # host.up THEN {""} ELSE {}
    BY ZenonT(30), <1>2, OthersKnow DEF Phase
  <2>2. /\ Differs(host.file, host'.file) = {}
        /\ host'.loaded = host.loaded /\ host'.up = host.up
    BY <2>1
  <2>3. Differs(host.loaded, host.file) = {} => Differs(host'.loaded, host'.file) = {}
    <3>1. ASSUME Differs(host.loaded, host.file) = {}, NEW key,
                 key \in Differs(host'.loaded, host'.file)
          PROVE  FALSE
      <4>1. key # ""
        BY <3>1 DEF Differs, KeysOf
      <4>2. Values(host'.loaded, key) # Values(host'.file, key)
        BY <3>1 DEF Differs
      <4>3. Values(host.file, key) = Values(host'.file, key)
        BY <2>2, <4>1, WhatDiffers
      <4>4. Values(host.loaded, key) = Values(host.file, key)
        BY <3>1, <4>1, WhatDiffers
      <4>5. QED
        BY <2>2, <4>2, <4>3, <4>4
    <3>2. QED
      BY <3>1
  <2>4. \A plan, cmds : Traced(plan, cmds, history[q], host) =>
                        Traced(plan, cmds, history'[q], host')
    BY <2>1, <2>2 DEF Traced
  <2>5. \A cmds : Retraced(cmds, history[q], host) => Retraced(cmds, history'[q], host')
    BY <2>2, <2>3, <2>4 DEF Retraced
  <2>6. QED
    BY <2>4, <2>5 DEF Serviced
<1>3. QED
  BY <1>1, <1>2

\* An action that succeeds leaves it serviced.
LEMMA ServicedMore ==
  ASSUME TypeOK, ExecInv, NEW r \in Executions, Succeed(r),
         Serviced(exec[r], history[r], host)
  PROVE  Serviced(exec'[r], history'[r], host') /\ exec'[r].sols = exec[r].sols
<1>1. PICK sol \in Step :
        /\ exec[r].plan # << >> /\ sol = Head(exec[r].plan)
        /\ Sends(r, sol) /\ Runs(r, CommandOf(sol))
        /\ exec'[r].phase = "run"
        /\ exec'[r].sols = exec[r].sols /\ exec'[r].plan = Tail(exec[r].plan)
        /\ exec'[r].cmds = exec[r].cmds \o UndoOf(sol, exec[r].backup)
  BY SucceededEntry
<1> DEFINE past == history[r]
           plan == exec[r].plan
           cmds == exec[r].cmds
           u    == UndoOf(sol, exec[r].backup)
<1>2. exec[r] \in Entry /\ host \in Host
  BY TypeByName
<1>3. cmds \in Seq(Command) /\ exec[r].backup \in Line /\ plan \in Seq(Step)
  BY <1>2 DEF Entry
<1>4. host' = Effect(host, CommandOf(sol))
  BY <1>1, RunKnown
<1>5. history'[r] = history[r]
  BY <1>1, RunKnown
<1>6. exec[r].phase \in {"run", "edit"}
  BY <1>1 DEF Sends, Phase, Running
<1>7. Traced(plan, cmds, past, host)
  BY <1>6 DEF Serviced
<1>8. plan # << >> /\ sol = Head(plan)
  BY <1>1
<1> HIDE DEF past, plan, cmds
<1>9. Traced(Tail(plan), cmds \o u, past, host')
  <2>1. CASE sol.action_type = "RESTART"
    <3>1. u = <<Restart>> /\ Restart.do = "restart" /\ Restart \in Command
      BY <2>1, TextType, TextAssumption DEF UndoOf, Restart, Command
    <3>2. Traced(Tail(plan), Append(cmds, Restart), past, host')
      BY <1>3, <1>7, <1>8, <2>1, <3>1, TracedRestart
    <3>3. QED
      BY <1>3, <3>1, <3>2, AppendIsConcat
  <2>2. CASE sol.action_type = "EDIT_CONFIG"
    <3> DEFINE c == [do |-> "sed", key |-> sol.key, text |-> exec[r].backup]
    <3>1. u = <<c>> /\ c.do = "sed" /\ c \in Command
      BY <1>3, <2>2 DEF UndoOf, Command, Step
    <3>2. host'.loaded = host.loaded /\ host'.up = host.up
      <4>1. CommandOf(sol).do = "edit"
        BY <2>2 DEF CommandOf
      <4>2. /\ Effect(host, CommandOf(sol)).loaded = host.loaded
            /\ Effect(host, CommandOf(sol)).up = host.up
        BY <1>2, <4>1, EffectIs
      <4>3. QED
        BY <1>4, <4>2
    <3> HIDE DEF c
    <3>3. Traced(Tail(plan), Append(cmds, c), past, host')
      BY <1>3, <1>7, <1>8, <2>2, <3>1, <3>2, TracedEdit
    <3>4. QED
      BY <1>3, <3>1, <3>3, AppendIsConcat
  <2>3. CASE sol.action_type \notin {"RESTART", "EDIT_CONFIG"}
    <3>1. u = << >> /\ CommandOf(sol) = Clean /\ Clean.do = "clean"
      BY <2>3 DEF UndoOf, CommandOf, Clean
    <3>2. Effect(host, Clean).loaded = host.loaded /\ Effect(host, Clean).up = host.up
      BY <1>2, <3>1, EffectIs
    <3>3. host'.loaded = host.loaded /\ host'.up = host.up /\ cmds \o << >> = cmds
      BY <1>3, <1>4, <3>1, <3>2
    <3>4. Traced(Tail(plan), cmds, past, host)
      BY <1>3, <1>7, <1>8, TracedSkip
    <3>5. QED
      BY <3>1, <3>3, <3>4 DEF Traced
  <2>4. QED
    BY <2>1, <2>2, <2>3
<1>10. QED
  BY <1>1, <1>5, <1>9 DEF Serviced, past, plan, cmds

\* A step on which nothing happens to the host.
LEMMA QuietService ==
  ASSUME TypeOK, ServiceInv, NEW r \in Executions, StepOf(r),
         UNCHANGED <<host, history>>, exec'[r].sols = exec[r].sols,
         Alone(exec[r], history[r]) => Serviced(exec'[r], history[r], host)
  PROVE  ServiceInv'
<1>1. \A q \in Executions : Alone(exec'[q], history[q]) => Serviced(exec'[q], history[q], host)
  BY OwnStep DEF ServiceInv, Alone
<1>2. history' = history /\ host' = host
  OBVIOUS
<1>3. QED
  BY <1>1, <1>2 DEF ServiceInv

\* A step on which a command is not heard of.
LEMMA SpoiledService ==
  ASSUME TypeOK, ServiceInv, NEW r \in Executions, StepOf(r), Spoil(r), UNCHANGED host
  PROVE  ServiceInv'
<1>1. history'[r].spoiled # {} /\ \A q \in Executions \ {r} : history'[q] = history[q]
  BY SpoilType
<1>2. QED
  BY <1>1, OwnStep DEF ServiceInv, Alone

\* A step on which the host changes.
LEMMA ChangeService ==
  ASSUME TypeOK, ServiceInv, NEW r \in Executions, NEW h \in Host, NEW own,
         Changes(r, h, own), \A q \in Executions \ {r} : exec'[q] = exec[q],
         Alone(exec'[r], own) => Serviced(exec'[r], own, h)
  PROVE  ServiceInv'
<1>1. /\ history'[r] = own /\ host' = h
      /\ \A q \in Executions \ {r} : history'[q].spoiled = history[q].spoiled
  BY ChangeKnown
<1>2. ASSUME NEW q \in Executions, q # r, history'[q].others = {}
      PROVE  history[q].others = {}
  BY ZenonT(30), <1>2, OthersKnow
<1>3. ASSUME NEW q \in Executions, Alone(exec'[q], history'[q])
      PROVE  Serviced(exec'[q], history'[q], host')
  <2>1. CASE q = r
    BY <1>1, <1>3, <2>1
  <2>2. CASE q # r
    <3>1. Alone(exec[q], history[q]) /\ history'[q].others = {}
      BY <1>1, <1>2, <1>3, <2>2 DEF Alone
    <3>2. Serviced(exec[q], history[q], host)
      BY <3>1 DEF ServiceInv
    <3>3. Serviced(exec[q], history'[q], host')
      BY <2>2, <3>1, <3>2, ServicedStays
    <3>4. QED
      BY <2>2, <3>3
  <2>3. QED
    BY <2>1, <2>2
<1>4. QED
  BY <1>3 DEF ServiceInv

\* What is left when the execution fails: a plan that is cut short is traced.
LEMMA TracedLeft ==
  ASSUME NEW plan, NEW cmds, NEW past, NEW h, Traced(plan, cmds, past, h)
  PROVE  Traced(<< >>, cmds, past, h)
BY DEF Traced, RestartsComeFirst

\* The invariant is kept.
LEMMA ServiceKept ==
  ASSUME TypeOK, ExecInv, LateSpoils(late, history), ServiceInv, [Next]_vars
  PROVE  ServiceInv'
<1>1. exec \in [Executions -> Entry] /\ host \in Host /\ late \subseteq Late
      /\ \A q \in Executions : exec[q] \in Entry
  BY TypeByName
<1>2. ASSUME NEW r \in Executions, Load(r) PROVE ServiceInv'
  <2>1. exec[r].phase = "accepted" /\ exec[r].plan = exec[r].sols /\ exec[r].cmds = << >>
    BY <1>2 DEF Load, ExecInv, Consistent, Phase
  <2>2. /\ exec'[r].phase = "run" /\ exec'[r].cmds = << >>
        /\ exec'[r].plan = exec[r].sols /\ exec'[r].sols = exec[r].sols
    BY <1>1, <1>2, <2>1 DEF Load, Entry
  <2>3. /\ history'[r].host = host
        /\ \A q \in Executions \ {r} : history'[q] = history[q]
    BY <1>2 DEF Load, TypeOK
  <2>4. StepOf(r) /\ UNCHANGED host
    BY <1>2 DEF StepOf, Load
  <2>5. RestartsComeFirst(exec[r].sols) => Traced(exec[r].sols, << >>, history'[r], host)
    BY <2>3 DEF Traced
  <2>6. Alone(exec'[r], history'[r]) => Serviced(exec'[r], history'[r], host)
    BY <2>2, <2>3, <2>5 DEF Alone, Serviced
  <2>7. \A q \in Executions : Alone(exec'[q], history'[q]) =>
                              Serviced(exec'[q], history'[q], host)
    BY <2>3, <2>4, <2>6, OwnStep DEF ServiceInv
  <2>8. QED
    BY <2>4, <2>7 DEF ServiceInv
<1>3. ASSUME NEW r \in Executions, Skip(r) PROVE ServiceInv'
  <2>1. /\ exec[r].phase = "run" /\ exec'[r].phase = "run" /\ exec'[r].cmds = exec[r].cmds
        /\ exec[r].plan # << >> /\ exec'[r].plan = Tail(exec[r].plan)
        /\ exec'[r].sols = exec[r].sols
    BY <1>1, <1>3 DEF Skip, Running, Phase, Entry
  <2>2. UNCHANGED <<host, history>> /\ StepOf(r)
    BY <1>3 DEF Skip, StepOf
  <2>3. exec[r].plan \in Seq(Step)
    BY <1>1 DEF Entry
  <2>4. Alone(exec[r], history[r]) => Serviced(exec'[r], history[r], host)
    BY <2>1, <2>3, TracedSkip DEF ServiceInv, Serviced
  <2>5. QED
    BY <2>1, <2>2, <2>4, QuietService
<1>4. ASSUME NEW r \in Executions, SaveBackup(r) PROVE ServiceInv'
  <2>1. StepOf(r) /\ UNCHANGED <<host, late>>
    BY <1>4 DEF StepOf, SaveBackup
  <2>2. CASE Spoil(r)
    BY <2>1, <2>2, SpoiledService
  <2>3. CASE UNCHANGED history
    <3>1. PICK b : exec' = [exec EXCEPT ![r] = [exec[r] EXCEPT !.phase = "edit", !.backup = b]]
      BY <1>4 DEF SaveBackup
    <3> DEFINE e == [exec[r] EXCEPT !.phase = "edit", !.backup = b]
    <3>2. exec'[r] = e
      BY <1>1, <3>1
    <3>3. e.phase = "edit" /\ e.cmds = exec[r].cmds /\ e.plan = exec[r].plan
          /\ e.sols = exec[r].sols
      BY <1>1 DEF Entry
    <3>4. exec[r].phase = "run"
      BY <1>4 DEF SaveBackup, Running, Phase
    <3>5. Alone(exec[r], history[r]) => Serviced(exec'[r], history[r], host)
      BY <3>2, <3>3, <3>4 DEF ServiceInv, Serviced
    <3>6. QED
      BY <2>1, <2>3, <3>2, <3>3, <3>5, QuietService
  <2>4. QED
    BY <1>4, <2>2, <2>3 DEF SaveBackup
<1>5. ASSUME NEW r \in Executions, Succeed(r) PROVE ServiceInv'
  <2>1. PICK sol \in Step : Runs(r, CommandOf(sol)) /\ exec'[r].sols = exec[r].sols
    BY <1>5, SucceededEntry
  <2>2. Effect(host, CommandOf(sol)) \in Host
    BY <1>1, CommandType, EffectType
  <2>3. Changes(r, Effect(host, CommandOf(sol)), history[r])
    BY <2>1 DEF Runs
  <2>4. history'[r] = history[r] /\ host' = Effect(host, CommandOf(sol))
    BY <2>1, RunKnown
  <2>5. Alone(exec[r], history[r]) => Serviced(exec'[r], history'[r], host')
    BY <1>5, ServicedMore DEF ServiceInv
  <2>6. Alone(exec'[r], history[r]) =>
          Serviced(exec'[r], history[r], Effect(host, CommandOf(sol)))
    BY <2>1, <2>4, <2>5 DEF Alone
  <2>7. \A q \in Executions \ {r} : exec'[q] = exec[q]
    BY <1>5, OwnStep DEF StepOf
  <2>8. QED
    BY <2>2, <2>3, <2>6, <2>7, ChangeService
<1>6. ASSUME NEW r \in Executions, Fail(r) PROVE ServiceInv'
  <2>1. exec[r].phase \in {"run", "edit"} /\ Leave(r)
    BY <1>6 DEF Fail, Sends, Running, Phase
  <2>2. /\ exec'[r].phase = "commit" /\ exec'[r].cmds = exec[r].cmds
        /\ exec'[r].sols = exec[r].sols /\ exec'[r].plan = << >>
    BY <2>1, LeftEntry
  <2>3. StepOf(r)
    BY <1>6 DEF StepOf
  <2>4. Alone(exec[r], history[r]) => Traced(<< >>, exec[r].cmds, history[r], host)
    BY <2>1, TracedLeft DEF ServiceInv, Serviced
  <2>5. CASE UNCHANGED <<host, history>>
    <3>1. Alone(exec[r], history[r]) => Serviced(exec'[r], history[r], host)
      BY <2>2, <2>4 DEF Serviced
    <3>2. QED
      BY <2>2, <2>3, <2>5, <3>1, QuietService
  <2>6. CASE \E sol \in ToSet(exec[r].plan) :
               FailsToRestart(r, CommandOf(sol),
                 [history[r] EXCEPT !.broken = Restart \notin ToSet(exec[r].cmds)])
    <3> DEFINE own  == [history[r] EXCEPT !.broken = Restart \notin ToSet(exec[r].cmds)]
               h    == [host EXCEPT !.up = FALSE]
               cmds == exec[r].cmds
    <3>1. Changes(r, h, own)
      BY <2>6 DEF FailsToRestart
    <3>2. /\ own.host = history[r].host /\ own.others = history[r].others
          /\ own.spoiled = history[r].spoiled /\ own.broken = (Restart \notin ToSet(cmds))
      BY DEF TypeOK, Past
    <3>3. h \in Host /\ h.up = FALSE
      BY <1>1 DEF Host
    <3>4. cmds \in Seq(Command)
      BY <1>1 DEF Entry
    <3> HIDE DEF own, h, cmds
    <3>5. ASSUME Alone(exec'[r], own) PROVE Serviced(exec'[r], own, h)
      <4>1. Traced(<< >>, cmds, history[r], host)
        BY <2>2, <2>4, <3>2, <3>5 DEF Alone, cmds
      <4>2. own.broken \/ (cmds # << >> /\ cmds[1].do = "restart")
        <5>1. ASSUME Restart \in ToSet(cmds)
              PROVE  cmds # << >> /\ cmds[1].do = "restart"
          <6>0. DOMAIN cmds = 1 .. Len(cmds)
            BY <3>4
          <6>1. PICK i \in 1 .. Len(cmds) : cmds[i] = Restart
            <7>1. \E i \in DOMAIN cmds : cmds[i] = Restart
              BY <5>1 DEF ToSet
            <7>2. QED
              BY <6>0, <7>1
          <6>2. cmds[i].do = "restart"
            <7>1. Restart.do = "restart"
              BY Zenon DEF Restart
            <7>2. QED
              BY <6>1, <7>1, Zenon
          <6>3. cmds[1].do = "restart"
            BY <4>1, <6>2 DEF Traced
          <6>4. cmds # << >>
            BY <3>4, <6>1
          <6>5. QED
            BY <6>3, <6>4
        <5>2. QED
          BY <3>2, <5>1
      <4>3. Traced(<< >>, cmds, own, h)
        BY <3>3, <4>1, <4>2 DEF Traced
      <4>4. QED
        BY <2>2, <4>3 DEF Serviced, cmds
    <3>6. \A q \in Executions \ {r} : exec'[q] = exec[q]
      BY <2>3, OwnStep
    <3>7. QED
      BY <3>1, <3>3, <3>5, <3>6, ChangeService
  <2>7. QED
    BY <1>6, <2>5, <2>6 DEF Fail
<1>7. ASSUME NEW r \in Executions, TimeOut(r) PROVE ServiceInv'
  <2>1. Spoil(r) /\ UNCHANGED host /\ StepOf(r)
    BY <1>7 DEF TimeOut, StepOf
  <2>2. QED
    BY <2>1, SpoiledService
<1>8. ASSUME NEW r \in Executions, Report(r) PROVE ServiceInv'
  <2>1. exec'[r].phase = "reported" /\ exec'[r].sols = exec[r].sols
    BY <1>1, <1>8 DEF Report, Entry
  <2>2. Serviced(exec'[r], history[r], host)
    BY <2>1 DEF Serviced
  <2>3. UNCHANGED <<host, history>> /\ StepOf(r)
    BY <1>8 DEF Report, StepOf
  <2>4. QED
    BY <2>1, <2>2, <2>3, QuietService
<1>9. ASSUME NEW r \in Executions, Transition(r) PROVE ServiceInv'
  <2>1. UNCHANGED <<host, history>> /\ StepOf(r)
    BY <1>9 DEF Transition, StepOf
  <2>2. CASE exec[r].phase = "commit" /\ exec' = [exec EXCEPT ![r].phase = "refresh"]
    <3>1. /\ exec'[r].phase = "refresh" /\ exec'[r].cmds = exec[r].cmds
          /\ exec'[r].plan = exec[r].plan /\ exec'[r].sols = exec[r].sols
      BY <1>1, <2>2 DEF Entry
    <3>2. Alone(exec[r], history[r]) => Serviced(exec'[r], history[r], host)
      BY <2>2, <3>1 DEF ServiceInv, Serviced
    <3>3. QED
      BY <2>1, <3>1, <3>2, QuietService
  <2>3. CASE /\ exec[r].phase = "refresh"
             /\ exec' = [exec EXCEPT ![r].phase = "undo",
                                     ![r].cmds = RollbackOrder(exec[r].cmds)]
    <3> DEFINE e == [exec[r] EXCEPT !.phase = "undo", !.cmds = RollbackOrder(exec[r].cmds)]
    <3>1. exec'[r] = e
      BY <1>1, <2>3
    <3>2. e.phase = "undo" /\ e.cmds = Reverse(exec[r].cmds) /\ e.sols = exec[r].sols
      BY <1>1 DEF Entry, RollbackOrder
    <3>3. exec[r].cmds \in Seq(Command) /\ exec[r].plan = << >>
      BY <1>1, <2>3 DEF Entry, ExecInv, Consistent
    <3>4. Reverse(e.cmds) = exec[r].cmds
      BY <3>2, <3>3, ReverseTwice
    <3>5. Alone(exec[r], history[r]) => Serviced(exec'[r], history[r], host)
      BY <2>3, <3>1, <3>2, <3>3, <3>4 DEF ServiceInv, Serviced, Retraced
    <3>6. QED
      BY <2>1, <3>1, <3>2, <3>5, QuietService
  <2>4. QED
    BY <1>9, <2>2, <2>3 DEF Transition, Phase
<1>10. ASSUME NEW r \in Executions, Undo(r) PROVE ServiceInv'
  <2> DEFINE c == Head(exec[r].cmds)
  <2>1. /\ exec[r].phase = "undo" /\ exec[r].cmds # << >> /\ StepOf(r)
        /\ exec' = [exec EXCEPT ![r].cmds = Tail(exec[r].cmds)]
    BY <1>10 DEF Undo, Phase, StepOf
  <2>2. /\ exec[r].cmds \in Seq(Command) /\ exec'[r].phase = "undo"
        /\ exec'[r].cmds = Tail(exec[r].cmds) /\ exec'[r].sols = exec[r].sols
    BY <1>1, <2>1 DEF Entry
  <2>3. \A q \in Executions \ {r} : exec'[q] = exec[q]
    BY <2>1, OwnStep
  <2>4. CASE Runnable(c) /\ Runs(r, c) /\ UNCHANGED late
    <3>1. /\ Reverse(Tail(exec[r].cmds)) \in Seq(Command) /\ c \in Command
          /\ Reverse(exec[r].cmds) = Append(Reverse(Tail(exec[r].cmds)), c)
      BY <2>1, <2>2, ReverseMore
    <3>2. Changes(r, Effect(host, c), history[r]) /\ Effect(host, c) \in Host
      BY <1>1, <2>4, <3>1, EffectType DEF Runs
    <3>3. ASSUME Alone(exec'[r], history[r])
          PROVE  Serviced(exec'[r], history[r], Effect(host, c))
      <4>1. Alone(exec[r], history[r])
        BY <2>2, <3>3 DEF Alone
      <4>2. Retraced(Append(Reverse(Tail(exec[r].cmds)), c), history[r], host)
        BY <2>1, <3>1, <4>1 DEF ServiceInv, Serviced
      <4> HIDE DEF c
      <4>3. Retraced(Reverse(Tail(exec[r].cmds)), history[r], Effect(host, c))
        BY <1>1, <3>1, <4>2, RetracedLess
      <4>4. QED
        BY <2>2, <4>3 DEF Serviced
    <3>4. QED
      BY <2>3, <3>2, <3>3, ChangeService
  <2>5. CASE Spoil(r) /\ UNCHANGED host
    BY <2>1, <2>5, SpoiledService
  <2>6. CASE FailsToRestart(r, c, Spoilt(r))
    <3>1. Changes(r, [host EXCEPT !.up = FALSE], Spoilt(r))
      BY <2>6 DEF FailsToRestart
    <3>2. [host EXCEPT !.up = FALSE] \in Host
      BY <1>1 DEF Host
    <3>3. ~Alone(exec'[r], Spoilt(r))
      BY SpoiltType DEF Alone
    <3>4. QED
      BY <2>3, <3>1, <3>2, <3>3, ChangeService
  <2>7. QED
    BY <1>10, <2>4, <2>5, <2>6 DEF Undo
<1>11. ASSUME NEW r \in Executions, Conclude(r) PROVE ServiceInv'
  <2>1. /\ exec[r].phase = "undo" /\ exec[r].cmds = << >>
        /\ exec'[r].phase = "concluded" /\ exec'[r].sols = exec[r].sols
    BY <1>1, <1>11 DEF Conclude, Phase, Entry
  <2>2. Reverse(<< >>) = << >>
    BY DEF Reverse
  <2>3. Alone(exec[r], history[r]) => Serviced(exec'[r], history[r], host)
    BY <2>1, <2>2 DEF ServiceInv, Serviced
  <2>4. UNCHANGED <<host, history>> /\ StepOf(r)
    BY <1>11 DEF Conclude, StepOf
  <2>5. QED
    BY <2>1, <2>3, <2>4, QuietService
<1>12. ASSUME LateEffect PROVE ServiceInv'
  <2>1. PICK l \in late : /\ Runs(l.by, l.cmd) \/ FailsToRestart(l.by, l.cmd, history[l.by])
                          /\ UNCHANGED exec
    BY <1>12 DEF LateEffect
  <2>2. l.by \in Executions /\ l.cmd \in Command /\ history[l.by].spoiled # {}
    BY <1>1 DEF Late, LateSpoils
  <2>3. ~Alone(exec'[l.by], history[l.by])
    BY <2>2 DEF Alone
  <2>4. Effect(host, l.cmd) \in Host /\ [host EXCEPT !.up = FALSE] \in Host
    BY <1>1, <2>2, EffectType DEF Host
  <2>5. PICK h \in Host : Changes(l.by, h, history[l.by])
    BY <2>1, <2>4 DEF Runs, FailsToRestart
  <2>6. QED
    BY <2>1, <2>2, <2>3, <2>5, ChangeService
<1>13. CASE UNCHANGED vars
  BY <1>13 DEF vars, ServiceInv
<1>14. QED
  BY <1>2, <1>3, <1>4, <1>5, <1>6, <1>7, <1>8, <1>9, <1>10, <1>11, <1>12, <1>13 DEF Next

\* ServiceRestored: whatever the plan and the file are, after a rollback all
\* of whose commands were answered the service runs with what it ran with
\* before, or with what the file says, or is down because the plan's first
\* restart failed; provided the plan restarts before it edits, and nobody else
\* has changed anything.
THEOREM RollbackRestoresService ==
  Spec => []ServiceRestored
<1>1. Init => ServiceInv
  <2> SUFFICES ASSUME Init PROVE ServiceInv
    OBVIOUS
  <2>1. \A r \in Executions : exec[r].phase = "accepted"
    BY DEF Init
  <2>2. QED
    BY <2>1 DEF ServiceInv, Serviced
<1>2. TypeOK /\ ExecInv /\ RollbackInv /\ ServiceInv /\ [Next]_vars => ServiceInv'
  BY ServiceKept DEF RollbackInv
<1>3. ServiceInv => ServiceRestored
  <2> SUFFICES ASSUME ServiceInv, NEW r \in Executions, RolledBack(r),
                      history[r].others = {}, RestartsComeFirst(exec[r].sols)
               PROVE  \/ /\ host.up = history[r].host.up
                         /\ host.loaded = history[r].host.loaded
                      \/ host.up /\ Differs(host.loaded, host.file) = {}
                      \/ history[r].broken /\ ~host.up
    BY DEF ServiceRestored
  <2>1. Retraced(<< >>, history[r], host)
    BY DEF ServiceInv, Serviced, Alone, RolledBack, Phase
  <2>2. QED
    BY <2>1 DEF Retraced, Traced
<1>4. QED
  BY <1>1, <1>2, <1>3, AgentTyped, ExecAlways, RollbackAlways, PTL DEF Spec

=============================================================================
