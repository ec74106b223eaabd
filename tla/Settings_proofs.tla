--------------------------- MODULE Settings_proofs ---------------------------
(***************************************************************************)
(* Of Settings, for any shipped file, requests, builds, devices and        *)
(* faults: what the handlers, the file and the MODEM have is what the      *)
(* settings say, and a restart brings the settings back.                   *)
(***************************************************************************)
EXTENDS Settings, SequenceTheorems, WellFoundedInduction, TLAPS

------------------------------------------------------------------------------
(* Folds: an entry is created, a line is read, a subsystem is started or   *)
(* stopped after the other.                                                *)

Step(kind, env, a, x) ==
  CASE kind = "create" -> CreateHandler(a, x, env)
    [] kind = "parse" -> IF x = <<>> THEN a ELSE ParseLine(a, x, env)
    [] kind = "start" -> StartOne(a, GetCpType(x), env)
    [] kind = "write" -> WithMipi(a, x)
    [] OTHER -> StopOne(a, GetCpType(x))

\* The function by which MapThenFoldSet() is defined.
Iterates(it, kind, env, base, s, n) ==
  it = [u \in SUBSET (1 .. n) |->
          IF u = {} THEN base ELSE Step(kind, env, it[u \ {Max(u)}], s[Max(u)])]

LEMMA LeastOf ==
  ASSUME NEW S \in SUBSET Nat, S # {}
  PROVE  \E i \in S : \A j \in S : i <= j
<1> DEFINE R == {ss \in Nat \X Nat : ss[1] < ss[2]}
<1>1. IsWellFoundedOn(R, Nat)
  <2>1. IsWellFoundedOn(OpToRel(<, Nat), Nat)
    BY NatLessThanWellFounded
  <2>2. OpToRel(<, Nat) = R
    BY DEF OpToRel
  <2> QED
    BY <2>1, <2>2
<1>2. \A x, y \in Nat : <<x, y>> \in R <=> x < y
  OBVIOUS
<1> HIDE DEF R
<1>3. PICK i \in S : \A j \in S : ~(<<j, i>> \in R)
  BY <1>1, WFMin
<1>4. ASSUME NEW j \in S
      PROVE  i <= j
  <2>1. i \in Nat /\ j \in Nat
    OBVIOUS
  <2>2. ~(j < i)
    BY <1>2, <1>3, <2>1
  <2> QED
    BY <2>1, <2>2
<1> QED
  BY <1>4

\* A property of numbers that goes on from each to the next, as a set.
LEMMA Induct ==
  ASSUME NEW n \in Nat, NEW S, 0 \in S, \A k \in 0 .. n - 1 : k \in S => k + 1 \in S
  PROVE  n \in S
<1>1. SUFFICES ASSUME n \notin S
               PROVE  FALSE
  OBVIOUS
<1> DEFINE wrong == {k \in 0 .. n : k \notin S}
<1>2. wrong \in SUBSET Nat /\ wrong # {}
  BY <1>1
<1>3. PICK k \in wrong : \A j \in wrong : k <= j
  <2> HIDE DEF wrong
  <2> QED
    BY <1>2, LeastOf
<1>4. k \in 0 .. n /\ k \notin S /\ k # 0
  OBVIOUS
<1>5. k - 1 \in 0 .. n - 1 /\ k - 1 < k /\ k - 1 + 1 = k
  BY <1>4
<1>6. k - 1 \in S
  BY <1>3, <1>5
<1> QED
  BY <1>4, <1>5, <1>6

LEMMA MaxOf ==
  ASSUME NEW n \in Nat, NEW u \in SUBSET (1 .. n), u # {}
  PROVE  /\ Max(u) \in u
         /\ \A j \in u : Max(u) >= j
<1> DEFINE S == {k \in Nat : \A j \in u : k >= j}
<1>1. n \in S /\ S \in SUBSET Nat /\ S # {}
  OBVIOUS
<1>2. PICK k \in S : \A j \in S : k <= j
  <2> HIDE DEF S
  <2> QED
    BY <1>1, LeastOf
<1>3. k \in u
  <2>1. SUFFICES ASSUME k \notin u
                 PROVE  FALSE
    OBVIOUS
  <2>2. k \in Nat /\ \A j \in u : j \in Nat /\ j >= 1 /\ k >= j /\ k # j
    BY <2>1
  <2>3. k - 1 \in Nat /\ k - 1 < k
    <3>1. PICK j \in u : TRUE
      OBVIOUS
    <3>2. j \in Nat /\ j >= 1 /\ k >= j /\ k \in Nat
      BY <2>2
    <3> QED
      BY <3>2
  <2>4. k - 1 \in S
    BY <2>2, <2>3
  <2> QED
    BY <1>2, <2>2, <2>3, <2>4
<1>4. \E x \in u : \A j \in u : x >= j
  BY <1>3
<1> QED
  BY <1>4 DEF Max

LEMMA IterateMore ==
  ASSUME NEW kind, NEW env, NEW base, NEW s, NEW n \in Nat, NEW f, Iterates(f, kind, env, base, s, n)
  PROVE  \E g : Iterates(g, kind, env, base, s, n + 1)
<1> DEFINE g == [u \in SUBSET (1 .. n + 1) |->
                   IF n + 1 \in u THEN Step(kind, env, f[u \ {n + 1}], s[n + 1]) ELSE f[u]]
<1>1. ASSUME NEW u \in SUBSET (1 .. n + 1), n + 1 \notin u
      PROVE  u \in SUBSET (1 .. n) /\ g[u] = f[u]
  <2>1. u \in SUBSET (1 .. n)
    <3>1. ASSUME NEW x \in u
          PROVE  x \in 1 .. n
      BY <1>1
    <3> QED
      BY <3>1
  <2> QED
    BY <1>1, <2>1
<1>2. \A u \in SUBSET (1 .. n) :
        f[u] = IF u = {} THEN base ELSE Step(kind, env, f[u \ {Max(u)}], s[Max(u)])
  BY DEF Iterates
<1>3. \A u \in SUBSET (1 .. n + 1) :
        n + 1 \in u => g[u] = Step(kind, env, f[u \ {n + 1}], s[n + 1])
  OBVIOUS
<1>4. g = [u \in SUBSET (1 .. n + 1) |-> g[u]]
  OBVIOUS
<1> HIDE DEF g
<1>5. ASSUME NEW u \in SUBSET (1 .. n + 1)
      PROVE  g[u] = IF u = {} THEN base ELSE Step(kind, env, g[u \ {Max(u)}], s[Max(u)])
  <2>1. CASE u = {}
    BY <1>1, <1>2, <2>1
  <2>2. CASE n + 1 \in u
    <3>1. Max(u) = n + 1
      <4>1. Max(u) \in u /\ Max(u) >= n + 1
        BY <2>2, MaxOf
      <4>2. Max(u) \in 1 .. n + 1
        BY <4>1
      <4> QED
        BY <4>1, <4>2
    <3>2. u \ {n + 1} \in SUBSET (1 .. n + 1) /\ n + 1 \notin u \ {n + 1}
      OBVIOUS
    <3>3. g[u \ {n + 1}] = f[u \ {n + 1}]
      BY <1>1, <3>2
    <3>4. g[u] = Step(kind, env, g[u \ {Max(u)}], s[Max(u)])
      BY <1>3, <2>2, <3>1, <3>3
    <3> QED
      BY <2>2, <3>4
  <2>3. CASE n + 1 \notin u /\ u # {}
    <3>1. u \in SUBSET (1 .. n) /\ g[u] = f[u]
      BY <1>1, <2>3
    <3>2. u \ {Max(u)} \in SUBSET (1 .. n + 1) /\ n + 1 \notin u \ {Max(u)}
      BY <2>3
    <3>3. g[u \ {Max(u)}] = f[u \ {Max(u)}]
      BY <1>1, <3>2
    <3> QED
      BY <1>2, <2>3, <3>1, <3>3
  <2> QED
    BY <2>1, <2>2, <2>3
<1>6. g = [u \in SUBSET (1 .. n + 1) |->
             IF u = {} THEN base ELSE Step(kind, env, g[u \ {Max(u)}], s[Max(u)])]
  BY <1>4, <1>5
<1> QED
  BY <1>6 DEF Iterates

LEMMA IterateExists ==
  ASSUME NEW kind, NEW env, NEW base, NEW s, NEW n \in Nat
  PROVE  \E f : Iterates(f, kind, env, base, s, n)
<1> DEFINE S == {k \in Nat : \E f : Iterates(f, kind, env, base, s, k)}
<1>1. 0 \in S
  <2> DEFINE f == [u \in {{}} |-> base]
  <2>1. SUBSET (1 .. 0) = {{}}
    OBVIOUS
  <2>2. f = [u \in {{}} |-> IF u = {} THEN base ELSE Step(kind, env, f[u \ {Max(u)}], s[Max(u)])]
    OBVIOUS
  <2> HIDE DEF f
  <2>3. Iterates(f, kind, env, base, s, 0)
    BY <2>1, <2>2 DEF Iterates
  <2> QED
    BY <2>3
<1>2. \A k \in 0 .. n - 1 : k \in S => k + 1 \in S
  BY IterateMore
<1>3. n \in S
  <2> HIDE DEF S
  <2> QED
    BY <1>1, <1>2, Induct
<1> QED
  BY <1>3

\* What a fold comes to: it is in the last of a row of sets if each step leads
\* from one of them to the next.
LEMMA IterateStays ==
  ASSUME NEW kind, NEW env, NEW base, NEW s, NEW n \in Nat, NEW f, NEW S,
         Iterates(f, kind, env, base, s, n),
         base \in S[0],
         \A k \in 1 .. n : \A a \in S[k - 1] : Step(kind, env, a, s[k]) \in S[k]
  PROVE  f[1 .. n] \in S[n]
<1>1. \A u \in SUBSET (1 .. n) :
        f[u] = IF u = {} THEN base ELSE Step(kind, env, f[u \ {Max(u)}], s[Max(u)])
  BY DEF Iterates
<1> DEFINE T == {k \in 0 .. n : f[1 .. k] \in S[k]}
<1>2. 0 \in T
  <2>1. 1 .. 0 = {} /\ {} \in SUBSET (1 .. n)
    OBVIOUS
  <2>2. f[1 .. 0] = base
    BY <1>1, <2>1
  <2> QED
    BY <2>2
<1>3. ASSUME NEW k \in 0 .. n - 1, k \in T
      PROVE  k + 1 \in T
  <2>1. 1 .. k + 1 \in SUBSET (1 .. n) /\ k + 1 \in 1 .. k + 1 /\ k + 1 \in 1 .. n /\ k + 1 - 1 = k
    OBVIOUS
  <2>2. Max(1 .. k + 1) = k + 1
    <3>1. Max(1 .. k + 1) \in 1 .. k + 1 /\ Max(1 .. k + 1) >= k + 1
      BY <2>1, MaxOf
    <3> QED
      BY <3>1
  <2>3. (1 .. k + 1) \ {k + 1} = 1 .. k
    OBVIOUS
  <2>4. f[1 .. k + 1] = Step(kind, env, f[1 .. k], s[k + 1])
    BY <1>1, <2>1, <2>2, <2>3
  <2>5. f[1 .. k] \in S[k + 1 - 1]
    BY <1>3, <2>1
  <2>6. f[1 .. k + 1] \in S[k + 1]
    BY <2>1, <2>4, <2>5
  <2> QED
    BY <2>6
<1>4. n \in T
  <2> HIDE DEF T
  <2> QED
    BY <1>2, <1>3, Induct
<1> QED
  BY <1>4

\* The folds of Started(), ProcEnableLog() and ProcDisableLog().
CreateAll(w, s, env) == FoldLeft(LAMBDA a, e : CreateHandler(a, e, env), w, s)
StartAll(w, s, env) == FoldLeft(LAMBDA a, tok : StartOne(a, GetCpType(tok), env), w, s)
StopAll(w, s) == FoldLeft(LAMBDA a, tok : StopOne(a, GetCpType(tok)), w, s)

LEMMA ParseFold ==
  ASSUME NEW cmcc, NEW w, NEW X, NEW s \in Seq(X), NEW S, w \in S[0],
         \A k \in 1 .. Len(s) : \A a \in S[k - 1] : Step("parse", cmcc, a, s[k]) \in S[k]
  PROVE  ParseConfigFile(w, s, cmcc) \in S[Len(s)]
<1> DEFINE n == Len(s)
           f == CHOOSE f : f = [u \in SUBSET DOMAIN s |->
                  IF u = {} THEN w ELSE IF s[Max(u)] = <<>> THEN f[u \ {Max(u)}]
                            ELSE ParseLine(f[u \ {Max(u)}], s[Max(u)], cmcc)]
<1>1. n \in Nat /\ DOMAIN s = 1 .. n
  OBVIOUS
<1>2. ParseConfigFile(w, s, cmcc) = f[DOMAIN s]
  BY DEF ParseConfigFile, FoldLeft, MapThenFoldSet
<1>3. PICK g : Iterates(g, "parse", cmcc, w, s, n)
  BY <1>1, IterateExists
<1>4. \E h : h = [u \in SUBSET DOMAIN s |->
                  IF u = {} THEN w ELSE IF s[Max(u)] = <<>> THEN h[u \ {Max(u)}]
                            ELSE ParseLine(h[u \ {Max(u)}], s[Max(u)], cmcc)]
  BY <1>1, <1>3 DEF Iterates, Step
<1>5. f = [u \in SUBSET DOMAIN s |->
                  IF u = {} THEN w ELSE IF s[Max(u)] = <<>> THEN f[u \ {Max(u)}]
                            ELSE ParseLine(f[u \ {Max(u)}], s[Max(u)], cmcc)]
  BY <1>4
<1> HIDE DEF f
<1>6. Iterates(f, "parse", cmcc, w, s, n)
  BY <1>1, <1>5 DEF Iterates, Step
<1>7. f[1 .. n] \in S[n]
  BY <1>1, <1>6, IterateStays
<1> QED
  BY <1>1, <1>2, <1>7

LEMMA CreateFold ==
  ASSUME NEW env, NEW w, NEW X, NEW s \in Seq(X), NEW S, w \in S[0],
         \A k \in 1 .. Len(s) : \A a \in S[k - 1] : Step("create", env, a, s[k]) \in S[k]
  PROVE  CreateAll(w, s, env) \in S[Len(s)]
<1> DEFINE n == Len(s)
           f == CHOOSE f : f = [u \in SUBSET DOMAIN s |->
                  IF u = {} THEN w ELSE CreateHandler(f[u \ {Max(u)}], s[Max(u)], env)]
<1>1. n \in Nat /\ DOMAIN s = 1 .. n
  OBVIOUS
<1>2. CreateAll(w, s, env) = f[DOMAIN s]
  BY DEF CreateAll, FoldLeft, MapThenFoldSet
<1>3. PICK g : Iterates(g, "create", env, w, s, n)
  BY <1>1, IterateExists
<1>4. \E h : h = [u \in SUBSET DOMAIN s |->
                  IF u = {} THEN w ELSE CreateHandler(h[u \ {Max(u)}], s[Max(u)], env)]
  BY <1>1, <1>3 DEF Iterates, Step
<1>5. f = [u \in SUBSET DOMAIN s |->
                  IF u = {} THEN w ELSE CreateHandler(f[u \ {Max(u)}], s[Max(u)], env)]
  BY <1>4
<1> HIDE DEF f
<1>6. Iterates(f, "create", env, w, s, n)
  BY <1>1, <1>5 DEF Iterates, Step
<1>7. f[1 .. n] \in S[n]
  BY <1>1, <1>6, IterateStays
<1> QED
  BY <1>1, <1>2, <1>7

LEMMA StartFold ==
  ASSUME NEW env, NEW w, NEW X, NEW s \in Seq(X), NEW S, w \in S[0],
         \A k \in 1 .. Len(s) : \A a \in S[k - 1] : Step("start", env, a, s[k]) \in S[k]
  PROVE  StartAll(w, s, env) \in S[Len(s)]
<1> DEFINE n == Len(s)
           f == CHOOSE f : f = [u \in SUBSET DOMAIN s |->
                  IF u = {} THEN w ELSE StartOne(f[u \ {Max(u)}], GetCpType(s[Max(u)]), env)]
<1>1. n \in Nat /\ DOMAIN s = 1 .. n
  OBVIOUS
<1>2. StartAll(w, s, env) = f[DOMAIN s]
  BY DEF StartAll, FoldLeft, MapThenFoldSet
<1>3. PICK g : Iterates(g, "start", env, w, s, n)
  BY <1>1, IterateExists
<1>4. \E h : h = [u \in SUBSET DOMAIN s |->
                  IF u = {} THEN w ELSE StartOne(h[u \ {Max(u)}], GetCpType(s[Max(u)]), env)]
  BY <1>1, <1>3 DEF Iterates, Step
<1>5. f = [u \in SUBSET DOMAIN s |->
                  IF u = {} THEN w ELSE StartOne(f[u \ {Max(u)}], GetCpType(s[Max(u)]), env)]
  BY <1>4
<1> HIDE DEF f
<1>6. Iterates(f, "start", env, w, s, n)
  BY <1>1, <1>5 DEF Iterates, Step
<1>7. f[1 .. n] \in S[n]
  BY <1>1, <1>6, IterateStays
<1> QED
  BY <1>1, <1>2, <1>7

LEMMA StopFold ==
  ASSUME NEW env, NEW w, NEW X, NEW s \in Seq(X), NEW S, w \in S[0],
         \A k \in 1 .. Len(s) : \A a \in S[k - 1] : Step("stop", env, a, s[k]) \in S[k]
  PROVE  StopAll(w, s) \in S[Len(s)]
<1> DEFINE n == Len(s)
           f == CHOOSE f : f = [u \in SUBSET DOMAIN s |->
                  IF u = {} THEN w ELSE StopOne(f[u \ {Max(u)}], GetCpType(s[Max(u)]))]
<1>1. n \in Nat /\ DOMAIN s = 1 .. n
  OBVIOUS
<1>2. StopAll(w, s) = f[DOMAIN s]
  BY DEF StopAll, FoldLeft, MapThenFoldSet
<1>3. PICK g : Iterates(g, "stop", env, w, s, n)
  BY <1>1, IterateExists
<1>4. \E h : h = [u \in SUBSET DOMAIN s |->
                  IF u = {} THEN w ELSE StopOne(h[u \ {Max(u)}], GetCpType(s[Max(u)]))]
  BY <1>1, <1>3 DEF Iterates, Step
<1>5. f = [u \in SUBSET DOMAIN s |->
                  IF u = {} THEN w ELSE StopOne(f[u \ {Max(u)}], GetCpType(s[Max(u)]))]
  BY <1>4
<1> HIDE DEF f
<1>6. Iterates(f, "stop", env, w, s, n)
  BY <1>1, <1>5 DEF Iterates, Step
<1>7. f[1 .. n] \in S[n]
  BY <1>1, <1>6, IterateStays
<1> QED
  BY <1>1, <1>2, <1>7

LEMMA CmdUses ==
  /\ \A S : Cmd!Max(S) = Max(S)
  /\ \A told, e : Cmd!WriteEntry(told, e) = WithMipi(told, e)
<1>1. \A S : Cmd!Max(S) = Max(S)
  BY DEF Cmd!Max, Max
<1>2. ASSUME NEW told, NEW e
      PROVE  Cmd!WriteEntry(told, e) = WithMipi(told, e)
  BY DEF Cmd!WriteEntry, WithMipi, Cmd!RemoveFirstMatch, RemoveFirstMatch, Cmd!RemoveAt, RemoveAt,
         Cmd!SelectInSeq, SelectInSeq, Cmd!Min, Min
<1> QED
  BY <1>1, <1>2

LEMMA WriteFold ==
  ASSUME NEW env, NEW w, NEW X, NEW s \in Seq(X), NEW S, w \in S[0],
         \A k \in 1 .. Len(s) : \A a \in S[k - 1] : Step("write", env, a, s[k]) \in S[k]
  PROVE  Cmd!Written(w, s) \in S[Len(s)]
<1> DEFINE n == Len(s)
           f == CHOOSE f : f = [u \in SUBSET DOMAIN s |->
                  IF u = {} THEN w ELSE Cmd!WriteEntry(f[u \ {Cmd!Max(u)}], s[Cmd!Max(u)])]
<1>1. n \in Nat /\ DOMAIN s = 1 .. n
  OBVIOUS
<1>2. Cmd!Written(w, s) = f[DOMAIN s]
  BY DEF Cmd!Written, Cmd!FoldLeft, Cmd!MapThenFoldSet
<1>3. PICK g : Iterates(g, "write", env, w, s, n)
  BY <1>1, IterateExists
<1>4. \E h : h = [u \in SUBSET DOMAIN s |->
                  IF u = {} THEN w ELSE Cmd!WriteEntry(h[u \ {Cmd!Max(u)}], s[Cmd!Max(u)])]
  BY <1>1, <1>3, CmdUses DEF Iterates, Step
<1>5. f = [u \in SUBSET DOMAIN s |->
                  IF u = {} THEN w ELSE Cmd!WriteEntry(f[u \ {Cmd!Max(u)}], s[Cmd!Max(u)])]
  BY <1>4
<1> HIDE DEF f
<1>6. Iterates(f, "write", env, w, s, n)
  BY <1>1, <1>5, CmdUses DEF Iterates, Step
<1>7. f[1 .. n] \in S[n]
  BY <1>1, <1>6, IterateStays
<1> QED
  BY <1>1, <1>2, <1>7

------------------------------------------------------------------------------
(* What is written down, of any build: b is that it is one for an operator. *)

\* Tokens, with those that the program writes by itself named.
Words ==
  {"storage", "external", "internal", "minidump", "enable", "disable", "mipilog", "iq", "GSM",
   "WCDMA", "stream", "level", "on", "off", "evt", "agdsp_log_dest", "agdsp_pcm_dump", "uart",
   "ap", "cp_5mode", "cp_wcn", "cp_gnss", "agdsp", "pm_sh", "1024", "50", "0"}
Tokens == STRING \cup Words

Entries ==
  [type : Types, mode : {"LM_OFF", "LM_NORMAL", "LM_EVENT"}, internal_limit : Tokens,
   external_limit : Tokens, file_size_limit : Tokens, overwrite : BOOLEAN]
Iqs == [type : Types, gsm_iq : BOOLEAN, wcdma_iq : BOOLEAN]
Mipis == {e \in Seq(Tokens) : Len(e) = 3}
Configs ==
  [m_dirty : BOOLEAN, m_enable_md : BOOLEAN, m_md_save_to_int : BOOLEAN,
   agdsp_log_dest : {"off", "uart", "ap"}, agdsp_pcm_dump : BOOLEAN, ext_stor_active : BOOLEAN,
   use_work_conf_file : BOOLEAN, m_config : Seq(Entries), m_iq_config : Seq(Iqs),
   m_mipilog : Seq(Mipis)]

TypesOf(list) == [i \in DOMAIN list |-> list[i].type]
OneEach(list) == \A i, j \in DOMAIN list : list[i].type = list[j].type => i = j

MipisOf(list) == {list[i][1] : i \in DOMAIN list}
OneMipiEach(list) == \A i, j \in DOMAIN list : list[i][1] = list[j][1] => i = j

ConfigInv(c) ==
  /\ c \in Configs
  /\ OneEach(c.m_config) /\ OneEach(c.m_iq_config) /\ OneMipiEach(c.m_mipilog)

\* c has the subsystems of d, and what d has of the other lists.
Extends(c, d) ==
  /\ TypesOf(c.m_config) = TypesOf(d.m_config)
  /\ Range(TypesOf(d.m_iq_config)) \subseteq Range(TypesOf(c.m_iq_config))
  /\ MipisOf(d.m_mipilog) \subseteq MipisOf(c.m_mipilog)

Shipped(b) == ParseConfigFile(DefaultConfig, Initial, b)

\* A line adds no subsystem to d.
AddsNone(line, d) ==
  Len(line) >= 2 /\ line[1] = "stream" /\ GetModemType(line[2]) # Unknown
    => GetModemType(line[2]) \in Range(TypesOf(d.m_config))

Files == [exists : BOOLEAN, lines : Seq(Seq(Tokens)), torn : BOOLEAN]
FileInv(file, b) ==
  file \in Files /\ \A i \in DOMAIN file.lines : AddsNone(file.lines[i], Shipped(b))

LEMMA ModemTypeIs ==
  /\ Unknown \notin Types
  /\ \A name : GetModemType(name) # Unknown => GetModemType(name) \in Types
  /\ \A t \in Types : CpTypeToName[t] \in Tokens /\ GetModemType(CpTypeToName[t]) = t
<1>1. Unknown \notin Types
  BY DEF Unknown, Types
<1>2. ASSUME NEW name, GetModemType(name) # Unknown
      PROVE  GetModemType(name) \in Types
  BY <1>2 DEF GetModemType
<1>3. ASSUME NEW t \in Types, NEW u \in Types, CpTypeToName[t] = CpTypeToName[u]
      PROVE  t = u
  BY <1>3 DEF CpTypeToName, Types
<1>4. ASSUME NEW t \in Types
      PROVE  CpTypeToName[t] \in Tokens
  BY DEF CpTypeToName, Types, Tokens, Words
<1>5. ASSUME NEW t \in Types
      PROVE  GetModemType(CpTypeToName[t]) = t
  BY <1>3 DEF GetModemType
<1> QED
  BY <1>1, <1>2, <1>4, <1>5

LEMMA IndexIs ==
  ASSUME NEW X, NEW list \in Seq(X), NEW t
  PROVE  /\ Has(list, t) => Index(list, t) \in DOMAIN list /\ list[Index(list, t)].type = t
         /\ Has(list, t) <=> \E i \in DOMAIN list : list[i].type = t
         /\ OneEach(list) => \A i \in DOMAIN list : list[i].type = t => Index(list, t) = i
<1> DEFINE I == {i \in 1 .. Len(list) : list[i].type = t}
<1>1. DOMAIN list = 1 .. Len(list) /\ Len(list) \in Nat
  OBVIOUS
<1>2. Index(list, t) = IF I # {} THEN Min(I) ELSE 0
  BY DEF Index, SelectInSeq
<1>3. I \in SUBSET Nat /\ 0 \notin I
  BY <1>1
<1>4. \A i : i \in I <=> i \in DOMAIN list /\ list[i].type = t
  BY <1>1
<1> HIDE DEF I
<1>5. I # {} => Min(I) \in I
  <2>1. ASSUME I # {}
        PROVE  \E i \in I : \A j \in I : i <= j
    BY <1>3, <2>1, LeastOf
  <2> QED
    BY <2>1 DEF Min
<1>6. Has(list, t) <=> I # {}
  BY <1>2, <1>3, <1>5 DEF Has
<1>7. Has(list, t) => Index(list, t) \in I
  BY <1>2, <1>5, <1>6
<1> QED
  BY <1>4, <1>6, <1>7 DEF OneEach

Replaced(list, t, new) == [i \in DOMAIN list |-> IF i = Index(list, t) THEN new ELSE list[i]]

LEMMA ReplacedIs ==
  ASSUME NEW X, NEW list \in Seq(X), NEW t, NEW new \in X, OneEach(list), Has(list, t), new.type = t
  PROVE  /\ Replaced(list, t, new) \in Seq(X)
         /\ OneEach(Replaced(list, t, new))
         /\ TypesOf(Replaced(list, t, new)) = TypesOf(list)
         /\ Find(Replaced(list, t, new), t) = new
         /\ \A u : Has(Replaced(list, t, new), u) <=> Has(list, u)
         /\ \A u : Has(list, u) /\ u # t => Find(Replaced(list, t, new), u) = Find(list, u)
         /\ Range(Replaced(list, t, new)) \subseteq Range(list) \cup {new}
<1> DEFINE r == Replaced(list, t, new)
           k == Index(list, t)
<1>1. k \in DOMAIN list /\ list[k].type = t /\ DOMAIN list = 1 .. Len(list) /\ Len(list) \in Nat
  BY IndexIs
<1>2. /\ DOMAIN r = DOMAIN list
      /\ r[k] = new
      /\ \A i \in DOMAIN list : i # k => r[i] = list[i]
  BY <1>1 DEF Replaced
<1>3. r \in Seq(X)
  <2>1. \A i \in 1 .. Len(list) : list[i] \in X
    OBVIOUS
  <2>2. r \in [1 .. Len(list) -> X]
    BY <1>1, <2>1 DEF Replaced
  <2> QED
    BY <1>1, <2>2
<1>4. r = [i \in DOMAIN list |-> r[i]]
  BY DEF Replaced
<1> HIDE DEF r, k
<1>5. \A i \in DOMAIN list : r[i].type = list[i].type
  BY <1>1, <1>2
<1>6. OneEach(r) /\ TypesOf(r) = TypesOf(list)
  BY <1>2, <1>5 DEF OneEach, TypesOf
<1>7. ASSUME NEW u
      PROVE  Has(r, u) <=> Has(list, u)
  <2>1. Has(r, u) <=> \E i \in DOMAIN list : r[i].type = u
    BY <1>2, <1>3, IndexIs
  <2>2. Has(list, u) <=> \E i \in DOMAIN list : list[i].type = u
    BY IndexIs
  <2> QED
    BY <1>5, <2>1, <2>2
<1>8. Index(r, t) = k
  BY <1>1, <1>2, <1>3, <1>5, <1>6, IndexIs
<1>9. ASSUME NEW u, Has(list, u), u # t
      PROVE  Find(r, u) = Find(list, u)
  <2>1. Index(list, u) \in DOMAIN list /\ list[Index(list, u)].type = u
    BY <1>9, IndexIs
  <2>2. Index(r, u) = Index(list, u)
    BY <1>2, <1>3, <1>5, <1>6, <2>1, IndexIs
  <2> QED
    BY <1>1, <1>2, <1>9, <2>1, <2>2 DEF Find
<1>10. Find(r, t) = new
  BY <1>2, <1>8 DEF Find
<1>11. Range(r) \subseteq Range(list) \cup {new}
  BY <1>2 DEF Range
<1> QED
  BY <1>3, <1>6, <1>7, <1>9, <1>10, <1>11 DEF r

LEMMA AppendedIs ==
  ASSUME NEW X, NEW list \in Seq(X), NEW new \in X, OneEach(list), ~Has(list, new.type)
  PROVE  /\ Append(list, new) \in Seq(X)
         /\ OneEach(Append(list, new))
         /\ Range(TypesOf(list)) \subseteq Range(TypesOf(Append(list, new)))
         /\ \A u : Has(Append(list, new), u) <=> Has(list, u) \/ u = new.type
         /\ Find(Append(list, new), new.type) = new
         /\ \A u : Has(list, u) => Find(Append(list, new), u) = Find(list, u)
<1> DEFINE r == Append(list, new)
           n == Len(list)
<1>1. /\ DOMAIN list = 1 .. n /\ n \in Nat /\ r \in Seq(X) /\ DOMAIN r = 1 .. n + 1
      /\ r[n + 1] = new /\ \A i \in 1 .. n : r[i] = list[i]
  BY AppendProperties
<1> HIDE DEF r, n
<1>2. \A i \in DOMAIN list : list[i].type # new.type
  BY IndexIs
<1>3. \A i \in 1 .. n + 1 : i = n + 1 \/ i \in 1 .. n
  BY <1>1
<1>4. n + 1 \in 1 .. n + 1 /\ 1 .. n \subseteq 1 .. n + 1
  BY <1>1
<1>5. OneEach(r)
  <2>1. ASSUME NEW i \in 1 .. n + 1, NEW j \in 1 .. n + 1, r[i].type = r[j].type
        PROVE  i = j
    <3>1. CASE i = n + 1 /\ j \in 1 .. n
      BY <1>1, <1>2, <2>1, <3>1
    <3>2. CASE i \in 1 .. n /\ j = n + 1
      BY <1>1, <1>2, <2>1, <3>2
    <3>3. CASE i \in 1 .. n /\ j \in 1 .. n
      BY <1>1, <2>1, <3>3 DEF OneEach
    <3> QED
      BY <1>3, <3>1, <3>2, <3>3
  <2> QED
    BY <1>1, <2>1 DEF OneEach
<1>6. Range(TypesOf(list)) \subseteq Range(TypesOf(r))
  BY <1>1, <1>4 DEF Range, TypesOf
<1>7. ASSUME NEW u
      PROVE  Has(r, u) <=> Has(list, u) \/ u = new.type
  <2>1. Has(r, u) <=> \E i \in 1 .. n + 1 : r[i].type = u
    BY <1>1, IndexIs
  <2>2. Has(list, u) <=> \E i \in 1 .. n : list[i].type = u
    BY <1>1, IndexIs
  <2> QED
    BY <1>1, <1>3, <1>4, <2>1, <2>2
<1>8. Find(r, new.type) = new
  BY <1>1, <1>4, <1>5, IndexIs DEF Find
<1>9. ASSUME NEW u, Has(list, u)
      PROVE  Find(r, u) = Find(list, u)
  <2>1. Index(list, u) \in 1 .. n /\ list[Index(list, u)].type = u
    BY <1>1, <1>9, IndexIs
  <2>2. Index(r, u) = Index(list, u)
    BY <1>1, <1>4, <1>5, <2>1, IndexIs
  <2> QED
    BY <1>1, <2>1, <2>2 DEF Find
<1> QED
  BY <1>1, <1>5, <1>6, <1>7, <1>8, <1>9 DEF r


LEMMA RemoveAtElements ==
  ASSUME NEW S, NEW s \in Seq(S), NEW i \in DOMAIN s
  PROVE  /\ RemoveAt(s, i) \in Seq(S)
         /\ Len(RemoveAt(s, i)) = Len(s) - 1
         /\ \A k \in 1 .. Len(s) - 1 :
              RemoveAt(s, i)[k] = IF k < i THEN s[k] ELSE s[k + 1]
<1>1. i \in 1 .. Len(s) /\ Len(s) \in Nat
  OBVIOUS
<1>2. /\ SubSeq(s, 1, i - 1) \in Seq(S)
      /\ Len(SubSeq(s, 1, i - 1)) = i - 1
      /\ \A k \in 1 .. i - 1 : SubSeq(s, 1, i - 1)[k] = s[k]
  BY <1>1
<1>3. /\ SubSeq(s, i + 1, Len(s)) \in Seq(S)
      /\ Len(SubSeq(s, i + 1, Len(s))) = Len(s) - i
      /\ \A k \in 1 .. Len(s) - i : SubSeq(s, i + 1, Len(s))[k] = s[i + k]
  BY <1>1
<1> DEFINE a == SubSeq(s, 1, i - 1)
           b == SubSeq(s, i + 1, Len(s))
<1>4. a \in Seq(S) /\ Len(a) = i - 1 /\ \A k \in 1 .. i - 1 : a[k] = s[k]
  BY <1>2
<1>5. b \in Seq(S) /\ Len(b) = Len(s) - i /\ \A k \in 1 .. Len(s) - i : b[k] = s[i + k]
  BY <1>3
<1>6. RemoveAt(s, i) = a \o b
  BY DEF RemoveAt
<1> HIDE DEF a, b
<1>7. /\ a \o b \in Seq(S)
      /\ Len(a \o b) = Len(s) - 1
      /\ \A k \in 1 .. Len(s) - 1 : (a \o b)[k] = IF k <= i - 1 THEN a[k] ELSE b[k - (i - 1)]
  <2>1. /\ a \o b \in Seq(S) /\ Len(a \o b) = Len(a) + Len(b)
        /\ \A k \in 1 .. Len(a) + Len(b) : (a \o b)[k] = IF k <= Len(a) THEN a[k] ELSE b[k - Len(a)]
    BY <1>4, <1>5, ConcatProperties
  <2>2. Len(a) + Len(b) = Len(s) - 1
    BY <1>1, <1>4, <1>5
  <2> QED
    BY <1>4, <2>1, <2>2
<1>8. ASSUME NEW k \in 1 .. Len(s) - 1
      PROVE  (a \o b)[k] = IF k < i THEN s[k] ELSE s[k + 1]
  <2>1. CASE k < i
    BY <1>1, <1>4, <1>7, <2>1
  <2>2. CASE ~(k < i)
    <3>1. (a \o b)[k] = b[k - (i - 1)] /\ k - (i - 1) \in 1 .. Len(s) - i
      BY <1>1, <1>7, <2>2
    <3>2. i + (k - (i - 1)) = k + 1
      BY <1>1
    <3> QED
      BY <1>5, <2>2, <3>1, <3>2
  <2> QED
    BY <2>1, <2>2
<1> QED
  BY <1>6, <1>7, <1>8

\* The list of the MIPI log: an entry takes the place of the one of its type.
LEMMA RemoveMatch ==
  ASSUME NEW X, NEW list \in Seq(X), NEW type
  PROVE  \/ /\ RemoveFirstMatch(list, LAMBDA old : old[1] = type) = list
            /\ \A i \in DOMAIN list : list[i][1] # type
         \/ \E i \in DOMAIN list :
              /\ RemoveFirstMatch(list, LAMBDA old : old[1] = type) = RemoveAt(list, i)
              /\ list[i][1] = type
<1> DEFINE I == {i \in 1 .. Len(list) : list[i][1] = type}
           r == RemoveFirstMatch(list, LAMBDA old : old[1] = type)
<1>1. DOMAIN list = 1 .. Len(list) /\ Len(list) \in Nat
  OBVIOUS
<1>2. r = IF \E i \in 1 .. Len(list) : list[i][1] = type
          THEN RemoveAt(list, IF I # {} THEN Min(I) ELSE 0) ELSE list
  BY DEF RemoveFirstMatch, SelectInSeq
<1>3. I \in SUBSET Nat
  BY <1>1
<1>4. \A i : i \in I <=> i \in DOMAIN list /\ list[i][1] = type
  BY <1>1
<1> HIDE DEF I, r
<1>5. I # {} => Min(I) \in I
  <2>1. ASSUME I # {}
        PROVE  \E i \in I : \A j \in I : i <= j
    BY <1>3, <2>1, LeastOf
  <2> QED
    BY <2>1 DEF Min
<1>6. CASE I = {}
  <2>1. r = list /\ \A i \in DOMAIN list : list[i][1] # type
    BY <1>1, <1>2, <1>4, <1>6
  <2> QED
    BY <2>1 DEF r
<1>7. CASE I # {}
  <2>1. PICK i \in DOMAIN list : i = Min(I) /\ list[i][1] = type
    BY <1>4, <1>5, <1>7
  <2>2. r = RemoveAt(list, i)
    BY <1>1, <1>2, <1>7, <2>1
  <2> QED
    BY <2>1, <2>2 DEF r
<1> QED
  BY <1>6, <1>7

\* r is what is left of list when the entry of that type is removed.
Without(r, list, type) ==
  /\ DOMAIN r = 1 .. Len(r) /\ Len(r) \in Nat
  /\ \E f \in [1 .. Len(r) -> 1 .. Len(list)] :
       /\ \A i, j \in 1 .. Len(r) : i < j => f[i] < f[j]
       /\ \A i \in 1 .. Len(r) : r[i] = list[f[i]] /\ list[f[i]][1] # type
       /\ \A j \in 1 .. Len(list) : list[j][1] # type => \E i \in 1 .. Len(r) : f[i] = j

LEMMA WithoutMipiIs ==
  ASSUME NEW X, NEW list \in Seq(X), NEW type, OneMipiEach(list)
  PROVE  /\ RemoveFirstMatch(list, LAMBDA old : old[1] = type) \in Seq(X)
         /\ Without(RemoveFirstMatch(list, LAMBDA old : old[1] = type), list, type)
<1> DEFINE r == RemoveFirstMatch(list, LAMBDA old : old[1] = type)
           n == Len(list)
<1>1. DOMAIN list = 1 .. n /\ n \in Nat
  OBVIOUS
<1>2. \/ r = list /\ \A i \in DOMAIN list : list[i][1] # type
      \/ \E i \in DOMAIN list : r = RemoveAt(list, i) /\ list[i][1] = type
  BY RemoveMatch
<1> HIDE DEF r
<1>3. CASE r = list /\ \A i \in DOMAIN list : list[i][1] # type
  <2> DEFINE f == [i \in 1 .. n |-> i]
  <2>1. /\ f \in [1 .. n -> 1 .. n]
        /\ \A i \in 1 .. n : f[i] = i
    OBVIOUS
  <2> HIDE DEF f
  <2>2. /\ \A i, j \in 1 .. n : i < j => f[i] < f[j]
        /\ \A i \in 1 .. n : r[i] = list[f[i]] /\ list[f[i]][1] # type
        /\ \A j \in 1 .. n : list[j][1] # type => \E i \in 1 .. n : f[i] = j
    BY <1>1, <1>3, <2>1
  <2>3. r \in Seq(X) /\ Len(r) = n /\ DOMAIN r = 1 .. n
    BY <1>1, <1>3
  <2>4. Without(r, list, type)
    BY <1>1, <2>1, <2>2, <2>3 DEF Without
  <2> QED
    BY <2>3, <2>4 DEF r
<1>4. CASE \E i \in DOMAIN list : r = RemoveAt(list, i) /\ list[i][1] = type
  <2>1. PICK k \in DOMAIN list : r = RemoveAt(list, k) /\ list[k][1] = type
    BY <1>4
  <2>2. /\ r \in Seq(X) /\ Len(r) = n - 1
        /\ \A i \in 1 .. n - 1 : r[i] = IF i < k THEN list[i] ELSE list[i + 1]
    BY <2>1, RemoveAtElements
  <2>3. k \in 1 .. n /\ n - 1 \in Nat /\ DOMAIN r = 1 .. n - 1
    BY <1>1, <2>1, <2>2
  <2> DEFINE f == [i \in 1 .. n - 1 |-> IF i < k THEN i ELSE i + 1]
  <2>4. /\ f \in [1 .. n - 1 -> 1 .. n]
        /\ \A i \in 1 .. n - 1 : f[i] = IF i < k THEN i ELSE i + 1
    BY <2>3
  <2> HIDE DEF f
  <2>5. \A i, j \in 1 .. n - 1 : i < j => f[i] < f[j]
    BY <2>3, <2>4
  <2>6. ASSUME NEW i \in 1 .. n - 1
        PROVE  r[i] = list[f[i]] /\ list[f[i]][1] # type
    <3>1. r[i] = list[f[i]] /\ f[i] # k /\ f[i] \in 1 .. n
      BY <2>2, <2>3, <2>4
    <3> QED
      BY <1>1, <2>1, <3>1 DEF OneMipiEach
  <2>7. ASSUME NEW j \in 1 .. n, list[j][1] # type
        PROVE  \E i \in 1 .. n - 1 : f[i] = j
    <3>1. j # k
      BY <2>1, <2>7
    <3>2. CASE j < k
      <4>1. j \in 1 .. n - 1 /\ f[j] = j
        BY <2>3, <2>4, <3>2
      <4> QED
        BY <4>1
    <3>3. CASE j > k
      <4>1. j - 1 \in 1 .. n - 1 /\ f[j - 1] = j
        BY <2>3, <2>4, <3>3
      <4> QED
        BY <4>1
    <3> QED
      BY <2>3, <3>1, <3>2, <3>3
  <2>8. Without(r, list, type)
    BY <2>2, <2>3, <2>4, <2>5, <2>6, <2>7 DEF Without
  <2> QED
    BY <2>2, <2>8 DEF r
<1> QED
  BY <1>2, <1>3, <1>4

LEMMA WithMipiIs ==
  ASSUME NEW X, NEW list \in Seq(X), NEW e \in X, OneMipiEach(list)
  PROVE  /\ WithMipi(list, e) \in Seq(X)
         /\ OneMipiEach(WithMipi(list, e))
         /\ MipisOf(list) \subseteq MipisOf(WithMipi(list, e))
         /\ e \in Range(WithMipi(list, e))
         /\ \A x \in Range(list) : x[1] # e[1] => x \in Range(WithMipi(list, e))
         /\ \E r \in Seq(X) : WithMipi(list, e) = Append(r, e) /\ Without(r, list, e[1])
<1> DEFINE r == RemoveFirstMatch(list, LAMBDA old : old[1] = e[1])
           n == Len(list)
           k == Len(r)
           w == WithMipi(list, e)
<1>1. r \in Seq(X) /\ Without(r, list, e[1])
  BY WithoutMipiIs
<1>2. w = Append(r, e)
  BY DEF WithMipi
<1> HIDE DEF r, w
<1>3. PICK f \in [1 .. k -> 1 .. n] :
        /\ \A i, j \in 1 .. k : i < j => f[i] < f[j]
        /\ \A i \in 1 .. k : r[i] = list[f[i]] /\ list[f[i]][1] # e[1]
        /\ \A j \in 1 .. n : list[j][1] # e[1] => \E i \in 1 .. k : f[i] = j
  BY <1>1 DEF Without
<1>4. DOMAIN list = 1 .. n /\ n \in Nat /\ k \in Nat
  BY <1>1
<1>5. w \in Seq(X) /\ DOMAIN w = 1 .. k + 1 /\ w[k + 1] = e /\ \A i \in 1 .. k : w[i] = r[i]
  BY <1>1, <1>2, <1>4, AppendProperties
<1>6. k + 1 \in 1 .. k + 1 /\ \A i \in 1 .. k + 1 : i \in 1 .. k \/ i = k + 1
  BY <1>4
<1>7. \A i \in 1 .. k : f[i] \in 1 .. n /\ w[i] = list[f[i]] /\ w[i][1] # e[1]
  BY <1>3, <1>5
<1>8. OneMipiEach(w)
  <2>1. ASSUME NEW i \in 1 .. k + 1, NEW j \in 1 .. k + 1, w[i][1] = w[j][1]
        PROVE  i = j
    <3>1. CASE i \in 1 .. k /\ j \in 1 .. k
      <4>1. f[i] = f[j]
        BY <1>4, <1>7, <2>1, <3>1 DEF OneMipiEach
      <4>2. ~(i < j) /\ ~(j < i)
        <5>1. f[i] \in Nat
          BY <1>3, <1>4, <3>1
        <5> QED
          BY <1>3, <3>1, <4>1, <5>1
      <4> QED
        BY <1>4, <4>2
    <3>2. CASE ~(i \in 1 .. k /\ j \in 1 .. k)
      BY <1>5, <1>6, <1>7, <2>1, <3>2
    <3> QED
      BY <3>1, <3>2
  <2> QED
    BY <1>5, <2>1 DEF OneMipiEach
<1>9. e \in Range(w)
  BY <1>5, <1>6 DEF Range
<1>10. ASSUME NEW j \in 1 .. n, list[j][1] # e[1]
       PROVE  \E i \in 1 .. k + 1 : w[i] = list[j]
  <2>1. PICK i \in 1 .. k : f[i] = j
    BY <1>3, <1>10
  <2>2. i \in 1 .. k + 1 /\ w[i] = list[j]
    BY <1>4, <1>7, <2>1
  <2> QED
    BY <2>2
<1>11. ASSUME NEW x \in Range(list), x[1] # e[1]
       PROVE  x \in Range(w)
  <2>1. PICK j \in 1 .. n : x = list[j]
    BY <1>4 DEF Range
  <2>2. PICK i \in 1 .. k + 1 : w[i] = x
    BY <1>10, <1>11, <2>1
  <2> QED
    BY <1>5, <2>2 DEF Range
<1>12. MipisOf(list) \subseteq MipisOf(w)
  <2>1. ASSUME NEW j \in 1 .. n
        PROVE  \E i \in 1 .. k + 1 : w[i][1] = list[j][1]
    BY <1>5, <1>6, <1>10
  <2>2. ASSUME NEW y \in MipisOf(list)
        PROVE  y \in MipisOf(w)
    <3>1. PICK j \in 1 .. n : y = list[j][1]
      BY <1>4 DEF MipisOf
    <3>2. PICK i \in 1 .. k + 1 : w[i][1] = y
      BY <2>1, <3>1
    <3> QED
      BY <1>5, <3>2 DEF MipisOf
  <2> QED
    BY <2>2
<1> QED
  BY <1>1, <1>2, <1>5, <1>8, <1>9, <1>11, <1>12 DEF w

------------------------------------------------------------------------------
(* A line is read.                                                         *)

LEMMA TokenSeq ==
  ASSUME NEW X, NEW p \in Seq(X)
  PROVE  /\ Len(p) \in Nat /\ DOMAIN p = 1 .. Len(p) /\ (p = <<>> <=> Len(p) = 0)
         /\ \A i \in 1 .. Len(p) : p[i] \in X
         /\ p # <<>> => /\ Tail(p) \in Seq(X) /\ Len(Tail(p)) = Len(p) - 1
                        /\ \A i \in 1 .. Len(p) - 1 : Tail(p)[i] = p[i + 1]
OBVIOUS

LEMMA MinidumpKeeps ==
  ASSUME NEW c, ConfigInv(c), NEW p
  PROVE  ConfigInv(ParseMinidumpLine(c, p)) /\ Extends(ParseMinidumpLine(c, p), c)
BY DEF ConfigInv, Configs, Extends, ParseMinidumpLine

LEMMA StorageKeeps ==
  ASSUME NEW c, ConfigInv(c), NEW p
  PROVE  ConfigInv(ParseStorageLine(c, p)) /\ Extends(ParseStorageLine(c, p), c)
BY DEF ConfigInv, Configs, Extends, ParseStorageLine

LEMMA DspKeeps ==
  ASSUME NEW c, ConfigInv(c), NEW p
  PROVE  /\ ConfigInv(ParseAgdspLogDest(c, p)) /\ Extends(ParseAgdspLogDest(c, p), c)
         /\ ConfigInv(ParseOnOff(c, p)) /\ Extends(ParseOnOff(c, p), c)
BY DEF ConfigInv, Configs, Extends, ParseAgdspLogDest, ParseOnOff

LEMMA MipilogKeeps ==
  ASSUME NEW c, ConfigInv(c), NEW p \in Seq(Tokens)
  PROVE  ConfigInv(ParseMipilogLine(c, p)) /\ Extends(ParseMipilogLine(c, p), c)
<1>1. CASE ~(Len(p) >= 3 /\ p[1] \in MipiTypes /\ p[2] \in MipiChannels /\ p[3] \in MipiFreqs)
  BY <1>1 DEF ParseMipilogLine, Extends
<1>2. CASE Len(p) >= 3 /\ p[1] \in MipiTypes /\ p[2] \in MipiChannels /\ p[3] \in MipiFreqs
  <2> DEFINE e == SubSeq(p, 1, 3)
             w == WithMipi(c.m_mipilog, e)
  <2>1. e \in Mipis
    BY <1>2 DEF Mipis
  <2>2. c.m_mipilog \in Seq(Mipis) /\ OneMipiEach(c.m_mipilog)
    BY DEF ConfigInv, Configs
  <2> HIDE DEF e
  <2>3. w \in Seq(Mipis) /\ OneMipiEach(w) /\ MipisOf(c.m_mipilog) \subseteq MipisOf(w)
    BY <2>1, <2>2, WithMipiIs
  <2>4. ParseMipilogLine(c, p) = [c EXCEPT !.m_mipilog = w]
    BY <1>2 DEF ParseMipilogLine, e
  <2> HIDE DEF w
  <2> QED
    BY <2>3, <2>4 DEF ConfigInv, Configs, Extends
<1> QED
  BY <1>1, <1>2

LEMMA StreamKeeps ==
  ASSUME NEW c, ConfigInv(c), NEW p \in Seq(Tokens), NEW b
  PROVE  /\ ConfigInv(ParseStreamLine(c, p, b))
         /\ (Len(p) >= 1 /\ GetModemType(p[1]) # Unknown
               => GetModemType(p[1]) \in Range(TypesOf(c.m_config)))
              => Extends(ParseStreamLine(c, p, b), c)
<1> DEFINE t == GetModemType(p[1])
           r == ParseStreamLine(c, p, b)
<1>1. c.m_config \in Seq(Entries) /\ OneEach(c.m_config) /\ c \in Configs
  BY DEF ConfigInv, Configs
<1>2. CASE Len(p) < 7 \/ t = Unknown \/ p[2] \notin DOMAIN GetLogMode
  <2>1. r = c
    BY <1>2 DEF ParseStreamLine
  <2> QED
    BY <2>1 DEF Extends
<1>3. CASE ~(Len(p) < 7) /\ t # Unknown /\ p[2] \in DOMAIN GetLogMode
  <2> DEFINE e == [type |-> t, mode |-> GetLogMode[p[2]], internal_limit |-> p[3],
                   external_limit |-> p[4], file_size_limit |-> p[5], overwrite |-> p[7] = "on"]
             again == IF b THEN [e EXCEPT !.internal_limit = "1024"] ELSE e
  <2>1. /\ t \in Types /\ GetLogMode[p[2]] \in {"LM_OFF", "LM_NORMAL", "LM_EVENT"}
        /\ p[3] \in Tokens /\ p[4] \in Tokens /\ p[5] \in Tokens /\ "1024" \in Tokens
    <3>1. \A i \in 1 .. Len(p) : p[i] \in Tokens
      OBVIOUS
    <3>2. 3 \in 1 .. Len(p) /\ 4 \in 1 .. Len(p) /\ 5 \in 1 .. Len(p)
      BY <1>3
    <3>3. t \in Types
      BY <1>3, ModemTypeIs
    <3>4. GetLogMode[p[2]] \in {"LM_OFF", "LM_NORMAL", "LM_EVENT"}
      BY <1>3 DEF GetLogMode
    <3>5. "1024" \in Tokens
      BY DEF Tokens, Words
    <3> QED
      BY <3>1, <3>2, <3>3, <3>4, <3>5
  <2>2. e \in Entries /\ e.type = t
    BY <2>1 DEF Entries
  <2>3. again \in Entries /\ again.type = t
    BY <2>1, <2>2 DEF Entries
  <2>4. r = IF Has(c.m_config, t)
            THEN [c EXCEPT !.m_config = Replaced(c.m_config, t, again)]
            ELSE [c EXCEPT !.m_config = Append(c.m_config, e)]
    BY <1>3 DEF ParseStreamLine, With, Replaced
  <2> HIDE DEF e, again, t, r
  <2>5. CASE Has(c.m_config, t)
    <3> DEFINE list == Replaced(c.m_config, t, again)
    <3>1. list \in Seq(Entries) /\ OneEach(list) /\ TypesOf(list) = TypesOf(c.m_config)
      BY <1>1, <2>3, <2>5, ReplacedIs
    <3>2. r = [c EXCEPT !.m_config = list]
      BY <2>4, <2>5
    <3> HIDE DEF list
    <3>3. ConfigInv(r) /\ Extends(r, c)
      BY <3>1, <3>2 DEF ConfigInv, Configs, Extends
    <3> QED
      BY <3>3 DEF r
  <2>6. CASE ~Has(c.m_config, t)
    <3> DEFINE list == Append(c.m_config, e)
    <3>1. list \in Seq(Entries) /\ OneEach(list)
      BY <1>1, <2>2, <2>6, AppendedIs
    <3>2. r = [c EXCEPT !.m_config = list]
      BY <2>4, <2>6
    <3> HIDE DEF list
    <3>3. ConfigInv(r)
      BY <3>1, <3>2 DEF ConfigInv, Configs
    <3>4. t \notin Range(TypesOf(c.m_config))
      BY <1>1, <2>6, IndexIs DEF Range, TypesOf
    <3>5. Len(p) >= 1
      BY <1>3
    <3> QED
      BY <1>3, <3>3, <3>4, <3>5 DEF r, t
  <2> QED
    BY <2>5, <2>6
<1> QED
  BY <1>2, <1>3

LEMMA IqKeeps ==
  ASSUME NEW c, ConfigInv(c), NEW p
  PROVE  ConfigInv(ParseIqLine(c, p)) /\ Extends(ParseIqLine(c, p), c)
<1> DEFINE t == GetModemType(p[1])
           types == Range(Tail(p))
           r == ParseIqLine(c, p)
           iq == [type |-> t, gsm_iq |-> "GSM" \in types, wcdma_iq |-> "WCDMA" \in types]
<1>1. c.m_iq_config \in Seq(Iqs) /\ OneEach(c.m_iq_config) /\ c \in Configs
  BY DEF ConfigInv, Configs
<1>2. CASE Len(p) < 2 \/ t = Unknown \/ ~(types \subseteq {"GSM", "WCDMA"})
  <2>1. r = c
    BY <1>2 DEF ParseIqLine
  <2> QED
    BY <2>1 DEF Extends
<1>3. CASE ~(Len(p) < 2 \/ t = Unknown \/ ~(types \subseteq {"GSM", "WCDMA"}))
  <2>1. iq \in Iqs /\ iq.type = t
    BY <1>3, ModemTypeIs DEF Iqs
  <2>2. r = IF Has(c.m_iq_config, t)
            THEN [c EXCEPT !.m_iq_config = Replaced(c.m_iq_config, t, iq)]
            ELSE [c EXCEPT !.m_iq_config = Append(c.m_iq_config, iq)]
    BY <1>3 DEF ParseIqLine, With, Replaced
  <2> DEFINE list == IF Has(c.m_iq_config, t) THEN Replaced(c.m_iq_config, t, iq)
                     ELSE Append(c.m_iq_config, iq)
  <2> HIDE DEF iq, t, r
  <2>3. /\ list \in Seq(Iqs) /\ OneEach(list)
        /\ Range(TypesOf(c.m_iq_config)) \subseteq Range(TypesOf(list))
    <3>1. CASE Has(c.m_iq_config, t)
      BY <1>1, <2>1, <3>1, ReplacedIs
    <3>2. CASE ~Has(c.m_iq_config, t)
      BY <1>1, <2>1, <3>2, AppendedIs
    <3> QED
      BY <3>1, <3>2
  <2>4. r = [c EXCEPT !.m_iq_config = list]
    BY <2>2
  <2> HIDE DEF list
  <2>5. ConfigInv(r) /\ Extends(r, c)
    BY <2>3, <2>4 DEF ConfigInv, Configs, Extends
  <2> QED
    BY <2>5 DEF r
<1> QED
  BY <1>2, <1>3

LEMMA LineKeeps ==
  ASSUME NEW c, ConfigInv(c), NEW line \in Seq(Tokens), NEW b
  PROVE  /\ ConfigInv(Step("parse", b, c, line))
         /\ AddsNone(line, c) => Extends(Step("parse", b, c, line), c)
<1> DEFINE p == Tail(line)
           r == Step("parse", b, c, line)
<1>1. CASE line = <<>>
  BY <1>1 DEF Step, Extends
<1>2. CASE line # <<>>
  <2>1. /\ p \in Seq(Tokens) /\ Len(p) = Len(line) - 1 /\ Len(line) \in Nat
        /\ Len(line) >= 2 => p[1] = line[2]
    BY <1>2, TokenSeq
  <2>2. r = ParseLine(c, line, b)
    BY <1>2 DEF Step
  <2> HIDE DEF r
  <2>3. CASE line[1] = "iq"
    <3>1. r = ParseIqLine(c, p)
      BY <2>2, <2>3 DEF ParseLine
    <3> QED
      BY <3>1, IqKeeps DEF r
  <2>4. CASE line[1] = "stream"
    <3>1. r = ParseStreamLine(c, p, b)
      BY <2>2, <2>4 DEF ParseLine
    <3>2. AddsNone(line, c) =>
            (Len(p) >= 1 /\ GetModemType(p[1]) # Unknown
               => GetModemType(p[1]) \in Range(TypesOf(c.m_config)))
      BY <2>1, <2>4 DEF AddsNone
    <3> HIDE DEF p
    <3> QED
      BY <2>1, <3>1, <3>2, StreamKeeps DEF r
  <2>5. CASE line[1] = "storage"
    <3>1. r = ParseStorageLine(c, p)
      BY <2>2, <2>5 DEF ParseLine
    <3> QED
      BY <3>1, StorageKeeps DEF r
  <2>6. CASE line[1] = "mipilog"
    <3>1. r = ParseMipilogLine(c, p)
      BY <2>2, <2>6 DEF ParseLine
    <3> QED
      BY <2>1, <3>1, MipilogKeeps DEF r
  <2>7. CASE line[1] = "minidump"
    <3>1. r = ParseMinidumpLine(c, p)
      BY <2>2, <2>7 DEF ParseLine
    <3> QED
      BY <3>1, MinidumpKeeps DEF r
  <2>8. CASE line[1] = "agdsp_log_dest"
    <3>1. r = ParseAgdspLogDest(c, p)
      BY <2>2, <2>8 DEF ParseLine
    <3> QED
      BY <3>1, DspKeeps DEF r
  <2>9. CASE line[1] = "agdsp_pcm_dump"
    <3>1. r = ParseOnOff(c, p)
      BY <2>2, <2>9 DEF ParseLine
    <3> QED
      BY <3>1, DspKeeps DEF r
  <2>10. CASE line[1] \notin {"iq", "stream", "storage", "mipilog", "minidump", "agdsp_log_dest",
                              "agdsp_pcm_dump"}
    <3>1. r = c
      BY <2>2, <2>10 DEF ParseLine
    <3> QED
      BY <3>1 DEF r, Extends
  <2> QED
    BY <2>3, <2>4, <2>5, <2>6, <2>7, <2>8, <2>9, <2>10
<1> QED
  BY <1>1, <1>2

------------------------------------------------------------------------------
(* A file is read.                                                         *)

LEMMA ReadingKeeps ==
  ASSUME NEW c, ConfigInv(c), NEW lines \in Seq(Seq(Tokens)), NEW b
  PROVE  /\ ConfigInv(ParseConfigFile(c, lines, b))
         /\ (\A i \in DOMAIN lines : AddsNone(lines[i], c)) => Extends(ParseConfigFile(c, lines, b), c)
<1> DEFINE n == Len(lines)
<1>1. n \in Nat /\ DOMAIN lines = 1 .. n /\ \A k \in 1 .. n : lines[k] \in Seq(Tokens)
  BY TokenSeq
<1>2. c \in Configs
  BY DEF ConfigInv
<1>3. ConfigInv(ParseConfigFile(c, lines, b))
  <2> DEFINE S == [k \in 0 .. n |-> {a \in Configs : ConfigInv(a)}]
  <2>1. c \in S[0]
    BY <1>1, <1>2
  <2>2. \A k \in 1 .. n : \A a \in S[k - 1] : Step("parse", b, a, lines[k]) \in S[k]
    <3>1. ASSUME NEW k \in 1 .. n, NEW a \in S[k - 1]
          PROVE  Step("parse", b, a, lines[k]) \in S[k]
      <4>1. k \in 0 .. n /\ k - 1 \in 0 .. n
        BY <1>1
      <4>2. ConfigInv(a)
        BY <4>1
      <4>3. ConfigInv(Step("parse", b, a, lines[k]))
        BY <1>1, <4>2, LineKeeps
      <4>4. Step("parse", b, a, lines[k]) \in Configs
        BY <4>3 DEF ConfigInv
      <4> QED
        BY <4>1, <4>3, <4>4
    <3> QED
      BY <3>1
  <2>3. S[n] = {a \in Configs : ConfigInv(a)}
    BY <1>1
  <2> HIDE DEF S
  <2>4. ParseConfigFile(c, lines, b) \in S[n]
    BY <2>1, <2>2, ParseFold
  <2> QED
    BY <2>3, <2>4
<1>4. ASSUME \A i \in 1 .. n : AddsNone(lines[i], c)
      PROVE  Extends(ParseConfigFile(c, lines, b), c)
  <2> DEFINE S == [k \in 0 .. n |-> {a \in Configs : ConfigInv(a) /\ Extends(a, c)}]
  <2>1. c \in S[0]
    BY <1>1, <1>2 DEF Extends
  <2>2. \A k \in 1 .. n : \A a \in S[k - 1] : Step("parse", b, a, lines[k]) \in S[k]
    <3>1. ASSUME NEW k \in 1 .. n, NEW a \in S[k - 1]
          PROVE  Step("parse", b, a, lines[k]) \in S[k]
      <4>1. k \in 0 .. n /\ k - 1 \in 0 .. n
        BY <1>1
      <4>2. ConfigInv(a) /\ Extends(a, c)
        BY <4>1
      <4>3. AddsNone(lines[k], a)
        BY <1>4, <4>2 DEF AddsNone, Extends
      <4> DEFINE v == Step("parse", b, a, lines[k])
      <4>4. ConfigInv(v) /\ Extends(v, a)
        BY <1>1, <4>2, <4>3, LineKeeps
      <4> HIDE DEF v
      <4>5. Extends(v, c) /\ v \in Configs
        BY <4>2, <4>4 DEF Extends, ConfigInv
      <4>6. v \in S[k]
        BY <4>1, <4>4, <4>5
      <4> QED
        BY <4>6 DEF v
    <3> QED
      BY <3>1
  <2>3. S[n] = {a \in Configs : ConfigInv(a) /\ Extends(a, c)}
    BY <1>1
  <2> HIDE DEF S
  <2>4. ParseConfigFile(c, lines, b) \in S[n]
    BY <2>1, <2>2, ParseFold
  <2> QED
    BY <2>3, <2>4
<1> QED
  BY <1>1, <1>3, <1>4

LEMMA TokensOf ==
  ASSUME NEW p \in Seq(STRING)
  PROVE  p \in Seq(Tokens)
<1>1. STRING \subseteq Tokens
  BY DEF Tokens
<1> HIDE DEF Tokens
<1>2. \A k \in 1 .. Len(p) : p[k] \in STRING
  OBVIOUS
<1>3. \A k \in 1 .. Len(p) : p[k] \in Tokens
  BY <1>1, <1>2
<1>4. p = [k \in 1 .. Len(p) |-> p[k]] /\ Len(p) \in Nat
  OBVIOUS
<1> QED
  BY <1>3, <1>4

LEMMA TokensOfInitial == Initial \in Seq(Seq(Tokens))
<1>1. Initial \in Seq(Seq(STRING))
  BY SettingsAssumption DEF SettingsAssumption
<1>2. \A k \in 1 .. Len(Initial) : Initial[k] \in Seq(STRING)
  BY <1>1
<1>3. \A k \in 1 .. Len(Initial) : Initial[k] \in Seq(Tokens)
  BY <1>2, TokensOf
<1> QED
  BY <1>1, <1>3

LEMMA ShippedIs ==
  ASSUME NEW b
  PROVE  ConfigInv(Shipped(b))
<1>1. ConfigInv(DefaultConfig)
  <2>1. DefaultConfig \in Configs
    BY DEF DefaultConfig, Configs
  <2> QED
    BY <2>1 DEF DefaultConfig, ConfigInv, OneEach, OneMipiEach
<1> QED
  BY <1>1, TokensOfInitial, ReadingKeeps DEF Shipped

LEMMA ReadConfigIs ==
  ASSUME NEW b, NEW file, FileInv(file, b)
  PROVE  ConfigInv(ReadConfig(Initial, file, b)) /\ Extends(ReadConfig(Initial, file, b), Shipped(b))
<1> DEFINE c == Shipped(b)
           d == ParseConfigFile(c, file.lines, b)
<1>1. ConfigInv(c)
  BY ShippedIs
<1>2. file.lines \in Seq(Seq(Tokens)) /\ \A i \in DOMAIN file.lines : AddsNone(file.lines[i], c)
  BY DEF FileInv, Files
<1>3. ReadConfig(Initial, file, b) = IF file.exists THEN [d EXCEPT !.use_work_conf_file = TRUE] ELSE c
  BY DEF ReadConfig, Shipped
<1> HIDE DEF c
<1>4. ConfigInv(d) /\ Extends(d, c)
  BY <1>1, <1>2, ReadingKeeps
<1> HIDE DEF d
<1>5. ConfigInv([d EXCEPT !.use_work_conf_file = TRUE]) /\ Extends([d EXCEPT !.use_work_conf_file = TRUE], c)
  BY <1>4 DEF ConfigInv, Configs, Extends
<1>6. Extends(c, c)
  BY DEF Extends
<1> QED
  BY <1>1, <1>3, <1>5, <1>6 DEF c

------------------------------------------------------------------------------
(* A file is written.                                                      *)

LEMMA JoinTwo ==
  ASSUME NEW X, NEW s \in Seq(X), NEW t \in Seq(X)
  PROVE  /\ s \o t \in Seq(X) /\ Len(s \o t) = Len(s) + Len(t) /\ Len(s) \in Nat /\ Len(t) \in Nat
         /\ \A i \in 1 .. Len(s) : (s \o t)[i] = s[i]
         /\ \A i \in 1 .. Len(t) : (s \o t)[i + Len(s)] = t[i]
<1>1. /\ s \o t \in Seq(X) /\ Len(s \o t) = Len(s) + Len(t)
      /\ \A i \in 1 .. Len(s) + Len(t) : (s \o t)[i] = IF i <= Len(s) THEN s[i] ELSE t[i - Len(s)]
  BY ConcatProperties
<1>2. Len(s) \in Nat /\ Len(t) \in Nat
  OBVIOUS
<1>3. ASSUME NEW i \in 1 .. Len(s)
      PROVE  (s \o t)[i] = s[i]
  BY <1>1, <1>2
<1>4. ASSUME NEW i \in 1 .. Len(t)
      PROVE  (s \o t)[i + Len(s)] = t[i]
  <2>1. i + Len(s) \in 1 .. Len(s) + Len(t) /\ ~(i + Len(s) <= Len(s)) /\ i + Len(s) - Len(s) = i
    BY <1>2
  <2> QED
    BY <1>1, <2>1
<1> QED
  BY <1>1, <1>2, <1>3, <1>4

LEMMA LineIs ==
  /\ \A e \in Mipis : /\ MipiLine(e) \in Seq(Tokens) /\ Len(MipiLine(e)) = 4
                      /\ MipiLine(e)[1] = "mipilog"
                      /\ \A i \in 1 .. 3 : MipiLine(e)[i + 1] = e[i]
  /\ \A e \in Iqs : /\ IqLine(e) \in Seq(Tokens) /\ Len(IqLine(e)) >= 2
                    /\ IqLine(e)[1] = "iq" /\ IqLine(e)[2] = CpTypeToName[e.type]
  /\ \A e \in Entries : StreamLine(e) \in Seq(Tokens)
<1>1. ASSUME NEW e \in Mipis
      PROVE  /\ MipiLine(e) \in Seq(Tokens) /\ Len(MipiLine(e)) = 4
             /\ MipiLine(e)[1] = "mipilog"
             /\ \A i \in 1 .. 3 : MipiLine(e)[i + 1] = e[i]
  <2> DEFINE a == <<"mipilog">>
  <2>1. "mipilog" \in Tokens
    BY DEF Tokens, Words
  <2>2. a \in Seq(Tokens) /\ Len(a) = 1 /\ a[1] = "mipilog" /\ e \in Seq(Tokens) /\ Len(e) = 3
    BY <2>1 DEF Mipis
  <2>3. MipiLine(e) = a \o e
    BY DEF MipiLine
  <2> HIDE DEF a
  <2>4. /\ a \o e \in Seq(Tokens) /\ Len(a \o e) = 1 + 3
        /\ \A i \in 1 .. 1 : (a \o e)[i] = a[i]
        /\ \A i \in 1 .. 3 : (a \o e)[i + 1] = e[i]
    <3>1. /\ a \o e \in Seq(Tokens) /\ Len(a \o e) = Len(a) + Len(e) /\ Len(a) \in Nat /\ Len(e) \in Nat
          /\ \A i \in 1 .. Len(a) : (a \o e)[i] = a[i]
          /\ \A i \in 1 .. Len(e) : (a \o e)[i + Len(a)] = e[i]
      <4>1. a \in Seq(Tokens) /\ e \in Seq(Tokens)
        BY <2>2
      <4> QED
        BY <4>1, JoinTwo
    <3> QED
      BY <2>2, <3>1
  <2>5. (a \o e)[1] = "mipilog"
    BY <2>2, <2>4
  <2> QED
    BY <2>3, <2>4, <2>5
<1>2. ASSUME NEW e \in Iqs
      PROVE  /\ IqLine(e) \in Seq(Tokens) /\ Len(IqLine(e)) >= 2
             /\ IqLine(e)[1] = "iq" /\ IqLine(e)[2] = CpTypeToName[e.type]
  <2> DEFINE a == <<"iq", CpTypeToName[e.type]>>
             g == IF e.gsm_iq THEN <<"GSM">> ELSE <<>>
             w == IF e.wcdma_iq THEN <<"WCDMA">> ELSE <<>>
  <2>1. "iq" \in Tokens /\ "GSM" \in Tokens /\ "WCDMA" \in Tokens /\ CpTypeToName[e.type] \in Tokens
    BY ModemTypeIs DEF Tokens, Words, Iqs
  <2>2. /\ a \in Seq(Tokens) /\ Len(a) = 2 /\ a[1] = "iq" /\ a[2] = CpTypeToName[e.type]
        /\ g \in Seq(Tokens) /\ w \in Seq(Tokens)
    BY <2>1
  <2>3. IqLine(e) = (a \o g) \o w
    BY DEF IqLine
  <2> HIDE DEF a, g, w
  <2>4. PICK h : h = a \o g
    OBVIOUS
  <2>5. h \in Seq(Tokens) /\ Len(h) >= 2 /\ h[1] = a[1] /\ h[2] = a[2] /\ Len(h) \in Nat
    <3>1. 2 \in Nat /\ Len(g) \in Nat
      BY <2>2
    <3>2. /\ a \o g \in Seq(Tokens) /\ Len(a \o g) = Len(a) + Len(g)
          /\ \A i \in 1 .. Len(a) : (a \o g)[i] = a[i]
      <4>1. a \in Seq(Tokens) /\ g \in Seq(Tokens)
        BY <2>2
      <4> QED
        BY <4>1, JoinTwo
    <3> QED
      BY <2>2, <2>4, <3>1, <3>2
  <2>6. h \o w \in Seq(Tokens) /\ Len(h \o w) >= 2 /\ (h \o w)[1] = h[1] /\ (h \o w)[2] = h[2]
    <3>1. Len(w) \in Nat
      BY <2>2
    <3>2. /\ h \o w \in Seq(Tokens) /\ Len(h \o w) = Len(h) + Len(w)
          /\ \A i \in 1 .. Len(h) : (h \o w)[i] = h[i]
      <4>1. h \in Seq(Tokens) /\ w \in Seq(Tokens)
        BY <2>2, <2>5
      <4> QED
        BY <4>1, JoinTwo
    <3> QED
      BY <2>5, <3>1, <3>2
  <2> QED
    BY <2>2, <2>3, <2>4, <2>5, <2>6
<1>3. ASSUME NEW e \in Entries
      PROVE  StreamLine(e) \in Seq(Tokens)
  <2>1. /\ "stream" \in Tokens /\ CpTypeToName[e.type] \in Tokens /\ LogModeToString(e.mode) \in Tokens
        /\ "level" \in Tokens /\ OnOff(e.overwrite) \in Tokens
    BY ModemTypeIs DEF Tokens, Words, Entries, LogModeToString, OnOff
  <2>2. e.internal_limit \in Tokens /\ e.external_limit \in Tokens /\ e.file_size_limit \in Tokens
    BY DEF Entries
  <2> QED
    BY <2>1, <2>2 DEF StreamLine
<1> QED
  BY <1>1, <1>2, <1>3

\* The lines of c, part by part.
Part(c, lines) ==
  LET m == Len(c.m_mipilog)
      q == Len(c.m_iq_config)
      n == Len(c.m_config)
  IN /\ lines \in Seq(Seq(Tokens)) /\ Len(lines) = m + q + n + 4
     /\ m \in Nat /\ q \in Nat /\ n \in Nat
     /\ lines[1] = <<"storage", IF c.ext_stor_active THEN "external" ELSE "internal">>
     /\ lines[2] = <<"minidump", IF c.m_enable_md THEN "enable" ELSE "disable",
                     IF c.m_md_save_to_int THEN "internal" ELSE "external">>
     /\ \A i \in 1 .. m : lines[i + 2] = MipiLine(c.m_mipilog[i])
     /\ \A i \in 1 .. q : lines[i + m + 2] = IqLine(c.m_iq_config[i])
     /\ \A i \in 1 .. n : lines[i + m + q + 2] = StreamLine(c.m_config[i])
     /\ lines[m + q + n + 3] = <<"agdsp_log_dest", c.agdsp_log_dest>>
     /\ lines[m + q + n + 4] = <<"agdsp_pcm_dump", OnOff(c.agdsp_pcm_dump)>>

LEMMA LinesAre ==
  ASSUME NEW c, ConfigInv(c)
  PROVE  Part(c, Lines(c))
<1> DEFINE m == Len(c.m_mipilog)
           q == Len(c.m_iq_config)
           n == Len(c.m_config)
           s1 == << <<"storage", IF c.ext_stor_active THEN "external" ELSE "internal">>,
                    <<"minidump", IF c.m_enable_md THEN "enable" ELSE "disable",
                      IF c.m_md_save_to_int THEN "internal" ELSE "external">> >>
           s2 == [i \in DOMAIN c.m_mipilog |-> MipiLine(c.m_mipilog[i])]
           s3 == [i \in DOMAIN c.m_iq_config |-> IqLine(c.m_iq_config[i])]
           s4 == [i \in DOMAIN c.m_config |-> StreamLine(c.m_config[i])]
           s5 == << <<"agdsp_log_dest", c.agdsp_log_dest>>,
                    <<"agdsp_pcm_dump", OnOff(c.agdsp_pcm_dump)>> >>
           X == Seq(Tokens)
<1>1. Lines(c) = (((s1 \o s2) \o s3) \o s4) \o s5
  BY DEF Lines
<1>2. /\ c.m_mipilog \in Seq(Mipis) /\ c.m_iq_config \in Seq(Iqs) /\ c.m_config \in Seq(Entries)
      /\ c.agdsp_log_dest \in {"off", "uart", "ap"}
  BY DEF ConfigInv, Configs
<1>3. m \in Nat /\ q \in Nat /\ n \in Nat
  BY <1>2
<1>4. /\ s1 \in Seq(X) /\ Len(s1) = 2
      /\ s1[1] = <<"storage", IF c.ext_stor_active THEN "external" ELSE "internal">>
      /\ s1[2] = <<"minidump", IF c.m_enable_md THEN "enable" ELSE "disable",
                   IF c.m_md_save_to_int THEN "internal" ELSE "external">>
  <2>1. /\ "storage" \in Tokens /\ "external" \in Tokens /\ "internal" \in Tokens
        /\ "minidump" \in Tokens /\ "enable" \in Tokens /\ "disable" \in Tokens
    BY DEF Tokens, Words
  <2> QED
    BY <2>1
<1>5. s2 \in Seq(X) /\ Len(s2) = m /\ \A i \in 1 .. m : s2[i] = MipiLine(c.m_mipilog[i])
  <2>1. DOMAIN c.m_mipilog = 1 .. m /\ \A i \in 1 .. m : c.m_mipilog[i] \in Mipis
    BY <1>2
  <2>2. s2 \in [1 .. m -> X]
    BY <2>1, LineIs
  <2> QED
    BY <1>3, <2>1, <2>2
<1>6. s3 \in Seq(X) /\ Len(s3) = q /\ \A i \in 1 .. q : s3[i] = IqLine(c.m_iq_config[i])
  <2>1. DOMAIN c.m_iq_config = 1 .. q /\ \A i \in 1 .. q : c.m_iq_config[i] \in Iqs
    BY <1>2
  <2>2. s3 \in [1 .. q -> X]
    BY <2>1, LineIs
  <2> QED
    BY <1>3, <2>1, <2>2
<1>7. s4 \in Seq(X) /\ Len(s4) = n /\ \A i \in 1 .. n : s4[i] = StreamLine(c.m_config[i])
  <2>1. DOMAIN c.m_config = 1 .. n /\ \A i \in 1 .. n : c.m_config[i] \in Entries
    BY <1>2
  <2>2. s4 \in [1 .. n -> X]
    BY <2>1, LineIs
  <2> QED
    BY <1>3, <2>1, <2>2
<1>8. /\ s5 \in Seq(X) /\ Len(s5) = 2
      /\ s5[1] = <<"agdsp_log_dest", c.agdsp_log_dest>>
      /\ s5[2] = <<"agdsp_pcm_dump", OnOff(c.agdsp_pcm_dump)>>
  <2>1. /\ "agdsp_log_dest" \in Tokens /\ "agdsp_pcm_dump" \in Tokens /\ c.agdsp_log_dest \in Tokens
        /\ OnOff(c.agdsp_pcm_dump) \in Tokens
    BY <1>2 DEF Tokens, Words, OnOff
  <2> QED
    BY <2>1
<1> HIDE DEF s1, s2, s3, s4, s5, m, q, n, X
<1>9. PICK t2 : t2 = s1 \o s2
  OBVIOUS
<1>10. /\ t2 \in Seq(X) /\ Len(t2) = m + 2 /\ t2[1] = s1[1] /\ t2[2] = s1[2]
       /\ \A i \in 1 .. m : t2[i + 2] = s2[i]
  <2>1. /\ s1 \o s2 \in Seq(X) /\ Len(s1 \o s2) = 2 + m
        /\ \A i \in 1 .. 2 : (s1 \o s2)[i] = s1[i]
        /\ \A i \in 1 .. m : (s1 \o s2)[i + 2] = s2[i]
    <3>1. s1 \in Seq(X) /\ s2 \in Seq(X)
      BY <1>4, <1>5
    <3>2. /\ s1 \o s2 \in Seq(X) /\ Len(s1 \o s2) = Len(s1) + Len(s2)
          /\ \A i \in 1 .. Len(s1) : (s1 \o s2)[i] = s1[i]
          /\ \A i \in 1 .. Len(s2) : (s1 \o s2)[i + Len(s1)] = s2[i]
      BY <3>1, JoinTwo
    <3>3. Len(s1) = 2 /\ Len(s2) = m
      BY <1>4, <1>5
    <3> QED
      BY <3>2, <3>3
  <2> QED
    BY <1>3, <1>9, <2>1
<1>11. PICK t3 : t3 = t2 \o s3
  OBVIOUS
<1>12. /\ t3 \in Seq(X) /\ Len(t3) = m + q + 2
       /\ \A i \in 1 .. m + 2 : t3[i] = t2[i]
       /\ \A i \in 1 .. q : t3[i + m + 2] = s3[i]
  <2>1. /\ m + 2 \in Nat /\ m + 2 + q = m + q + 2 /\ \A i \in 1 .. q : i + (m + 2) = i + m + 2
    BY <1>3
  <2>2. /\ t2 \o s3 \in Seq(X) /\ Len(t2 \o s3) = m + 2 + q
        /\ \A i \in 1 .. m + 2 : (t2 \o s3)[i] = t2[i]
        /\ \A i \in 1 .. q : (t2 \o s3)[i + (m + 2)] = s3[i]
    <3>1. t2 \in Seq(X) /\ s3 \in Seq(X)
      BY <1>6, <1>10
    <3>2. /\ t2 \o s3 \in Seq(X) /\ Len(t2 \o s3) = Len(t2) + Len(s3)
          /\ \A i \in 1 .. Len(t2) : (t2 \o s3)[i] = t2[i]
          /\ \A i \in 1 .. Len(s3) : (t2 \o s3)[i + Len(t2)] = s3[i]
      BY <3>1, JoinTwo
    <3>3. Len(t2) = m + 2 /\ Len(s3) = q
      BY <1>6, <1>10
    <3> QED
      BY <3>2, <3>3
  <2> QED
    BY <1>11, <2>1, <2>2
<1>13. PICK t4 : t4 = t3 \o s4
  OBVIOUS
<1>14. /\ t4 \in Seq(X) /\ Len(t4) = m + q + n + 2
       /\ \A i \in 1 .. m + q + 2 : t4[i] = t3[i]
       /\ \A i \in 1 .. n : t4[i + m + q + 2] = s4[i]
  <2>1. /\ m + q + 2 \in Nat /\ m + q + 2 + n = m + q + n + 2
        /\ \A i \in 1 .. n : i + (m + q + 2) = i + m + q + 2
    BY <1>3
  <2>2. /\ t3 \o s4 \in Seq(X) /\ Len(t3 \o s4) = m + q + 2 + n
        /\ \A i \in 1 .. m + q + 2 : (t3 \o s4)[i] = t3[i]
        /\ \A i \in 1 .. n : (t3 \o s4)[i + (m + q + 2)] = s4[i]
    <3>1. t3 \in Seq(X) /\ s4 \in Seq(X)
      BY <1>7, <1>12
    <3>2. /\ t3 \o s4 \in Seq(X) /\ Len(t3 \o s4) = Len(t3) + Len(s4)
          /\ \A i \in 1 .. Len(t3) : (t3 \o s4)[i] = t3[i]
          /\ \A i \in 1 .. Len(s4) : (t3 \o s4)[i + Len(t3)] = s4[i]
      BY <3>1, JoinTwo
    <3>3. Len(t3) = m + q + 2 /\ Len(s4) = n
      BY <1>7, <1>12
    <3> QED
      BY <3>2, <3>3
  <2> QED
    BY <1>13, <2>1, <2>2
<1>15. PICK t5 : t5 = t4 \o s5
  OBVIOUS
<1>16. /\ t5 \in Seq(X) /\ Len(t5) = m + q + n + 4
       /\ \A i \in 1 .. m + q + n + 2 : t5[i] = t4[i]
       /\ t5[m + q + n + 3] = s5[1] /\ t5[m + q + n + 4] = s5[2]
  <2>1. /\ m + q + n + 2 \in Nat /\ m + q + n + 2 + 2 = m + q + n + 4
        /\ 1 + (m + q + n + 2) = m + q + n + 3 /\ 2 + (m + q + n + 2) = m + q + n + 4
        /\ 1 \in 1 .. 2 /\ 2 \in 1 .. 2
    BY <1>3
  <2>2. /\ t4 \o s5 \in Seq(X) /\ Len(t4 \o s5) = m + q + n + 2 + 2
        /\ \A i \in 1 .. m + q + n + 2 : (t4 \o s5)[i] = t4[i]
        /\ \A i \in 1 .. 2 : (t4 \o s5)[i + (m + q + n + 2)] = s5[i]
    <3>1. t4 \in Seq(X) /\ s5 \in Seq(X)
      BY <1>8, <1>14
    <3>2. /\ t4 \o s5 \in Seq(X) /\ Len(t4 \o s5) = Len(t4) + Len(s5)
          /\ \A i \in 1 .. Len(t4) : (t4 \o s5)[i] = t4[i]
          /\ \A i \in 1 .. Len(s5) : (t4 \o s5)[i + Len(t4)] = s5[i]
      BY <3>1, JoinTwo
    <3>3. Len(t4) = m + q + n + 2 /\ Len(s5) = 2
      BY <1>8, <1>14
    <3> QED
      BY <3>2, <3>3
  <2> QED
    BY <1>15, <2>1, <2>2
<1>17. Lines(c) = t5
  BY <1>1, <1>9, <1>11, <1>13, <1>15
<1>18. t5[1] = s1[1] /\ t5[2] = s1[2]
  <2>1. /\ 1 \in 1 .. m + 2 /\ 2 \in 1 .. m + 2 /\ 1 \in 1 .. m + q + 2 /\ 2 \in 1 .. m + q + 2
        /\ 1 \in 1 .. m + q + n + 2 /\ 2 \in 1 .. m + q + n + 2
    BY <1>3
  <2> QED
    BY <1>10, <1>12, <1>14, <1>16, <2>1
<1>19. \A i \in 1 .. m : t5[i + 2] = s2[i]
  <2>1. \A i \in 1 .. m : i + 2 \in 1 .. m + 2 /\ i + 2 \in 1 .. m + q + 2 /\ i + 2 \in 1 .. m + q + n + 2
    BY <1>3
  <2> QED
    BY <1>10, <1>12, <1>14, <1>16, <2>1
<1>20. \A i \in 1 .. q : t5[i + m + 2] = s3[i]
  <2>1. \A i \in 1 .. q : i + m + 2 \in 1 .. m + q + 2 /\ i + m + 2 \in 1 .. m + q + n + 2
    BY <1>3
  <2> QED
    BY <1>12, <1>14, <1>16, <2>1
<1>21. \A i \in 1 .. n : t5[i + m + q + 2] = s4[i]
  <2>1. \A i \in 1 .. n : i + m + q + 2 \in 1 .. m + q + n + 2
    BY <1>3
  <2> QED
    BY <1>14, <1>16, <2>1
<1>22. \A i \in 1 .. m : t5[i + 2] = MipiLine(c.m_mipilog[i])
  BY <1>5, <1>19
<1>23. \A i \in 1 .. q : t5[i + m + 2] = IqLine(c.m_iq_config[i])
  BY <1>6, <1>20
<1>24. \A i \in 1 .. n : t5[i + m + q + 2] = StreamLine(c.m_config[i])
  BY <1>7, <1>21
<1>25. Part(c, t5)
  BY <1>3, <1>4, <1>8, <1>16, <1>18, <1>22, <1>23, <1>24 DEF Part, m, q, n, X
<1> QED
  BY <1>17, <1>25

------------------------------------------------------------------------------
(* Settings are changed.                                                   *)

\* d is c with a change that is marked.
Changes(c, d) == ConfigInv(d) /\ Extends(d, c) /\ (d.m_dirty \/ d = c)

\* d is c but that t has the entry e.
EntryIs(c, d, t, e) ==
  /\ Changes(c, d)
  /\ \A u : Has(d.m_config, u) <=> Has(c.m_config, u)
  /\ Find(d.m_config, t) = e
  /\ \A u : Has(c.m_config, u) /\ u # t => Find(d.m_config, u) = Find(c.m_config, u)
  /\ d = [c EXCEPT !.m_config = d.m_config, !.m_dirty = d.m_dirty]

LEMMA FindIs ==
  ASSUME NEW X, NEW list \in Seq(X), NEW t, Has(list, t)
  PROVE  Find(list, t) \in X /\ Find(list, t).type = t
<1>1. Index(list, t) \in DOMAIN list /\ list[Index(list, t)].type = t
  BY IndexIs
<1>2. \A i \in DOMAIN list : list[i] \in X
  OBVIOUS
<1> QED
  BY <1>1, <1>2 DEF Find

LEMMA EntryChanged ==
  ASSUME NEW c, ConfigInv(c), NEW t, Has(c.m_config, t), NEW e \in Entries, e.type = t,
         NEW d, d = [c EXCEPT !.m_config = Replaced(c.m_config, t, e), !.m_dirty = TRUE]
  PROVE  EntryIs(c, d, t, e)
<1>1. c \in Configs /\ c.m_config \in Seq(Entries) /\ OneEach(c.m_config)
  BY DEF ConfigInv, Configs
<1>2. PICK r : r = Replaced(c.m_config, t, e)
  OBVIOUS
<1>3. /\ r \in Seq(Entries) /\ OneEach(r) /\ TypesOf(r) = TypesOf(c.m_config) /\ Find(r, t) = e
      /\ \A u : Has(r, u) <=> Has(c.m_config, u)
      /\ \A u : Has(c.m_config, u) /\ u # t => Find(r, u) = Find(c.m_config, u)
  BY <1>1, <1>2, ReplacedIs
<1>4. /\ d \in Configs /\ d.m_config = r /\ d.m_dirty /\ d.m_iq_config = c.m_iq_config
      /\ d.m_mipilog = c.m_mipilog
  BY <1>1, <1>2, <1>3 DEF Configs
<1>5. ConfigInv(d)
  BY <1>3, <1>4 DEF ConfigInv
<1>6. Extends(d, c)
  BY <1>3, <1>4 DEF Extends
<1>7. d = [c EXCEPT !.m_config = d.m_config, !.m_dirty = d.m_dirty]
  BY <1>1, <1>2, <1>4 DEF Configs
<1> QED
  BY <1>3, <1>4, <1>5, <1>6, <1>7 DEF EntryIs, Changes

LEMMA EntryStays ==
  ASSUME NEW c, ConfigInv(c), NEW t
  PROVE  EntryIs(c, c, t, Find(c.m_config, t))
<1>1. c = [c EXCEPT !.m_config = c.m_config, !.m_dirty = c.m_dirty]
  BY DEF ConfigInv, Configs
<1> QED
  BY <1>1 DEF EntryIs, Changes, Extends

LEMMA SetsEntry ==
  ASSUME NEW c, ConfigInv(c), NEW t, Has(c.m_config, t), NEW sz \in Tokens, NEW mt,
         NEW en \in BOOLEAN, NEW mode \in {"LM_OFF", "LM_NORMAL"}
  PROVE  /\ EntryIs(c, SetCpStorageLimit(c, t, mt, sz), t,
                    IF mt = "internal" THEN [Find(c.m_config, t) EXCEPT !.internal_limit = sz]
                    ELSE [Find(c.m_config, t) EXCEPT !.external_limit = sz])
         /\ EntryIs(c, SetCpLogFileSize(c, t, sz), t, [Find(c.m_config, t) EXCEPT !.file_size_limit = sz])
         /\ EntryIs(c, SetCpLogOverwrite(c, t, en), t, [Find(c.m_config, t) EXCEPT !.overwrite = en])
         /\ EntryIs(c, SetLogMode(c, t, mode), t, [Find(c.m_config, t) EXCEPT !.mode = mode])
<1> DEFINE e == Find(c.m_config, t)
           k == Index(c.m_config, t)
<1>1. e \in Entries /\ e.type = t /\ e = c.m_config[k] /\ c.m_config \in Seq(Entries)
  <2>1. c.m_config \in Seq(Entries)
    BY DEF ConfigInv, Configs
  <2> QED
    BY <2>1, FindIs DEF Find
<1>2. EntryIs(c, SetCpStorageLimit(c, t, mt, sz), t,
              IF mt = "internal" THEN [e EXCEPT !.internal_limit = sz] ELSE [e EXCEPT !.external_limit = sz])
  <2>1. PICK f : f = IF mt = "internal" THEN [e EXCEPT !.internal_limit = sz]
                     ELSE [e EXCEPT !.external_limit = sz]
    OBVIOUS
  <2>2. f \in Entries /\ f.type = t
    BY <1>1, <2>1 DEF Entries
  <2>3. SetCpStorageLimit(c, t, mt, sz)
          = [c EXCEPT !.m_config = Replaced(c.m_config, t, f), !.m_dirty = TRUE]
    BY <1>1, <2>1 DEF SetCpStorageLimit, Changed, With, Replaced
  <2> QED
    BY <2>1, <2>2, <2>3, EntryChanged
<1>3. EntryIs(c, SetCpLogFileSize(c, t, sz), t, [e EXCEPT !.file_size_limit = sz])
  <2>1. PICK f : f = [e EXCEPT !.file_size_limit = sz]
    OBVIOUS
  <2>2. f \in Entries /\ f.type = t
    BY <1>1, <2>1 DEF Entries
  <2>3. SetCpLogFileSize(c, t, sz)
          = [c EXCEPT !.m_config = Replaced(c.m_config, t, f), !.m_dirty = TRUE]
    BY <1>1, <2>1 DEF SetCpLogFileSize, Changed, With, Replaced
  <2> QED
    BY <2>1, <2>2, <2>3, EntryChanged
<1>4. EntryIs(c, SetCpLogOverwrite(c, t, en), t, [e EXCEPT !.overwrite = en])
  <2>1. PICK f : f = [e EXCEPT !.overwrite = en]
    OBVIOUS
  <2>2. f \in Entries /\ f.type = t
    BY <1>1, <2>1 DEF Entries
  <2>3. CASE e.overwrite # en
    <3>1. SetCpLogOverwrite(c, t, en)
            = [c EXCEPT !.m_config = Replaced(c.m_config, t, f), !.m_dirty = TRUE]
      BY <1>1, <2>1, <2>3 DEF SetCpLogOverwrite, Changed, With, Replaced
    <3> QED
      BY <2>1, <2>2, <3>1, EntryChanged
  <2>4. CASE e.overwrite = en
    <3>1. SetCpLogOverwrite(c, t, en) = c /\ f = e
      BY <1>1, <2>1, <2>4 DEF SetCpLogOverwrite, Entries
    <3> QED
      BY <2>1, <3>1, EntryStays
  <2> QED
    BY <2>3, <2>4
<1>5. EntryIs(c, SetLogMode(c, t, mode), t, [e EXCEPT !.mode = mode])
  <2>1. PICK f : f = [e EXCEPT !.mode = mode]
    OBVIOUS
  <2>2. f \in Entries /\ f.type = t
    BY <1>1, <2>1 DEF Entries
  <2>3. CASE e.mode # mode
    <3>1. SetLogMode(c, t, mode)
            = [c EXCEPT !.m_config = Replaced(c.m_config, t, f), !.m_dirty = TRUE]
      BY <1>1, <2>1, <2>3 DEF SetLogMode, Changed, With, Replaced
    <3> QED
      BY <2>1, <2>2, <3>1, EntryChanged
  <2>4. CASE e.mode = mode
    <3>1. SetLogMode(c, t, mode) = c /\ f = e
      BY <1>1, <2>1, <2>4 DEF SetLogMode, Entries
    <3> QED
      BY <2>1, <3>1, EntryStays
  <2> QED
    BY <2>3, <2>4
<1> QED
  BY <1>2, <1>3, <1>4, <1>5

LEMMA SetsFlag ==
  ASSUME NEW c, ConfigInv(c), NEW en \in BOOLEAN, NEW dest \in {"off", "uart", "ap"}
  PROVE  /\ Changes(c, SetExternalStor(c, en)) /\ Changes(c, SetMdIntStor(c, en)) /\ Changes(c, EnableMd(c, en))
         /\ Changes(c, SetAgdspLogDest(c, dest)) /\ Changes(c, EnableAgdspPcmDump(c, en))
         /\ SetExternalStor(c, en) = [c EXCEPT !.ext_stor_active = en, !.m_dirty = SetExternalStor(c, en).m_dirty]
         /\ SetMdIntStor(c, en) = [c EXCEPT !.m_md_save_to_int = en, !.m_dirty = SetMdIntStor(c, en).m_dirty]
         /\ EnableMd(c, en) = [c EXCEPT !.m_enable_md = en, !.m_dirty = EnableMd(c, en).m_dirty]
         /\ SetAgdspLogDest(c, dest) = [c EXCEPT !.agdsp_log_dest = dest, !.m_dirty = SetAgdspLogDest(c, dest).m_dirty]
         /\ EnableAgdspPcmDump(c, en) = [c EXCEPT !.agdsp_pcm_dump = en, !.m_dirty = EnableAgdspPcmDump(c, en).m_dirty]
<1>1. c \in Configs
  BY DEF ConfigInv
<1>2. /\ Changes(c, SetExternalStor(c, en))
      /\ SetExternalStor(c, en) = [c EXCEPT !.ext_stor_active = en, !.m_dirty = SetExternalStor(c, en).m_dirty]
  BY <1>1 DEF SetExternalStor, Changes, Extends, ConfigInv, Configs
<1>3. /\ Changes(c, SetMdIntStor(c, en))
      /\ SetMdIntStor(c, en) = [c EXCEPT !.m_md_save_to_int = en, !.m_dirty = SetMdIntStor(c, en).m_dirty]
  BY <1>1 DEF SetMdIntStor, Changes, Extends, ConfigInv, Configs
<1>4. /\ Changes(c, EnableMd(c, en))
      /\ EnableMd(c, en) = [c EXCEPT !.m_enable_md = en, !.m_dirty = EnableMd(c, en).m_dirty]
  BY <1>1 DEF EnableMd, Changes, Extends, ConfigInv, Configs
<1>5. /\ Changes(c, SetAgdspLogDest(c, dest))
      /\ SetAgdspLogDest(c, dest) = [c EXCEPT !.agdsp_log_dest = dest, !.m_dirty = SetAgdspLogDest(c, dest).m_dirty]
  BY <1>1 DEF SetAgdspLogDest, Changes, Extends, ConfigInv, Configs
<1>6. /\ Changes(c, EnableAgdspPcmDump(c, en))
      /\ EnableAgdspPcmDump(c, en) = [c EXCEPT !.agdsp_pcm_dump = en, !.m_dirty = EnableAgdspPcmDump(c, en).m_dirty]
  BY <1>1 DEF EnableAgdspPcmDump, Changes, Extends, ConfigInv, Configs
<1> QED
  BY <1>2, <1>3, <1>4, <1>5, <1>6

LEMMA SetsMipi ==
  ASSUME NEW c, ConfigInv(c), NEW e \in Mipis
  PROVE  /\ Changes(c, SetMipiLogInfo(c, WithMipi(c.m_mipilog, e)))
         /\ SetMipiLogInfo(c, WithMipi(c.m_mipilog, e))
              = [c EXCEPT !.m_mipilog = WithMipi(c.m_mipilog, e), !.m_dirty = TRUE]
<1>1. c \in Configs /\ c.m_mipilog \in Seq(Mipis) /\ OneMipiEach(c.m_mipilog)
  BY DEF ConfigInv, Configs
<1>2. PICK l : l = WithMipi(c.m_mipilog, e)
  OBVIOUS
<1>3. l \in Seq(Mipis) /\ OneMipiEach(l) /\ MipisOf(c.m_mipilog) \subseteq MipisOf(l)
  BY <1>1, <1>2, WithMipiIs
<1>4. PICK d : d = [c EXCEPT !.m_mipilog = l, !.m_dirty = TRUE]
  OBVIOUS
<1>5. /\ d \in Configs /\ d.m_mipilog = l /\ d.m_dirty /\ d.m_iq_config = c.m_iq_config
      /\ d.m_config = c.m_config
  BY <1>1, <1>3, <1>4 DEF Configs
<1>6. ConfigInv(d) /\ Extends(d, c)
  BY <1>3, <1>5 DEF ConfigInv, Extends
<1> QED
  BY <1>2, <1>4, <1>5, <1>6 DEF SetMipiLogInfo, Changes

LEMMA SetsIq ==
  ASSUME NEW c, ConfigInv(c), NEW t \in Types
  PROVE  /\ Changes(c, EnableIq(c, t)) /\ Changes(c, DisableIq(c, t))
         /\ EnableIq(c, t) = [c EXCEPT !.m_iq_config = EnableIq(c, t).m_iq_config, !.m_dirty = EnableIq(c, t).m_dirty]
         /\ DisableIq(c, t) = [c EXCEPT !.m_iq_config = DisableIq(c, t).m_iq_config, !.m_dirty = DisableIq(c, t).m_dirty]
         /\ WcdmaIqEnabled(EnableIq(c, t), t)
         /\ ~WcdmaIqEnabled(DisableIq(c, t), t)
<1>1. c \in Configs /\ c.m_iq_config \in Seq(Iqs) /\ OneEach(c.m_iq_config)
  BY DEF ConfigInv, Configs
<1>2. ASSUME NEW l \in Seq(Iqs), OneEach(l), Range(TypesOf(c.m_iq_config)) \subseteq Range(TypesOf(l)),
             NEW d, d = [c EXCEPT !.m_iq_config = l, !.m_dirty = TRUE]
      PROVE  /\ Changes(c, d)
             /\ d = [c EXCEPT !.m_iq_config = d.m_iq_config, !.m_dirty = d.m_dirty]
             /\ d.m_iq_config = l
  <2>1. /\ d \in Configs /\ d.m_iq_config = l /\ d.m_dirty /\ d.m_mipilog = c.m_mipilog
        /\ d.m_config = c.m_config
    BY <1>1, <1>2 DEF Configs
  <2>2. ConfigInv(d) /\ Extends(d, c)
    BY <1>1, <1>2, <2>1 DEF ConfigInv, Extends
  <2>3. d = [c EXCEPT !.m_iq_config = d.m_iq_config, !.m_dirty = d.m_dirty]
    BY <1>1, <1>2, <2>1 DEF Configs
  <2> QED
    BY <2>1, <2>2, <2>3 DEF Changes
<1>3. c = [c EXCEPT !.m_iq_config = c.m_iq_config, !.m_dirty = c.m_dirty] /\ Changes(c, c)
  BY <1>1 DEF Configs, Changes, Extends
<1>4. /\ Changes(c, EnableIq(c, t)) /\ WcdmaIqEnabled(EnableIq(c, t), t)
      /\ EnableIq(c, t) = [c EXCEPT !.m_iq_config = EnableIq(c, t).m_iq_config, !.m_dirty = EnableIq(c, t).m_dirty]
  <2>1. PICK list : list = IF Has(c.m_iq_config, t) THEN c.m_iq_config
                           ELSE Append(c.m_iq_config, [type |-> t, gsm_iq |-> FALSE, wcdma_iq |-> FALSE])
    OBVIOUS
  <2>2. list \in Seq(Iqs) /\ OneEach(list) /\ Has(list, t)
        /\ Range(TypesOf(c.m_iq_config)) \subseteq Range(TypesOf(list))
        /\ (Find(list, t).wcdma_iq => list = c.m_iq_config)
    <3>1. CASE Has(c.m_iq_config, t)
      BY <1>1, <2>1, <3>1
    <3>2. CASE ~Has(c.m_iq_config, t)
      <4>1. PICK new : new = [type |-> t, gsm_iq |-> FALSE, wcdma_iq |-> FALSE]
        OBVIOUS
      <4>2. new \in Iqs /\ new.type = t /\ ~new.wcdma_iq
        BY <4>1 DEF Iqs
      <4>3. list = Append(c.m_iq_config, new)
        BY <2>1, <3>2, <4>1
      <4>4. /\ list \in Seq(Iqs) /\ OneEach(list)
            /\ Range(TypesOf(c.m_iq_config)) \subseteq Range(TypesOf(list))
            /\ Has(list, t) /\ Find(list, t) = new
        BY <1>1, <3>2, <4>2, <4>3, AppendedIs
      <4> QED
        BY <4>2, <4>4
    <3> QED
      BY <3>1, <3>2
  <2>3. Find(list, t) \in Iqs /\ Find(list, t).type = t
    BY <2>2, FindIs
  <2>4. CASE Find(list, t).wcdma_iq
    <3>1. EnableIq(c, t) = c /\ list = c.m_iq_config
      BY <2>1, <2>2, <2>4 DEF EnableIq
    <3> QED
      BY <1>3, <2>2, <2>4, <3>1 DEF WcdmaIqEnabled
  <2>5. CASE ~Find(list, t).wcdma_iq
    <3>1. PICK new : new = [Find(list, t) EXCEPT !.wcdma_iq = TRUE]
      OBVIOUS
    <3>2. new \in Iqs /\ new.type = t /\ new.wcdma_iq
      BY <2>3, <3>1 DEF Iqs
    <3>3. PICK l : l = Replaced(list, t, new)
      OBVIOUS
    <3>4. /\ l \in Seq(Iqs) /\ OneEach(l) /\ TypesOf(l) = TypesOf(list) /\ Find(l, t) = new
          /\ Has(l, t)
      BY <2>2, <3>2, <3>3, ReplacedIs
    <3>5. EnableIq(c, t) = [c EXCEPT !.m_iq_config = l, !.m_dirty = TRUE]
      BY <2>1, <2>5, <3>1, <3>3 DEF EnableIq, With, Replaced, Find
    <3>6. Range(TypesOf(c.m_iq_config)) \subseteq Range(TypesOf(l))
      BY <2>2, <3>4
    <3>7. PICK d : d = EnableIq(c, t)
      OBVIOUS
    <3>8. /\ Changes(c, d) /\ d = [c EXCEPT !.m_iq_config = d.m_iq_config, !.m_dirty = d.m_dirty]
          /\ d.m_iq_config = l
      BY <1>2, <3>4, <3>5, <3>6, <3>7
    <3>9. WcdmaIqEnabled(d, t)
      BY <3>2, <3>4, <3>8 DEF WcdmaIqEnabled
    <3> QED
      BY <3>7, <3>8, <3>9
  <2> QED
    BY <2>4, <2>5
<1>5. /\ Changes(c, DisableIq(c, t)) /\ ~WcdmaIqEnabled(DisableIq(c, t), t)
      /\ DisableIq(c, t) = [c EXCEPT !.m_iq_config = DisableIq(c, t).m_iq_config, !.m_dirty = DisableIq(c, t).m_dirty]
  <2>1. CASE ~(Has(c.m_iq_config, t) /\ Find(c.m_iq_config, t).wcdma_iq)
    <3>1. DisableIq(c, t) = c
      BY <2>1 DEF DisableIq
    <3> QED
      BY <1>3, <2>1, <3>1 DEF WcdmaIqEnabled
  <2>2. CASE Has(c.m_iq_config, t) /\ Find(c.m_iq_config, t).wcdma_iq
    <3>1. PICK new : new = [Find(c.m_iq_config, t) EXCEPT !.wcdma_iq = FALSE]
      OBVIOUS
    <3>2. new \in Iqs /\ new.type = t /\ ~new.wcdma_iq
      <4>1. Find(c.m_iq_config, t) \in Iqs /\ Find(c.m_iq_config, t).type = t
        BY <1>1, <2>2, FindIs
      <4> QED
        BY <3>1, <4>1 DEF Iqs
    <3>3. PICK l : l = Replaced(c.m_iq_config, t, new)
      OBVIOUS
    <3>4. /\ l \in Seq(Iqs) /\ OneEach(l) /\ TypesOf(l) = TypesOf(c.m_iq_config) /\ Find(l, t) = new
      BY <1>1, <2>2, <3>2, <3>3, ReplacedIs
    <3>5. DisableIq(c, t) = [c EXCEPT !.m_iq_config = l, !.m_dirty = TRUE]
      BY <2>2, <3>1, <3>3 DEF DisableIq, With, Replaced, Find
    <3>6. PICK d : d = DisableIq(c, t)
      OBVIOUS
    <3>7. /\ Changes(c, d) /\ d = [c EXCEPT !.m_iq_config = d.m_iq_config, !.m_dirty = d.m_dirty]
          /\ d.m_iq_config = l
      BY <1>2, <3>4, <3>5, <3>6
    <3>8. ~WcdmaIqEnabled(d, t)
      BY <3>2, <3>4, <3>7 DEF WcdmaIqEnabled
    <3> QED
      BY <3>6, <3>7, <3>8
  <2> QED
    BY <2>1, <2>2
<1> QED
  BY <1>4, <1>5

------------------------------------------------------------------------------
(* Commands for the MODEM.                                                 *)

MipiLists == {list \in Seq(Mipis) : OneMipiEach(list)}
Values == Seq(Tokens) \cup MipiLists

CmdShape(c) ==
  /\ c \in [opened : BOOLEAN, timer : BOOLEAN, suspended : [Cmd!Settings -> BOOLEAN],
            value : [Cmd!Settings -> Values], told : [Cmd!Settings -> Values],
            owed : [Cmd!Settings -> Values]]
  /\ c.value["mipi"] \in MipiLists /\ c.told["mipi"] \in MipiLists
  /\ \A x \in Cmd!Settings \ {"mipi"} : c.value[x] \in Seq(Tokens)

Reached(c, x) == IF x = "mipi" THEN Range(c.owed[x]) \subseteq Range(c.told[x]) ELSE c.told[x] = c.owed[x]
IsKept(c, x) == c.suspended[x] /\ c.value[x] = c.owed[x]
Claim(c, x, working, restarted) ==
  \/ c.owed[x] = Cmd!Nothing \/ ~working
  \/ x \in {"dest", "pcm"} /\ restarted
  \/ Reached(c, x)

\* The MODEM has what it was told of the settings in "done", and those in
\* "late" are still to be told if they are kept.
CmdDue(c, done, late, working, restarted) ==
  /\ CmdShape(c) /\ (c.opened \/ c.timer)
  /\ ~c.opened => \A x \in Cmd!Settings : c.owed[x] = Cmd!Nothing \/ IsKept(c, x)
  /\ c.opened => /\ \A x \in done : Claim(c, x, working, restarted)
                 /\ \A x \in late : Claim(c, x, working, restarted) \/ IsKept(c, x)
CmdInv(c, working, restarted) == CmdDue(c, Cmd!Settings, {}, working, restarted)

SetValue(c, x, value, writable) ==
  IF ~c.opened THEN Cmd!Suspend(c, x, value)
  ELSE IF writable THEN Cmd!Tell(c, x, value) ELSE Cmd!GivenUp(c, x)

IsValue(value, x) ==
  /\ x = "mipi" => value \in MipiLists
  /\ x # "mipi" => value \in Seq(Tokens)

LEMMA WrittenIs ==
  ASSUME NEW told \in MipiLists, NEW value \in MipiLists
  PROVE  Cmd!Written(told, value) \in MipiLists /\ Range(value) \subseteq Range(Cmd!Written(told, value))
<1> DEFINE n == Len(value)
           S == [k \in 0 .. n |-> {l \in MipiLists : \A i \in 1 .. k : value[i] \in Range(l)}]
<1>1. /\ value \in Seq(Mipis) /\ n \in Nat /\ DOMAIN value = 1 .. n /\ \A i \in 1 .. n : value[i] \in Mipis
      /\ OneMipiEach(value)
  BY DEF MipiLists
<1>2. told \in S[0]
  BY <1>1
<1>3. ASSUME NEW k \in 1 .. n, NEW a \in S[k - 1]
      PROVE  Step("write", 0, a, value[k]) \in S[k]
  <2>1. k \in 0 .. n /\ k - 1 \in 0 .. n /\ k \in Nat /\ k - 1 \in Nat
    BY <1>1
  <2>2. a \in MipiLists /\ \A i \in 1 .. k - 1 : value[i] \in Range(a)
    BY <2>1
  <2>3. Step("write", 0, a, value[k]) = WithMipi(a, value[k])
    BY DEF Step
  <2>4. PICK r : r = WithMipi(a, value[k])
    OBVIOUS
  <2>5. a \in Seq(Mipis) /\ OneMipiEach(a) /\ value[k] \in Mipis
    BY <1>1, <2>2 DEF MipiLists
  <2>6. /\ r \in Seq(Mipis) /\ OneMipiEach(r) /\ value[k] \in Range(r)
        /\ \A x \in Range(a) : x[1] # value[k][1] => x \in Range(r)
    BY <2>4, <2>5, WithMipiIs
  <2>7. ASSUME NEW i \in 1 .. k
        PROVE  value[i] \in Range(r)
    <3>1. CASE i = k
      BY <2>6, <3>1
    <3>2. CASE i # k
      <4>1. i \in 1 .. k - 1 /\ i \in 1 .. n /\ k \in 1 .. n
        BY <1>1, <2>1, <3>2
      <4>2. value[i][1] # value[k][1]
        BY <1>1, <3>2, <4>1 DEF OneMipiEach
      <4> QED
        BY <2>2, <2>6, <4>1, <4>2
    <3> QED
      BY <3>1, <3>2
  <2>8. r \in S[k]
    BY <2>1, <2>6, <2>7 DEF MipiLists
  <2> QED
    BY <2>3, <2>4, <2>8
<1>4. S[n] = {l \in MipiLists : \A i \in 1 .. n : value[i] \in Range(l)}
  BY <1>1
<1> HIDE DEF S
<1>5. Cmd!Written(told, value) \in S[n]
  BY <1>1, <1>2, <1>3, WriteFold
<1>6. Cmd!Written(told, value) \in MipiLists /\ \A i \in 1 .. n : value[i] \in Range(Cmd!Written(told, value))
  BY <1>4, <1>5
<1> QED
  BY <1>1, <1>6 DEF Range

LEMMA SetValueIs ==
  ASSUME NEW c, NEW x \in Cmd!Settings, NEW value, NEW writable \in BOOLEAN, CmdShape(c),
         IsValue(value, x),
         NEW d, d = SetValue(c, x, value, writable)
  PROVE  /\ CmdShape(d) /\ d.opened = c.opened /\ d.timer = c.timer
         /\ ~c.opened => IsKept(d, x)
         /\ c.opened => Reached(d, x) /\ d.suspended = c.suspended /\ d.value = c.value
         /\ \A y \in Cmd!Settings \ {x} : /\ d.owed[y] = c.owed[y] /\ d.told[y] = c.told[y]
                                          /\ d.value[y] = c.value[y] /\ d.suspended[y] = c.suspended[y]
<1>1. value \in Values /\ "mipi" \in Cmd!Settings
  BY DEF Values, IsValue, Cmd!Settings
<1>2. CASE ~c.opened
  <2>1. d = Cmd!Suspend(c, x, value)
    BY <1>2 DEF SetValue
  <2>2. d = [c EXCEPT !.suspended = [c.suspended EXCEPT ![x] = TRUE], !.value = [c.value EXCEPT ![x] = value],
                      !.owed = [c.owed EXCEPT ![x] = value]]
    BY <2>1 DEF Cmd!Suspend, CmdShape
  <2>3. /\ d.opened = c.opened /\ d.timer = c.timer /\ d.told = c.told
        /\ d.suspended = [c.suspended EXCEPT ![x] = TRUE] /\ d.value = [c.value EXCEPT ![x] = value]
        /\ d.owed = [c.owed EXCEPT ![x] = value]
    BY <2>2 DEF CmdShape
  <2>4. CmdShape(d)
    <3>1. /\ [c.suspended EXCEPT ![x] = TRUE] \in [Cmd!Settings -> BOOLEAN]
          /\ [c.value EXCEPT ![x] = value] \in [Cmd!Settings -> Values]
          /\ [c.owed EXCEPT ![x] = value] \in [Cmd!Settings -> Values]
      BY <1>1 DEF CmdShape
    <3>2. /\ d.value["mipi"] \in MipiLists /\ d.told["mipi"] \in MipiLists
          /\ \A y \in Cmd!Settings \ {"mipi"} : d.value[y] \in Seq(Tokens)
      BY <1>1, <2>3 DEF CmdShape, IsValue
    <3> QED
      BY <2>2, <3>1, <3>2 DEF CmdShape
  <2> QED
    BY <1>1, <1>2, <2>3, <2>4 DEF CmdShape, IsKept
<1>3. CASE c.opened /\ writable
  <2>1. d = Cmd!Tell(c, x, value)
    BY <1>3 DEF SetValue
  <2>2. PICK new : new = IF x = "mipi" THEN Cmd!Written(c.told[x], value) ELSE value
    OBVIOUS
  <2>3. d = [c EXCEPT !.told = [c.told EXCEPT ![x] = new], !.owed = [c.owed EXCEPT ![x] = value]]
    BY <2>1, <2>2 DEF Cmd!Tell, CmdShape
  <2>4. new \in Values /\ (x = "mipi" => new \in MipiLists /\ Range(value) \subseteq Range(new))
        /\ (x # "mipi" => new = value)
    <3>1. CASE x = "mipi"
      <4>1. c.told[x] \in MipiLists /\ value \in MipiLists
        BY <3>1 DEF CmdShape, IsValue
      <4> QED
        BY <2>2, <3>1, <4>1, WrittenIs DEF Values
    <3>2. CASE x # "mipi"
      BY <1>1, <2>2, <3>2
    <3> QED
      BY <3>1, <3>2
  <2>5. /\ d.opened = c.opened /\ d.timer = c.timer /\ d.suspended = c.suspended /\ d.value = c.value
        /\ d.told = [c.told EXCEPT ![x] = new] /\ d.owed = [c.owed EXCEPT ![x] = value]
    BY <2>3 DEF CmdShape
  <2>6. CmdShape(d)
    <3>1. /\ [c.told EXCEPT ![x] = new] \in [Cmd!Settings -> Values]
          /\ [c.owed EXCEPT ![x] = value] \in [Cmd!Settings -> Values]
      BY <1>1, <2>4 DEF CmdShape
    <3>2. /\ d.value["mipi"] \in MipiLists /\ d.told["mipi"] \in MipiLists
          /\ \A y \in Cmd!Settings \ {"mipi"} : d.value[y] \in Seq(Tokens)
      BY <1>1, <2>4, <2>5 DEF CmdShape
    <3> QED
      BY <2>3, <3>1, <3>2 DEF CmdShape
  <2>7. Reached(d, x)
    BY <2>4, <2>5 DEF CmdShape, Reached
  <2> QED
    BY <1>3, <2>5, <2>6, <2>7 DEF CmdShape
<1>4. CASE c.opened /\ ~writable
  <2>1. d = Cmd!GivenUp(c, x)
    BY <1>4 DEF SetValue
  <2>2. d = [c EXCEPT !.owed = [c.owed EXCEPT ![x] = c.told[x]]]
    BY <2>1 DEF Cmd!GivenUp, CmdShape
  <2>3. /\ d.opened = c.opened /\ d.timer = c.timer /\ d.suspended = c.suspended /\ d.value = c.value
        /\ d.told = c.told /\ d.owed = [c.owed EXCEPT ![x] = c.told[x]]
    BY <2>2 DEF CmdShape
  <2>4. CmdShape(d)
    BY <1>1, <2>2, <2>3 DEF CmdShape
  <2>5. Reached(d, x)
    BY <2>3 DEF CmdShape, Reached
  <2> QED
    BY <1>4, <2>3, <2>4, <2>5 DEF CmdShape
<1> QED
  BY <1>2, <1>3, <1>4

LEMMA SetValueDue ==
  ASSUME NEW c, NEW x \in Cmd!Settings, NEW value, NEW writable \in BOOLEAN,
         NEW done \in SUBSET Cmd!Settings, NEW late \in SUBSET Cmd!Settings,
         NEW working \in BOOLEAN, NEW restarted \in BOOLEAN,
         CmdDue(c, done, late, working, restarted),
         IsValue(value, x),
         NEW d, d = SetValue(c, x, value, writable), NEW more, more = done \cup {x}
  PROVE  CmdDue(d, more, late, working, restarted) /\ d.opened = c.opened
<1>1. /\ CmdShape(d) /\ d.opened = c.opened /\ d.timer = c.timer
      /\ ~c.opened => IsKept(d, x)
      /\ c.opened => Reached(d, x) /\ d.suspended = c.suspended /\ d.value = c.value
      /\ \A y \in Cmd!Settings \ {x} : /\ d.owed[y] = c.owed[y] /\ d.told[y] = c.told[y]
                                       /\ d.value[y] = c.value[y] /\ d.suspended[y] = c.suspended[y]
  <2>1. CmdShape(c)
    BY DEF CmdDue
  <2> QED
    BY <2>1, SetValueIs
<1>2. d.opened \/ d.timer
  BY <1>1 DEF CmdDue
<1>3. ASSUME ~d.opened, NEW y \in Cmd!Settings
      PROVE  d.owed[y] = Cmd!Nothing \/ IsKept(d, y)
  <2>1. CASE y = x
    BY <1>1, <1>3, <2>1
  <2>2. CASE y # x
    <3>1. c.owed[y] = Cmd!Nothing \/ IsKept(c, y)
      BY <1>1, <1>3 DEF CmdDue
    <3> QED
      BY <1>1, <2>2, <3>1 DEF IsKept
  <2> QED
    BY <2>1, <2>2
<1>4. ASSUME NEW y \in Cmd!Settings, y # x, Claim(c, y, working, restarted)
      PROVE  Claim(d, y, working, restarted)
  BY <1>1, <1>4 DEF Claim, Reached
<1>5. c.opened => Claim(d, x, working, restarted)
  BY <1>1 DEF Claim
<1>6. ASSUME d.opened, NEW y \in more
      PROVE  Claim(d, y, working, restarted)
  <2>1. y # x => Claim(c, y, working, restarted)
    BY <1>1, <1>6 DEF CmdDue
  <2> QED
    BY <1>1, <1>4, <1>5, <1>6, <2>1
<1>7. ASSUME d.opened, NEW y \in late
      PROVE  Claim(d, y, working, restarted) \/ IsKept(d, y)
  <2>1. y # x => Claim(c, y, working, restarted) \/ IsKept(c, y)
    BY <1>1, <1>7 DEF CmdDue
  <2>2. y # x /\ IsKept(c, y) => IsKept(d, y)
    BY <1>1 DEF IsKept
  <2> QED
    BY <1>1, <1>4, <1>5, <1>7, <2>1, <2>2
<1> QED
  BY <1>1, <1>2, <1>3, <1>6, <1>7 DEF CmdDue

LEMMA CmdSets ==
  ASSUME NEW c, NEW value, NEW writable
  PROVE  /\ Cmd!SetAgdspLogDest(c, value, writable) = SetValue(c, "dest", value, writable)
         /\ Cmd!SetAgdspPcmDump(c, value, writable) = SetValue(c, "pcm", value, writable)
         /\ Cmd!SetMiniapLogStatus(c, value, writable) = SetValue(c, "miniap", value, writable)
         /\ Cmd!SetOrcadpLogStatus(c, value, writable) = SetValue(c, "orcadp", value, writable)
         /\ Cmd!SetMipiLogInfo(c, value, writable) = SetValue(c, "mipi", value, writable)
BY DEF Cmd!SetAgdspLogDest, Cmd!SetAgdspPcmDump, Cmd!SetMiniapLogStatus, Cmd!SetOrcadpLogStatus,
       Cmd!SetMipiLogInfo, SetValue

\* A kept value is written when the device has been opened.
Resumed(c, x) ==
  IF c.suspended[x] THEN SetValue([c EXCEPT !.suspended[x] = FALSE], x, c.value[x], TRUE) ELSE c

LEMMA ResumedDue ==
  ASSUME NEW c, NEW x \in Cmd!Settings, NEW done \in SUBSET Cmd!Settings, NEW late \in SUBSET Cmd!Settings,
         NEW working \in BOOLEAN, NEW restarted \in BOOLEAN, x \in late, c.opened,
         CmdDue(c, done, late, working, restarted), NEW more, more = done \cup {x},
         NEW rest, rest = late \ {x}, NEW e, e = Resumed(c, x)
  PROVE  CmdDue(e, more, rest, working, restarted) /\ e.opened
<1>1. CASE ~c.suspended[x]
  <2>1. Resumed(c, x) = c
    BY <1>1 DEF Resumed
  <2>2. Claim(c, x, working, restarted)
    BY <1>1 DEF CmdDue, IsKept
  <2> QED
    BY <2>1, <2>2 DEF CmdDue
<1>2. CASE c.suspended[x]
  <2>1. PICK c1 : c1 = [c EXCEPT !.suspended = [c.suspended EXCEPT ![x] = FALSE]]
    OBVIOUS
  <2>2. /\ c1.opened = c.opened /\ c1.timer = c.timer /\ c1.told = c.told /\ c1.owed = c.owed
        /\ c1.value = c.value /\ \A y \in Cmd!Settings : y # x => c1.suspended[y] = c.suspended[y]
        /\ CmdShape(c1)
    BY <2>1 DEF CmdDue, CmdShape
  <2>3. CmdDue(c1, done, rest, working, restarted)
    BY <2>2 DEF CmdDue, Claim, Reached, IsKept
  <2>4. Resumed(c, x) = SetValue(c1, x, c.value[x], TRUE)
    BY <1>2, <2>1 DEF Resumed, CmdDue, CmdShape
  <2>5. PICK d, value : d = SetValue(c1, x, value, TRUE) /\ value = c.value[x]
    OBVIOUS
  <2>6. IsValue(value, x)
    BY <2>5 DEF CmdDue, CmdShape, IsValue
  <2>7. rest \in SUBSET Cmd!Settings
    OBVIOUS
  <2>8. PICK yes \in BOOLEAN : yes = TRUE
    OBVIOUS
  <2>9. d = SetValue(c1, x, value, yes)
    BY <2>5, <2>8 DEF SetValue
  <2>10. CmdDue(d, more, rest, working, restarted) /\ d.opened = c1.opened
    BY <2>3, <2>6, <2>7, <2>9, SetValueDue
  <2> QED
    BY <2>2, <2>4, <2>5, <2>10
<1> QED
  BY <1>1, <1>2 DEF CmdDue, CmdShape

LEMMA ResumeIs ==
  ASSUME NEW c
  PROVE  /\ Cmd!ResumeSetAgdspPcmDump(c) = Resumed(c, "pcm")
         /\ Cmd!ResumeSetAgdspLogDest(c) = Resumed(c, "dest")
         /\ Cmd!ResumeSetMiniapLogStatus(c) = Resumed(c, "miniap")
         /\ Cmd!ResumeSetOrcadpLogStatus(c) = Resumed(c, "orcadp")
         /\ Cmd!ResumeSetMipiLogInfo(c) = Resumed(c, "mipi")
<1>1. Cmd!ResumeSetAgdspPcmDump(c) = Resumed(c, "pcm")
  <2>1. PICK d, v, yes : d = [c EXCEPT !.suspended["pcm"] = FALSE] /\ v = c.value["pcm"] /\ yes = TRUE
    OBVIOUS
  <2>2. Cmd!SetAgdspPcmDump(d, v, yes) = SetValue(d, "pcm", v, yes)
    BY CmdSets
  <2> QED
    BY <2>1, <2>2 DEF Cmd!ResumeSetAgdspPcmDump, Resumed
<1>2. Cmd!ResumeSetAgdspLogDest(c) = Resumed(c, "dest")
  <2>1. PICK d, v, yes : d = [c EXCEPT !.suspended["dest"] = FALSE] /\ v = c.value["dest"] /\ yes = TRUE
    OBVIOUS
  <2>2. Cmd!SetAgdspLogDest(d, v, yes) = SetValue(d, "dest", v, yes)
    BY CmdSets
  <2> QED
    BY <2>1, <2>2 DEF Cmd!ResumeSetAgdspLogDest, Resumed
<1>3. Cmd!ResumeSetMiniapLogStatus(c) = Resumed(c, "miniap")
  <2>1. PICK d, v, yes : d = [c EXCEPT !.suspended["miniap"] = FALSE] /\ v = c.value["miniap"] /\ yes = TRUE
    OBVIOUS
  <2>2. Cmd!SetMiniapLogStatus(d, v, yes) = SetValue(d, "miniap", v, yes)
    BY CmdSets
  <2> QED
    BY <2>1, <2>2 DEF Cmd!ResumeSetMiniapLogStatus, Resumed
<1>4. Cmd!ResumeSetOrcadpLogStatus(c) = Resumed(c, "orcadp")
  <2>1. PICK d, v, yes : d = [c EXCEPT !.suspended["orcadp"] = FALSE] /\ v = c.value["orcadp"] /\ yes = TRUE
    OBVIOUS
  <2>2. Cmd!SetOrcadpLogStatus(d, v, yes) = SetValue(d, "orcadp", v, yes)
    BY CmdSets
  <2> QED
    BY <2>1, <2>2 DEF Cmd!ResumeSetOrcadpLogStatus, Resumed
<1>5. Cmd!ResumeSetMipiLogInfo(c) = Resumed(c, "mipi")
  <2>1. PICK d, v, yes : d = [c EXCEPT !.suspended["mipi"] = FALSE] /\ v = c.value["mipi"] /\ yes = TRUE
    OBVIOUS
  <2>2. Cmd!SetMipiLogInfo(d, v, yes) = SetValue(d, "mipi", v, yes)
    BY CmdSets
  <2> QED
    BY <2>1, <2>2 DEF Cmd!ResumeSetMipiLogInfo, Resumed
<1> QED
  BY <1>1, <1>2, <1>3, <1>4, <1>5

LEMMA ReopenedIs ==
  ASSUME NEW c, NEW exists \in BOOLEAN, NEW working \in BOOLEAN, NEW restarted \in BOOLEAN,
         CmdInv(c, working, restarted)
  PROVE  CmdInv(Cmd!ReopenCmdDev(c, exists), working, restarted)
<1>1. PICK c1 : c1 = Cmd!TryOpen([c EXCEPT !.timer = FALSE], exists)
  OBVIOUS
<1>2. CmdShape(c) /\ (~c.opened => \A x \in Cmd!Settings : c.owed[x] = Cmd!Nothing \/ IsKept(c, x))
      /\ (c.opened => \A x \in Cmd!Settings : Claim(c, x, working, restarted))
  BY DEF CmdInv, CmdDue
<1>3. /\ CmdShape(c1) /\ (c1.opened \/ c1.timer) /\ c1.suspended = c.suspended /\ c1.value = c.value
      /\ c1.owed = c.owed /\ c1.told = c.told /\ (c.opened => c1.opened)
  BY <1>1, <1>2 DEF Cmd!TryOpen, CmdShape
<1>4. CASE ~c1.opened
  <2>1. Cmd!ReopenCmdDev(c, exists) = c1
    BY <1>1, <1>4 DEF Cmd!ReopenCmdDev
  <2>2. CmdInv(c1, working, restarted)
    BY <1>2, <1>3, <1>4 DEF CmdInv, CmdDue, IsKept
  <2> QED
    BY <2>1, <2>2
<1>5. CASE c1.opened
  <2>1. Cmd!Settings = {"pcm", "dest", "miniap", "orcadp", "mipi"}
    BY DEF Cmd!Settings, Cmd!Switches
  <2>2. CmdDue(c1, {}, Cmd!Settings, working, restarted)
    BY <1>2, <1>3, <1>5 DEF CmdDue, Claim, Reached, IsKept
  <2>3. PICK c2 : c2 = Resumed(c1, "pcm")
    OBVIOUS
  <2>4. PICK late2 : late2 = Cmd!Settings \ {"pcm"}
    OBVIOUS
  <2>5. PICK one, two, three, four : /\ one = {"pcm"} /\ two = {"pcm", "dest"}
                                     /\ three = {"pcm", "dest", "miniap"}
                                     /\ four = {"pcm", "dest", "miniap", "orcadp"}
    OBVIOUS
  <2>6. PICK all, none : all = Cmd!Settings /\ none = {}
    OBVIOUS
  <2>7. PICK late3, late4, late5 : /\ late3 = late2 \ {"dest"} /\ late4 = late3 \ {"miniap"}
                                   /\ late5 = late4 \ {"orcadp"}
    OBVIOUS
  <2>8. PICK c3, c4, c5, c6 : /\ c3 = Resumed(c2, "dest") /\ c4 = Resumed(c3, "miniap")
                              /\ c5 = Resumed(c4, "orcadp") /\ c6 = Resumed(c5, "mipi")
    OBVIOUS
  <2>9. /\ \A set \in {none, one, two, three, four, all, late2, late3, late4, late5} : set \in SUBSET Cmd!Settings
        /\ \A x \in {"pcm", "dest", "miniap", "orcadp", "mipi"} : x \in Cmd!Settings
        /\ one = none \cup {"pcm"} /\ two = one \cup {"dest"} /\ three = two \cup {"miniap"}
        /\ four = three \cup {"orcadp"} /\ all = four \cup {"mipi"}
        /\ "pcm" \in all /\ "dest" \in late2 /\ "miniap" \in late3 /\ "orcadp" \in late4
        /\ "mipi" \in late5 /\ none = late5 \ {"mipi"} /\ late2 = all \ {"pcm"}
    BY <2>1, <2>4, <2>5, <2>6, <2>7
  <2>10. CmdDue(c1, none, all, working, restarted) /\ c1.opened
    BY <1>5, <2>2, <2>6
  <2>11. CmdDue(c2, one, late2, working, restarted) /\ c2.opened
    <3>1. PICK x : x = "pcm"
      OBVIOUS
    <3>2. /\ x \in Cmd!Settings /\ none \in SUBSET Cmd!Settings /\ all \in SUBSET Cmd!Settings
          /\ x \in all /\ one = none \cup {x} /\ late2 = all \ {x}
          /\ c2 = Resumed(c1, x)
      BY <2>3, <2>7, <2>8, <2>9, <3>1
    <3> QED
      BY <2>10, <3>2, ResumedDue
  <2>12. CmdDue(c3, two, late3, working, restarted) /\ c3.opened
    <3>1. PICK x : x = "dest"
      OBVIOUS
    <3>2. /\ x \in Cmd!Settings /\ one \in SUBSET Cmd!Settings /\ late2 \in SUBSET Cmd!Settings
          /\ x \in late2 /\ two = one \cup {x} /\ late3 = late2 \ {x}
          /\ c3 = Resumed(c2, x)
      BY <2>3, <2>7, <2>8, <2>9, <3>1
    <3> QED
      BY <2>11, <3>2, ResumedDue
  <2>13. CmdDue(c4, three, late4, working, restarted) /\ c4.opened
    <3>1. PICK x : x = "miniap"
      OBVIOUS
    <3>2. /\ x \in Cmd!Settings /\ two \in SUBSET Cmd!Settings /\ late3 \in SUBSET Cmd!Settings
          /\ x \in late3 /\ three = two \cup {x} /\ late4 = late3 \ {x}
          /\ c4 = Resumed(c3, x)
      BY <2>3, <2>7, <2>8, <2>9, <3>1
    <3> QED
      BY <2>12, <3>2, ResumedDue
  <2>14. CmdDue(c5, four, late5, working, restarted) /\ c5.opened
    <3>1. PICK x : x = "orcadp"
      OBVIOUS
    <3>2. /\ x \in Cmd!Settings /\ three \in SUBSET Cmd!Settings /\ late4 \in SUBSET Cmd!Settings
          /\ x \in late4 /\ four = three \cup {x} /\ late5 = late4 \ {x}
          /\ c5 = Resumed(c4, x)
      BY <2>3, <2>7, <2>8, <2>9, <3>1
    <3> QED
      BY <2>13, <3>2, ResumedDue
  <2>15. CmdDue(c6, all, none, working, restarted) /\ c6.opened
    <3>1. PICK x : x = "mipi"
      OBVIOUS
    <3>2. /\ x \in Cmd!Settings /\ four \in SUBSET Cmd!Settings /\ late5 \in SUBSET Cmd!Settings
          /\ x \in late5 /\ all = four \cup {x} /\ none = late5 \ {x}
          /\ c6 = Resumed(c5, x)
      BY <2>3, <2>7, <2>8, <2>9, <3>1
    <3> QED
      BY <2>14, <3>2, ResumedDue
  <2>16. Cmd!ReopenCmdDev(c, exists) = c6
    BY <1>1, <1>5, <2>3, <2>8, ResumeIs DEF Cmd!ReopenCmdDev, Cmd!DoSuspendActions
  <2> QED
    BY <2>6, <2>15, <2>16 DEF CmdInv
<1> QED
  BY <1>3, <1>4, <1>5 DEF CmdShape

LEMMA CommandsBegin ==
  ASSUME NEW flags, NEW exists \in BOOLEAN, NEW working \in BOOLEAN, NEW restarted \in BOOLEAN
  PROVE  /\ CmdShape(Cmd!CmdInit(flags))
         /\ CmdInv(Cmd!TryOpen(Cmd!CmdInit(flags), exists), working, restarted)
<1>1. PICK c : c = Cmd!CmdInit(flags)
  OBVIOUS
<1>2. <<>> \in MipiLists /\ <<>> \in Seq(Tokens) /\ <<>> \in Values /\ <<"on">> \in Seq(Tokens)
      /\ <<"on">> \in Values
  <2>1. "on" \in Tokens
    BY DEF Tokens, Words
  <2>2. <<>> \in MipiLists
    BY DEF MipiLists, OneMipiEach
  <2> QED
    BY <2>1, <2>2 DEF Values
<1>3. /\ c.suspended \in [Cmd!Settings -> BOOLEAN] /\ c.value \in [Cmd!Settings -> Values]
      /\ c.told \in [Cmd!Settings -> Values] /\ c.owed \in [Cmd!Settings -> Values]
  BY <1>1, <1>2 DEF Cmd!CmdInit, Cmd!Nothing
<1>4. /\ "mipi" \in Cmd!Settings /\ c.value["mipi"] = <<>> /\ c.told["mipi"] = <<>>
      /\ \A x \in Cmd!Settings : c.owed[x] = Cmd!Nothing /\ c.value[x] \in Seq(Tokens)
  BY <1>1, <1>2 DEF Cmd!CmdInit, Cmd!Nothing, Cmd!Settings
<1>5. CmdShape(c) /\ ~c.opened
  BY <1>1, <1>2, <1>3, <1>4 DEF CmdShape, Cmd!CmdInit
<1>6. PICK d : d = Cmd!TryOpen(c, exists)
  OBVIOUS
<1>7. CmdShape(d) /\ (d.opened \/ d.timer) /\ d.owed = c.owed
  BY <1>5, <1>6 DEF Cmd!TryOpen, CmdShape
<1>8. CmdInv(d, working, restarted)
  BY <1>4, <1>7 DEF CmdInv, CmdDue, Claim
<1> QED
  BY <1>1, <1>5, <1>6, <1>8


------------------------------------------------------------------------------
(* What is written is read again.                                          *)

\* For the file and the settings there are, after what was read or saved last.
Cmcc == build = "cmcc"
Survives(file, c) ==
  ~file.torn /\ Readable(c) => Meaning(ReadConfig(Initial, file, Cmcc)) = Meaning(c)

\* How many of n lines, after the first ones, are among k lines.
Done(k, first, n) == IF k <= first THEN 0 ELSE IF k >= first + n THEN n ELSE k - first

LEMMA DoneIs ==
  ASSUME NEW first \in Nat, NEW n \in Nat
  PROVE  /\ Done(0, first, n) = 0
         /\ \A k \in Nat : k >= first + n => Done(k, first, n) = n
         /\ \A k \in Nat : k >= 1 /\ (k <= first \/ k > first + n) => Done(k - 1, first, n) = Done(k, first, n)
         /\ \A i \in 1 .. n : Done(i + first, first, n) = i /\ Done(i + first - 1, first, n) = i - 1
<1>1. Done(0, first, n) = 0 /\ \A k \in Nat : k >= first + n => Done(k, first, n) = n
  BY DEF Done
<1>2. \A k \in Nat : k >= 1 /\ (k <= first \/ k > first + n) => Done(k - 1, first, n) = Done(k, first, n)
  BY DEF Done
<1>3. \A i \in 1 .. n : Done(i + first, first, n) = i /\ Done(i + first - 1, first, n) = i - 1
  BY DEF Done
<1> QED
  BY <1>1, <1>2, <1>3

LEMMA DoneAll ==
  ASSUME NEW first \in Nat, NEW n \in Nat, NEW k \in Nat, k >= first + n
  PROVE  Done(k, first, n) = n
  BY DoneIs

\* The MIPI log: of the entries written j are read, and are the last ones.
MipisRead(list, conf, j) ==
  /\ MipisOf(list) \subseteq MipisOf(conf)
  /\ j <= Len(list)
  /\ \A i \in 1 .. j : list[Len(list) - j + i] = conf[i]

LEMMA MipiNext ==
  ASSUME NEW list \in Seq(Mipis), OneMipiEach(list), NEW conf \in Seq(Mipis), OneMipiEach(conf),
         NEW j \in 1 .. Len(conf), MipisRead(list, conf, j - 1)
  PROVE  MipisRead(WithMipi(list, conf[j]), conf, j)
<1>0. PICK e, type : e = conf[j] /\ type = e[1]
  OBVIOUS
<1> DEFINE r == RemoveFirstMatch(list, LAMBDA old : old[1] = type)
           n == Len(list)
<1>1. /\ n \in Nat /\ DOMAIN list = 1 .. n /\ Len(conf) \in Nat /\ DOMAIN conf = 1 .. Len(conf)
      /\ j \in Nat /\ j >= 1 /\ j <= Len(conf) /\ e \in Mipis
  BY <1>0
<1>2. \/ r = list /\ \A i \in DOMAIN list : list[i][1] # type
      \/ \E i \in DOMAIN list : r = RemoveAt(list, i) /\ list[i][1] = type
  BY RemoveMatch
<1>3. WithMipi(list, e) = Append(r, e)
  BY <1>0 DEF WithMipi
<1> HIDE DEF r
<1>4. j - 1 <= n /\ \A i \in 1 .. j - 1 : list[n - (j - 1) + i] = conf[i]
  BY DEF MipisRead
<1>5. \A i \in 1 .. j - 1 : conf[i][1] # type
  BY <1>0, <1>1 DEF OneMipiEach
<1>6. /\ r \in Seq(Mipis) /\ Len(r) \in Nat /\ j - 1 <= Len(r)
      /\ \A i \in 1 .. j - 1 : r[Len(r) - (j - 1) + i] = conf[i]
      /\ \A i \in 1 .. Len(r) : \E k \in 1 .. n : r[i] = list[k]
  <2>1. CASE r = list
    BY <1>1, <1>4, <2>1
  <2>2. CASE \E i \in DOMAIN list : r = RemoveAt(list, i) /\ list[i][1] = type
    <3>1. PICK p \in 1 .. n : r = RemoveAt(list, p) /\ list[p][1] = type
      BY <1>1, <2>2
    <3>2. /\ r \in Seq(Mipis) /\ Len(r) = n - 1
          /\ \A k \in 1 .. n - 1 : r[k] = IF k < p THEN list[k] ELSE list[k + 1]
      BY <1>1, <3>1, RemoveAtElements
    <3>3. p <= n - (j - 1)
      <4>1. ASSUME p > n - (j - 1)
            PROVE  FALSE
        <5>1. PICK i \in 1 .. j - 1 : p = n - (j - 1) + i
          <6>1. PICK i : i = p - (n - (j - 1))
            OBVIOUS
          <6>2. i \in 1 .. j - 1 /\ p = n - (j - 1) + i
            BY <1>1, <1>4, <4>1, <6>1
          <6> QED
            BY <6>2
        <5>2. list[p] = conf[i] /\ conf[i][1] # type
          BY <1>4, <1>5, <5>1
        <5> QED
          BY <3>1, <5>2
      <4> QED
        BY <1>1, <4>1
    <3>4. ASSUME NEW i \in 1 .. j - 1
          PROVE  r[Len(r) - (j - 1) + i] = conf[i]
      <4>1. PICK k : k = n - 1 - (j - 1) + i
        OBVIOUS
      <4>2. k \in 1 .. n - 1 /\ ~(k < p) /\ k + 1 = n - (j - 1) + i
        BY <1>1, <1>4, <3>3, <4>1
      <4>3. r[k] = list[k + 1]
        BY <3>2, <4>2
      <4> QED
        BY <1>4, <3>2, <4>1, <4>2, <4>3
    <3>5. ASSUME NEW i \in 1 .. Len(r)
          PROVE  \E k \in 1 .. n : r[i] = list[k]
      <4>1. i \in 1 .. n - 1 /\ i \in 1 .. n /\ i + 1 \in 1 .. n
        BY <1>1, <3>2
      <4> QED
        BY <3>2, <4>1
    <3>6. Len(r) \in Nat /\ j - 1 <= Len(r)
      BY <1>1, <3>1, <3>2, <3>3
    <3> QED
      BY <3>2, <3>4, <3>5, <3>6
  <2> QED
    BY <1>2, <2>1, <2>2
<1>7. PICK w : w = Append(r, e)
  OBVIOUS
<1>8. /\ Len(w) = Len(r) + 1 /\ DOMAIN w = 1 .. Len(r) + 1 /\ w[Len(r) + 1] = e
      /\ \A i \in 1 .. Len(r) : w[i] = r[i]
  <2>1. e \in Mipis /\ r \in Seq(Mipis)
    BY <1>1, <1>6
  <2> QED
    BY <1>7, <2>1, AppendProperties
<1>9. ASSUME NEW i \in 1 .. j
      PROVE  w[Len(w) - j + i] = conf[i]
  <2>1. CASE i = j
    BY <1>0, <1>1, <1>6, <1>8, <2>1
  <2>2. CASE i # j
    <3>1. PICK k : k = Len(r) - (j - 1) + i
      OBVIOUS
    <3>2. i \in 1 .. j - 1 /\ k \in 1 .. Len(r) /\ Len(w) - j + i = k
      BY <1>1, <1>6, <1>8, <2>2, <3>1
    <3> QED
      BY <1>6, <1>8, <3>1, <3>2
  <2> QED
    BY <2>1, <2>2
<1>10. MipisOf(w) \subseteq MipisOf(conf)
  <2>1. ASSUME NEW i \in 1 .. Len(r) + 1
        PROVE  w[i][1] \in MipisOf(conf)
    <3>1. CASE i = Len(r) + 1
      BY <1>0, <1>1, <1>8, <3>1 DEF MipisOf
    <3>2. CASE i # Len(r) + 1
      <4>1. i \in 1 .. Len(r)
        BY <1>6, <3>2
      <4>2. PICK k \in 1 .. n : w[i] = list[k]
        BY <1>6, <1>8, <4>1
      <4> QED
        BY <1>1, <4>2 DEF MipisRead, MipisOf
    <3> QED
      BY <3>1, <3>2
  <2> QED
    BY <1>8, <2>1 DEF MipisOf
<1>11. j <= Len(w)
  BY <1>1, <1>6, <1>8
<1> QED
  BY <1>0, <1>3, <1>7, <1>9, <1>10, <1>11 DEF MipisRead

LEMMA MipiAll ==
  ASSUME NEW list \in Seq(Mipis), OneMipiEach(list), NEW conf \in Seq(Mipis),
         MipisRead(list, conf, Len(conf))
  PROVE  list = conf
<1> DEFINE n == Len(list)
           m == Len(conf)
<1>1. n \in Nat /\ m \in Nat /\ DOMAIN list = 1 .. n /\ DOMAIN conf = 1 .. m
  OBVIOUS
<1>2. m <= n /\ \A i \in 1 .. m : list[n - m + i] = conf[i]
  BY DEF MipisRead
<1>3. n = m
  <2>1. ASSUME n > m
        PROVE  FALSE
    <3>1. 1 \in 1 .. n
      BY <1>1, <2>1
    <3>2. list[1][1] \in MipisOf(conf)
      BY <1>1, <3>1 DEF MipisRead, MipisOf
    <3>3. PICK i \in 1 .. m : conf[i][1] = list[1][1]
      BY <1>1, <3>2 DEF MipisOf
    <3>4. n - m + i \in 1 .. n /\ n - m + i # 1
      BY <1>1, <2>1
    <3>5. list[n - m + i][1] = list[1][1]
      BY <1>2, <3>3
    <3> QED
      BY <1>1, <3>1, <3>4, <3>5 DEF OneMipiEach
  <2>2. n \in Nat /\ m \in Nat /\ m <= n /\ ~(n > m)
    BY <1>1, <1>2, <2>1
  <2> HIDE DEF n, m
  <2> QED
    BY <2>2
<1>4. \A i \in 1 .. m : list[i] = conf[i]
  BY <1>1, <1>2, <1>3
<1> QED
  BY <1>1, <1>3, <1>4, SeqEqual

\* I/Q: an entry takes the place of the one of its type, unless it has none.
HasIq(iq) == iq.gsm_iq \/ iq.wcdma_iq
WithIq(list, iq) ==
  IF ~HasIq(iq) THEN list
  ELSE IF Has(list, iq.type) THEN Replaced(list, iq.type, iq) ELSE Append(list, iq)
IqsRead(list, conf, old, j) ==
  /\ \A i \in 1 .. j : HasIq(conf[i]) => Has(list, conf[i].type) /\ Find(list, conf[i].type) = conf[i]
  /\ \A u : Has(list, u) => Has(old, u) \/ \E i \in DOMAIN conf : conf[i].type = u /\ HasIq(conf[i])

LEMMA IqNext ==
  ASSUME NEW list \in Seq(Iqs), OneEach(list), NEW conf \in Seq(Iqs), OneEach(conf),
         NEW old, NEW j \in 1 .. Len(conf), IqsRead(list, conf, old, j - 1)
  PROVE  IqsRead(WithIq(list, conf[j]), conf, old, j)
<1>1. PICK iq, t, w : iq = conf[j] /\ t = iq.type /\ w = WithIq(list, iq)
  OBVIOUS
<1>2. /\ Len(conf) \in Nat /\ DOMAIN conf = 1 .. Len(conf) /\ j \in Nat /\ j \in DOMAIN conf /\ iq \in Iqs
      /\ \A i \in 1 .. j : i = j \/ i \in 1 .. j - 1
      /\ \A i \in 1 .. j - 1 : i # j /\ i \in DOMAIN conf
  BY <1>1
<1>3. \A i \in 1 .. j - 1 : conf[i].type # t
  BY <1>1, <1>2 DEF OneEach
<1>4. CASE ~HasIq(iq)
  <2>1. w = list
    BY <1>1, <1>4 DEF WithIq
  <2> QED
    BY <1>1, <1>2, <1>4, <2>1 DEF IqsRead
<1>5. CASE HasIq(iq)
  <2>1. /\ Has(w, t) /\ Find(w, t) = iq
        /\ \A u : Has(w, u) => Has(list, u) \/ u = t
        /\ \A u : Has(list, u) => Has(w, u)
        /\ \A u : Has(list, u) /\ u # t => Find(w, u) = Find(list, u)
    <3>1. CASE Has(list, t)
      <4>1. w = Replaced(list, t, iq)
        BY <1>1, <1>5, <3>1 DEF WithIq
      <4> QED
        BY <1>1, <1>2, <3>1, <4>1, ReplacedIs
    <3>2. CASE ~Has(list, t)
      <4>1. w = Append(list, iq)
        BY <1>1, <1>5, <3>2 DEF WithIq
      <4> QED
        BY <1>1, <1>2, <3>2, <4>1, AppendedIs
    <3> QED
      BY <3>1, <3>2
  <2>2. ASSUME NEW i \in 1 .. j, HasIq(conf[i])
        PROVE  Has(w, conf[i].type) /\ Find(w, conf[i].type) = conf[i]
    <3>1. CASE i = j
      BY <1>1, <2>1, <3>1
    <3>2. CASE i # j
      <4>1. i \in 1 .. j - 1
        BY <1>2, <3>2
      <4>2. Has(list, conf[i].type) /\ Find(list, conf[i].type) = conf[i] /\ conf[i].type # t
        BY <1>3, <2>2, <4>1 DEF IqsRead
      <4> QED
        BY <2>1, <4>2
    <3> QED
      BY <3>1, <3>2
  <2>3. ASSUME NEW u, Has(w, u)
        PROVE  Has(old, u) \/ \E i \in DOMAIN conf : conf[i].type = u /\ HasIq(conf[i])
    <3>1. CASE u = t
      BY <1>1, <1>2, <1>5, <3>1
    <3>2. CASE u # t
      BY <2>1, <2>3, <3>2 DEF IqsRead
    <3> QED
      BY <3>1, <3>2
  <2> QED
    BY <1>1, <2>2, <2>3 DEF IqsRead
<1> QED
  BY <1>4, <1>5

\* What the shipped file says of a type is not undone if the type has I/Q.
LEMMA IqAll ==
  ASSUME NEW list \in Seq(Iqs), OneEach(list), NEW conf \in Seq(Iqs), OneEach(conf), NEW old \in Seq(Iqs),
         IqsRead(list, conf, old, Len(conf)),
         Range(TypesOf(old)) \subseteq Range(TypesOf(conf)),
         \A iq \in Range(conf) : HasIq(iq) \/ ~Has(old, iq.type)
  PROVE  {iq \in Range(list) : HasIq(iq)} = {iq \in Range(conf) : HasIq(iq)}
<1>1. /\ DOMAIN list = 1 .. Len(list) /\ DOMAIN conf = 1 .. Len(conf) /\ DOMAIN old = 1 .. Len(old)
      /\ \A i \in DOMAIN list : list[i] \in Range(list)
      /\ \A i \in DOMAIN conf : conf[i] \in Range(conf)
  BY DEF Range
<1>2. ASSUME NEW iq \in Range(conf), HasIq(iq)
      PROVE  iq \in Range(list)
  <2>1. PICK i \in 1 .. Len(conf) : iq = conf[i]
    BY <1>1 DEF Range
  <2>2. Has(list, iq.type) /\ Find(list, iq.type) = iq
    BY <1>2, <2>1 DEF IqsRead
  <2>3. Index(list, iq.type) \in DOMAIN list
    BY <2>2, IndexIs
  <2> QED
    BY <1>1, <2>2, <2>3 DEF Find
<1>3. ASSUME NEW iq \in Range(list), HasIq(iq)
      PROVE  iq \in Range(conf)
  <2>1. PICK k \in DOMAIN list : iq = list[k]
    BY DEF Range
  <2>2. Has(list, iq.type) /\ Find(list, iq.type) = iq
    BY <2>1, IndexIs DEF Find
  <2>3. PICK i \in DOMAIN conf : conf[i].type = iq.type /\ HasIq(conf[i])
    <3>1. CASE Has(old, iq.type)
      <4>1. PICK p \in DOMAIN old : old[p].type = iq.type
        BY <3>1, IndexIs
      <4>2. iq.type \in Range(TypesOf(old))
        BY <4>1 DEF Range, TypesOf
      <4>3. PICK i \in DOMAIN conf : conf[i].type = iq.type
        BY <4>2 DEF Range, TypesOf
      <4>4. HasIq(conf[i])
        BY <1>1, <3>1, <4>3
      <4> QED
        BY <4>3, <4>4
    <3>2. CASE ~Has(old, iq.type)
      BY <2>2, <3>2 DEF IqsRead
    <3> QED
      BY <3>1, <3>2
  <2>4. Find(list, conf[i].type) = conf[i]
    BY <1>1, <2>3 DEF IqsRead
  <2> QED
    BY <1>1, <2>2, <2>3, <2>4
<1> QED
  BY <1>2, <1>3

\* Streams: of a build for an operator the internal size is another one.
Reread(e, b) == IF b THEN [e EXCEPT !.internal_limit = "1024"] ELSE e
StreamsRead(list, conf, b, j) ==
  /\ TypesOf(list) = TypesOf(conf)
  /\ \A i \in 1 .. j : list[i] = Reread(conf[i], b)

LEMMA RereadIs ==
  ASSUME NEW e \in Entries, NEW b
  PROVE  Reread(e, b) \in Entries /\ Reread(e, b).type = e.type
<1>1. "1024" \in Tokens
  BY DEF Tokens, Words
<1> QED
  BY <1>1 DEF Reread, Entries

LEMMA StreamNext ==
  ASSUME NEW list \in Seq(Entries), OneEach(list), NEW conf \in Seq(Entries), NEW b,
         NEW j \in 1 .. Len(conf), StreamsRead(list, conf, b, j - 1)
  PROVE  /\ Has(list, conf[j].type)
         /\ StreamsRead(Replaced(list, conf[j].type, Reread(conf[j], b)), conf, b, j)
<1>1. PICK e, t, new : e = conf[j] /\ t = e.type /\ new = Reread(e, b)
  OBVIOUS
<1>2. /\ Len(conf) \in Nat /\ DOMAIN conf = 1 .. Len(conf) /\ j \in Nat /\ j \in DOMAIN conf /\ e \in Entries
      /\ \A i \in 1 .. j : i = j \/ i \in 1 .. j - 1
      /\ \A i \in 1 .. j - 1 : i # j /\ i \in DOMAIN conf
  BY <1>1
<1>3. DOMAIN list = DOMAIN conf /\ \A i \in DOMAIN conf : list[i].type = conf[i].type
  BY DEF StreamsRead, TypesOf
<1>4. Has(list, t) /\ Index(list, t) = j
  BY <1>1, <1>2, <1>3, IndexIs
<1>5. new \in Entries /\ new.type = t
  BY <1>1, <1>2, RereadIs
<1>6. PICK w : w = Replaced(list, t, new)
  OBVIOUS
<1>7. TypesOf(w) = TypesOf(list)
  BY <1>4, <1>5, <1>6, ReplacedIs
<1>8. ASSUME NEW i \in 1 .. j
      PROVE  w[i] = Reread(conf[i], b)
  <2>1. w[i] = IF i = j THEN new ELSE list[i]
    BY <1>2, <1>3, <1>4, <1>6 DEF Replaced
  <2> QED
    BY <1>1, <1>2, <2>1 DEF StreamsRead
<1> QED
  BY <1>1, <1>4, <1>6, <1>7, <1>8 DEF StreamsRead

------------------------------------------------------------------------------
(* The lines, read one after the other.                                    *)

SameLists(a, d) == d.m_config = a.m_config /\ d.m_iq_config = a.m_iq_config /\ d.m_mipilog = a.m_mipilog
SameFlags(a, d) ==
  /\ d.ext_stor_active = a.ext_stor_active /\ d.m_enable_md = a.m_enable_md
  /\ d.m_md_save_to_int = a.m_md_save_to_int /\ d.agdsp_log_dest = a.agdsp_log_dest
  /\ d.agdsp_pcm_dump = a.agdsp_pcm_dump

LEMMA FirstLinesRead ==
  ASSUME NEW a \in Configs, NEW c \in Configs, NEW b, NEW line, NEW d, d = Step("parse", b, a, line)
  PROVE  /\ line = <<"storage", IF c.ext_stor_active THEN "external" ELSE "internal">> =>
              /\ SameLists(a, d) /\ d.ext_stor_active = c.ext_stor_active /\ d.m_enable_md = a.m_enable_md
              /\ d.m_md_save_to_int = a.m_md_save_to_int /\ d.agdsp_log_dest = a.agdsp_log_dest
              /\ d.agdsp_pcm_dump = a.agdsp_pcm_dump
         /\ line = <<"minidump", IF c.m_enable_md THEN "enable" ELSE "disable",
                     IF c.m_md_save_to_int THEN "internal" ELSE "external">> =>
              /\ SameLists(a, d) /\ d.ext_stor_active = a.ext_stor_active /\ d.m_enable_md = c.m_enable_md
              /\ d.m_md_save_to_int = c.m_md_save_to_int /\ d.agdsp_log_dest = a.agdsp_log_dest
              /\ d.agdsp_pcm_dump = a.agdsp_pcm_dump
<1>1. ASSUME line = <<"storage", IF c.ext_stor_active THEN "external" ELSE "internal">>
      PROVE  /\ SameLists(a, d) /\ d.ext_stor_active = c.ext_stor_active /\ d.m_enable_md = a.m_enable_md
             /\ d.m_md_save_to_int = a.m_md_save_to_int /\ d.agdsp_log_dest = a.agdsp_log_dest
             /\ d.agdsp_pcm_dump = a.agdsp_pcm_dump
  <2>1. PICK x : x = IF c.ext_stor_active THEN "external" ELSE "internal"
    OBVIOUS
  <2>2. line # <<>> /\ line[1] = "storage" /\ Tail(line) = <<x>>
    BY <1>1, <2>1
  <2>3. d = ParseStorageLine(a, <<x>>)
    BY <2>2 DEF Step, ParseLine
  <2>4. d = [a EXCEPT !.ext_stor_active = (x # "internal")]
    BY <2>1, <2>3 DEF ParseStorageLine
  <2>5. (x # "internal") = c.ext_stor_active
    BY <2>1 DEF Configs
  <2> QED
    BY <2>4, <2>5 DEF SameLists, Configs
<1>2. ASSUME line = <<"minidump", IF c.m_enable_md THEN "enable" ELSE "disable",
                      IF c.m_md_save_to_int THEN "internal" ELSE "external">>
      PROVE  /\ SameLists(a, d) /\ d.ext_stor_active = a.ext_stor_active /\ d.m_enable_md = c.m_enable_md
             /\ d.m_md_save_to_int = c.m_md_save_to_int /\ d.agdsp_log_dest = a.agdsp_log_dest
             /\ d.agdsp_pcm_dump = a.agdsp_pcm_dump
  <2>1. PICK x, y : /\ x = IF c.m_enable_md THEN "enable" ELSE "disable"
                    /\ y = IF c.m_md_save_to_int THEN "internal" ELSE "external"
    OBVIOUS
  <2>2. line # <<>> /\ line[1] = "minidump" /\ Tail(line) = <<x, y>>
    BY <1>2, <2>1
  <2>3. d = ParseMinidumpLine(a, <<x, y>>)
    BY <2>2 DEF Step, ParseLine
  <2>4. d = [a EXCEPT !.m_enable_md = (x = "enable"), !.m_md_save_to_int = (y = "internal")]
    BY <2>3 DEF ParseMinidumpLine
  <2>5. (x = "enable") = c.m_enable_md /\ (y = "internal") = c.m_md_save_to_int
    BY <2>1 DEF Configs
  <2> QED
    BY <2>4, <2>5 DEF SameLists, Configs
<1> QED
  BY <1>1, <1>2

LEMMA LastLinesRead ==
  ASSUME NEW a \in Configs, NEW c \in Configs, NEW b, NEW line, NEW d, d = Step("parse", b, a, line)
  PROVE  /\ line = <<"agdsp_log_dest", c.agdsp_log_dest>> =>
              /\ SameLists(a, d) /\ d.ext_stor_active = a.ext_stor_active /\ d.m_enable_md = a.m_enable_md
              /\ d.m_md_save_to_int = a.m_md_save_to_int /\ d.agdsp_log_dest = c.agdsp_log_dest
              /\ d.agdsp_pcm_dump = a.agdsp_pcm_dump
         /\ line = <<"agdsp_pcm_dump", OnOff(c.agdsp_pcm_dump)>> =>
              /\ SameLists(a, d) /\ d.ext_stor_active = a.ext_stor_active /\ d.m_enable_md = a.m_enable_md
              /\ d.m_md_save_to_int = a.m_md_save_to_int /\ d.agdsp_log_dest = a.agdsp_log_dest
              /\ d.agdsp_pcm_dump = c.agdsp_pcm_dump
<1>1. ASSUME line = <<"agdsp_log_dest", c.agdsp_log_dest>>
      PROVE  /\ SameLists(a, d) /\ d.ext_stor_active = a.ext_stor_active /\ d.m_enable_md = a.m_enable_md
             /\ d.m_md_save_to_int = a.m_md_save_to_int /\ d.agdsp_log_dest = c.agdsp_log_dest
             /\ d.agdsp_pcm_dump = a.agdsp_pcm_dump
  <2>1. PICK x : x = c.agdsp_log_dest
    OBVIOUS
  <2>2. line # <<>> /\ line[1] = "agdsp_log_dest" /\ Tail(line) = <<x>> /\ x \in {"off", "uart", "ap"}
    BY <1>1, <2>1 DEF Configs
  <2>3. d = ParseAgdspLogDest(a, <<x>>)
    BY <2>2 DEF Step, ParseLine
  <2>4. d = [a EXCEPT !.agdsp_log_dest = x]
    BY <2>2, <2>3 DEF ParseAgdspLogDest
  <2> QED
    BY <2>1, <2>4 DEF SameLists, Configs
<1>2. ASSUME line = <<"agdsp_pcm_dump", OnOff(c.agdsp_pcm_dump)>>
      PROVE  /\ SameLists(a, d) /\ d.ext_stor_active = a.ext_stor_active /\ d.m_enable_md = a.m_enable_md
             /\ d.m_md_save_to_int = a.m_md_save_to_int /\ d.agdsp_log_dest = a.agdsp_log_dest
             /\ d.agdsp_pcm_dump = c.agdsp_pcm_dump
  <2>1. PICK x : x = IF c.agdsp_pcm_dump THEN "on" ELSE "off"
    OBVIOUS
  <2>2. line # <<>> /\ line[1] = "agdsp_pcm_dump" /\ Tail(line) = <<x>>
    BY <1>2, <2>1 DEF OnOff
  <2>3. d = ParseOnOff(a, <<x>>)
    BY <2>2 DEF Step, ParseLine
  <2>4. d = [a EXCEPT !.agdsp_pcm_dump = (x = "on")]
    BY <2>1, <2>3 DEF ParseOnOff
  <2>5. (x = "on") = c.agdsp_pcm_dump
    BY <2>1 DEF Configs
  <2> QED
    BY <2>4, <2>5 DEF SameLists, Configs
<1> QED
  BY <1>1, <1>2

LEMMA MipiLineRead ==
  ASSUME NEW a \in Configs, NEW e \in Mipis, ValidMipi(e), NEW b, NEW line, line = MipiLine(e),
         NEW d, d = Step("parse", b, a, line)
  PROVE  /\ SameFlags(a, d) /\ d.m_config = a.m_config /\ d.m_iq_config = a.m_iq_config
         /\ d.m_mipilog = WithMipi(a.m_mipilog, e)
<1>1. /\ line \in Seq(Tokens) /\ Len(line) = 4 /\ line[1] = "mipilog"
      /\ \A i \in 1 .. 3 : line[i + 1] = e[i]
  BY LineIs
<1>2. PICK p : p = Tail(line)
  OBVIOUS
<1>3. line # <<>> /\ p \in Seq(Tokens) /\ Len(p) = 3 /\ \A i \in 1 .. 3 : p[i] = line[i + 1]
  <2>1. /\ p \in Seq(Tokens) /\ Len(p) = Len(line) - 1 /\ line # <<>>
        /\ \A i \in 1 .. Len(line) - 1 : p[i] = line[i + 1]
    <3>1. line \in Seq(Tokens)
      BY <1>1
    <3>2. line # <<>>
      BY <1>1, <3>1, TokenSeq
    <3> QED
      BY <1>2, <3>1, <3>2, TokenSeq
  <2> QED
    BY <1>1, <2>1
<1>4. e \in Seq(Tokens) /\ Len(e) = 3
  BY DEF Mipis
<1>5. p = e
  <2>1. \A i \in 1 .. Len(p) : p[i] = e[i]
    BY <1>1, <1>3
  <2> QED
    BY <1>3, <1>4, <2>1, SeqEqual
<1>6. SubSeq(p, 1, 3) = p
  BY <1>3
<1>7. d = ParseMipilogLine(a, p)
  BY <1>1, <1>2, <1>3 DEF Step, ParseLine
<1>8. Len(p) >= 3 /\ p[1] \in MipiTypes /\ p[2] \in MipiChannels /\ p[3] \in MipiFreqs
  BY <1>3, <1>5 DEF ValidMipi
<1>9. d = [a EXCEPT !.m_mipilog = WithMipi(a.m_mipilog, e)]
  BY <1>5, <1>6, <1>7, <1>8 DEF ParseMipilogLine
<1> QED
  BY <1>9 DEF SameFlags, Configs

\* The words of an I/Q line after the type.
IqWords(iq) == (IF iq.gsm_iq THEN {"GSM"} ELSE {}) \cup (IF iq.wcdma_iq THEN {"WCDMA"} ELSE {})

LEMMA IqLineIs ==
  ASSUME NEW e \in Iqs
  PROVE  /\ Len(IqLine(e)) = 2 <=> ~HasIq(e)
         /\ {IqLine(e)[i] : i \in 3 .. Len(IqLine(e))} = IqWords(e)
<1>1. PICK a, g, w : /\ a = <<"iq", CpTypeToName[e.type]>>
                     /\ g = IF e.gsm_iq THEN <<"GSM">> ELSE <<>>
                     /\ w = IF e.wcdma_iq THEN <<"WCDMA">> ELSE <<>>
  OBVIOUS
<1>2. "iq" \in Tokens /\ "GSM" \in Tokens /\ "WCDMA" \in Tokens /\ CpTypeToName[e.type] \in Tokens
  BY ModemTypeIs DEF Tokens, Words, Iqs
<1>3. /\ a \in Seq(Tokens) /\ Len(a) = 2 /\ g \in Seq(Tokens) /\ w \in Seq(Tokens)
      /\ e.gsm_iq => Len(g) = 1 /\ g[1] = "GSM"
      /\ ~e.gsm_iq => Len(g) = 0
      /\ e.wcdma_iq => Len(w) = 1 /\ w[1] = "WCDMA"
      /\ ~e.wcdma_iq => Len(w) = 0
  BY <1>1, <1>2
<1>4. PICK h, l : h = a \o g /\ l = h \o w
  OBVIOUS
<1>5. l = IqLine(e)
  BY <1>1, <1>4 DEF IqLine
<1>6. /\ h \in Seq(Tokens) /\ Len(h) = Len(a) + Len(g) /\ \A i \in 1 .. Len(g) : h[i + Len(a)] = g[i]
  <2>1. a \in Seq(Tokens) /\ g \in Seq(Tokens)
    BY <1>3
  <2> QED
    BY <1>4, <2>1, JoinTwo
<1>7. /\ l \in Seq(Tokens) /\ Len(l) = Len(h) + Len(w)
      /\ \A i \in 1 .. Len(h) : l[i] = h[i]
      /\ \A i \in 1 .. Len(w) : l[i + Len(h)] = w[i]
  <2>1. h \in Seq(Tokens) /\ w \in Seq(Tokens)
    BY <1>3, <1>6
  <2> QED
    BY <1>4, <2>1, JoinTwo
<1>8. /\ Len(g) = 1 => Len(h) = 3 /\ h[3] = g[1] /\ l[3] = g[1]
      /\ Len(g) = 0 => Len(h) = 2
  <2>1. ASSUME Len(g) = 1
        PROVE  Len(h) = 3 /\ h[3] = g[1]
    <3>1. Len(h) = 3
      BY <1>3, <1>6, <2>1
    <3>2. 1 \in 1 .. Len(g) /\ 1 + Len(a) = 3
      BY <1>3, <2>1
    <3>3. h[1 + Len(a)] = g[1]
      BY <1>6, <3>2
    <3> QED
      BY <3>1, <3>2, <3>3
  <2>2. ASSUME Len(h) = 3
        PROVE  l[3] = h[3]
    <3>1. 3 \in 1 .. Len(h)
      BY <2>2
    <3> QED
      BY <1>7, <3>1
  <2>3. Len(g) = 0 => Len(h) = 2
    BY <1>3, <1>6
  <2> QED
    BY <2>1, <2>2, <2>3
<1>9. Len(h) \in Nat /\ (Len(w) = 1 => Len(l) = Len(h) + 1 /\ l[Len(h) + 1] = w[1])
  <2>1. Len(h) \in Nat
    BY <1>6
  <2>2. ASSUME Len(w) = 1
        PROVE  l[Len(h) + 1] = w[1]
    <3>1. 1 \in 1 .. Len(w) /\ 1 + Len(h) = Len(h) + 1
      BY <2>1, <2>2
    <3>2. l[1 + Len(h)] = w[1]
      BY <1>7, <3>1
    <3> QED
      BY <3>1, <3>2
  <2> QED
    BY <1>7, <2>1, <2>2
<1>10. Len(w) = 0 => Len(l) = Len(h)
  BY <1>7, <1>9
<1>11. CASE e.gsm_iq /\ e.wcdma_iq
  <2>1. Len(g) = 1 /\ g[1] = "GSM" /\ Len(w) = 1 /\ w[1] = "WCDMA"
    BY <1>3, <1>11
  <2>2. Len(h) = 3 /\ l[3] = "GSM"
    BY <1>8, <2>1
  <2>3. Len(l) = Len(h) + 1 /\ l[Len(h) + 1] = "WCDMA"
    BY <1>9, <2>1
  <2>4. Len(h) + 1 = 4
    BY <2>2
  <2>5. Len(l) = 4 /\ l[3] = "GSM" /\ l[4] = "WCDMA"
    BY <2>2, <2>3, <2>4
  <2> QED
    BY <1>5, <1>11, <2>5 DEF HasIq, IqWords
<1>12. CASE e.gsm_iq /\ ~e.wcdma_iq
  <2>1. Len(h) = 3 /\ Len(l) = 3 /\ h[3] = "GSM" /\ l[3] = "GSM"
    BY <1>3, <1>12, <1>8, <1>10
  <2> QED
    BY <1>5, <1>12, <2>1 DEF HasIq, IqWords
<1>13. CASE ~e.gsm_iq /\ e.wcdma_iq
  <2>1. Len(g) = 0 /\ Len(w) = 1 /\ w[1] = "WCDMA"
    BY <1>3, <1>13
  <2>2. Len(h) = 2
    BY <1>8, <2>1
  <2>3. Len(l) = Len(h) + 1 /\ l[Len(h) + 1] = "WCDMA"
    BY <1>9, <2>1
  <2>4. Len(h) + 1 = 3
    BY <2>2
  <2>5. Len(l) = 3 /\ l[3] = "WCDMA"
    BY <2>3, <2>4
  <2> QED
    BY <1>5, <1>13, <2>5 DEF HasIq, IqWords
<1>14. CASE ~e.gsm_iq /\ ~e.wcdma_iq
  <2>1. Len(h) = 2 /\ Len(l) = 2
    BY <1>3, <1>14, <1>8, <1>10
  <2> QED
    BY <1>5, <1>14, <2>1 DEF HasIq, IqWords
<1> QED
  BY <1>11, <1>12, <1>13, <1>14

LEMMA IqLineRead ==
  ASSUME NEW a \in Configs, NEW e \in Iqs, NEW b, NEW line, line = IqLine(e),
         NEW d, d = Step("parse", b, a, line)
  PROVE  /\ SameFlags(a, d) /\ d.m_config = a.m_config /\ d.m_mipilog = a.m_mipilog
         /\ d.m_iq_config = WithIq(a.m_iq_config, e)
<1>1. /\ line \in Seq(Tokens) /\ Len(line) >= 2 /\ line[1] = "iq" /\ line[2] = CpTypeToName[e.type]
      /\ Len(line) \in Nat
  BY LineIs
<1>2. PICK p, n : p = Tail(line) /\ n = Len(line)
  OBVIOUS
<1>3. line # <<>> /\ p \in Seq(Tokens) /\ Len(p) = n - 1 /\ \A i \in 1 .. n - 1 : p[i] = line[i + 1]
  BY <1>1, <1>2, TokenSeq
<1>4. d = ParseIqLine(a, p)
  BY <1>1, <1>2, <1>3 DEF Step, ParseLine
<1>5. /\ n = 2 <=> ~HasIq(e)
      /\ {line[i] : i \in 3 .. n} = IqWords(e)
  BY <1>2, IqLineIs
<1>6. CASE ~HasIq(e)
  <2>1. Len(p) < 2
    BY <1>1, <1>2, <1>3, <1>5, <1>6
  <2>2. d = a
    BY <1>4, <2>1 DEF ParseIqLine
  <2> QED
    BY <1>6, <2>2 DEF SameFlags, WithIq
<1>7. CASE HasIq(e)
  <2>1. n >= 3 /\ n \in Nat /\ p # <<>> /\ Len(p) >= 2 /\ p[1] = CpTypeToName[e.type]
    BY <1>1, <1>2, <1>3, <1>5, <1>7
  <2>2. PICK q : q = Tail(p)
    OBVIOUS
  <2>3. q \in Seq(Tokens) /\ Len(q) = n - 2 /\ \A i \in 1 .. n - 2 : q[i] = p[i + 1]
    <3>1. q \in Seq(Tokens) /\ Len(q) = Len(p) - 1 /\ \A i \in 1 .. Len(p) - 1 : q[i] = p[i + 1]
      BY <1>3, <2>1, <2>2, TokenSeq
    <3>2. Len(p) - 1 = n - 2
      BY <1>3, <2>1
    <3> QED
      BY <3>1, <3>2
  <2>4. \A i \in 1 .. n - 2 : q[i] = line[i + 2]
    BY <1>3, <2>1, <2>3
  <2>5. Range(q) = {line[i] : i \in 3 .. n}
    <3>1. Range(q) = {q[i] : i \in 1 .. n - 2}
      BY <2>3 DEF Range
    <3>2. \A i \in 1 .. n - 2 : i + 2 \in 3 .. n
      BY <2>1
    <3>3. \A i \in 3 .. n : i - 2 \in 1 .. n - 2 /\ q[i - 2] = line[i]
      BY <2>1, <2>4
    <3> QED
      BY <2>4, <3>1, <3>2, <3>3
  <2>6. PICK types, t : types = Range(Tail(p)) /\ t = GetModemType(p[1])
    OBVIOUS
  <2>7. types = IqWords(e) /\ t = e.type /\ t # Unknown /\ t \in Types
    BY <1>5, <2>1, <2>2, <2>5, <2>6, ModemTypeIs DEF Iqs
  <2>8. /\ types \subseteq {"GSM", "WCDMA"}
        /\ "GSM" \in types <=> e.gsm_iq
        /\ "WCDMA" \in types <=> e.wcdma_iq
    BY <2>7 DEF IqWords
  <2>9. [type |-> t, gsm_iq |-> "GSM" \in types, wcdma_iq |-> "WCDMA" \in types] = e
    BY <2>7, <2>8 DEF Iqs
  <2>10. d = IF Has(a.m_iq_config, t)
             THEN [a EXCEPT !.m_iq_config = Replaced(a.m_iq_config, t, e)]
             ELSE [a EXCEPT !.m_iq_config = Append(a.m_iq_config, e)]
    BY <1>4, <2>1, <2>6, <2>7, <2>8, <2>9 DEF ParseIqLine, With, Replaced
  <2>11. d = [a EXCEPT !.m_iq_config = WithIq(a.m_iq_config, e)]
    BY <1>7, <2>7, <2>10 DEF WithIq
  <2> QED
    BY <2>11 DEF SameFlags, Configs
<1> QED
  BY <1>6, <1>7

LEMMA StreamLineRead ==
  ASSUME NEW a \in Configs, NEW e \in Entries, Has(a.m_config, e.type), NEW b, NEW line, line = StreamLine(e),
         NEW d, d = Step("parse", b, a, line)
  PROVE  /\ SameFlags(a, d) /\ d.m_iq_config = a.m_iq_config /\ d.m_mipilog = a.m_mipilog
         /\ d.m_config = Replaced(a.m_config, e.type, Reread(e, b))
<1>1. PICK name, mode, over : /\ name = CpTypeToName[e.type] /\ mode = LogModeToString(e.mode)
                              /\ over = OnOff(e.overwrite)
  OBVIOUS
<1>2. PICK p : p = <<name, mode, e.internal_limit, e.external_limit, e.file_size_limit, "level", over>>
  OBVIOUS
<1>3. line # <<>> /\ line[1] = "stream" /\ Tail(line) = p
  BY <1>1, <1>2 DEF StreamLine
<1>4. d = ParseStreamLine(a, p, b)
  BY <1>3 DEF Step, ParseLine
<1>5. /\ Len(p) = 7 /\ p[1] = name /\ p[2] = mode /\ p[3] = e.internal_limit /\ p[4] = e.external_limit
      /\ p[5] = e.file_size_limit /\ p[7] = over
  BY <1>2
<1>6. GetModemType(p[1]) = e.type /\ e.type # Unknown
  BY <1>1, <1>5, ModemTypeIs DEF Entries
<1>7. p[2] \in DOMAIN GetLogMode /\ GetLogMode[p[2]] = e.mode
  <2>1. e.mode \in {"LM_OFF", "LM_NORMAL", "LM_EVENT"}
    BY DEF Entries
  <2> QED
    BY <1>1, <1>5, <2>1 DEF LogModeToString, GetLogMode
<1>8. (p[7] = "on") <=> e.overwrite
  BY <1>1, <1>5 DEF OnOff, Entries
<1>9. [type |-> e.type, mode |-> GetLogMode[p[2]], internal_limit |-> p[3],
       external_limit |-> p[4], file_size_limit |-> p[5], overwrite |-> p[7] = "on"] = e
  <2>1. (p[7] = "on") = e.overwrite
    BY <1>8 DEF Entries
  <2> QED
    BY <1>5, <1>7, <2>1 DEF Entries
<1>10. d = [a EXCEPT !.m_config = Replaced(a.m_config, e.type, Reread(e, b))]
  BY <1>4, <1>5, <1>6, <1>7, <1>9 DEF ParseStreamLine, With, Replaced, Reread
<1> QED
  BY <1>10 DEF SameFlags, Configs

\* What is read of c after k lines, of m, q and n entries and four flags.
FlagsRead(a, c, k, last) ==
  /\ k >= 1 => a.ext_stor_active = c.ext_stor_active
  /\ k >= 2 => a.m_enable_md = c.m_enable_md /\ a.m_md_save_to_int = c.m_md_save_to_int
  /\ k >= last - 1 => a.agdsp_log_dest = c.agdsp_log_dest
  /\ k >= last => a.agdsp_pcm_dump = c.agdsp_pcm_dump

\* Where line k of last is: a flag's, or the i-th of one of the lists.
Stays(k, first, n) == Done(k - 1, first, n) = Done(k, first, n)
Moves(k, first, n, i) == k = i + first /\ Done(k, first, n) = i /\ Done(k - 1, first, n) = i - 1
Within(k, last) == k >= 1 /\ k >= 2 /\ k - 1 >= 1 /\ k - 1 >= 2 /\ ~(k >= last - 1) /\ ~(k >= last)
                   /\ ~(k - 1 >= last - 1) /\ ~(k - 1 >= last)

Place(k, m, q, n, f, g, last) ==
  \/ /\ k = 1 \/ k = 2 \/ k = last - 1 \/ k = last
     /\ Stays(k, 2, m) /\ Stays(k, f, q) /\ Stays(k, g, n)
  \/ /\ \E i \in 1 .. m : Moves(k, 2, m, i)
     /\ Stays(k, f, q) /\ Stays(k, g, n) /\ Within(k, last)
  \/ /\ \E i \in 1 .. q : Moves(k, f, q, i)
     /\ Stays(k, 2, m) /\ Stays(k, g, n) /\ Within(k, last)
  \/ /\ \E i \in 1 .. n : Moves(k, g, n, i)
     /\ Stays(k, 2, m) /\ Stays(k, f, q) /\ Within(k, last)

LEMMA StaysOut ==
  ASSUME NEW first \in Nat, NEW n \in Nat, NEW k \in Nat, k >= 1, k <= first \/ k > first + n
  PROVE  Stays(k, first, n)
  BY DoneIs DEF Stays

LEMMA MovesIn ==
  ASSUME NEW first \in Nat, NEW n \in Nat, NEW k \in Nat, k > first, k <= first + n
  PROVE  \E i \in 1 .. n : Moves(k, first, n, i)
<1>1. PICK i : i = k - first
  OBVIOUS
<1>2. i \in 1 .. n /\ k = i + first /\ k - 1 = i + first - 1
  BY <1>1
<1>3. Done(k, first, n) = i /\ Done(k - 1, first, n) = i - 1
  BY <1>2 DEF Done
<1> QED
  BY <1>2, <1>3 DEF Moves

LEMMA Places ==
  ASSUME NEW m \in Nat, NEW q \in Nat, NEW n \in Nat, NEW f \in Nat, f = m + 2,
         NEW g \in Nat, g = f + q, NEW last \in Nat, last = g + n + 2, NEW k \in 1 .. last
  PROVE  Place(k, m, q, n, f, g, last)
<1>1. k \in Nat /\ k >= 1 /\ 2 \in Nat
  OBVIOUS
<1>2. CASE k <= 2 \/ k > g + n
  <2>1. /\ k <= 2 \/ k > 2 + m
        /\ k <= f \/ k > f + q
        /\ k <= g \/ k > g + n
        /\ k = 1 \/ k = 2 \/ k = last - 1 \/ k = last
    BY <1>1, <1>2
  <2> QED
    BY <1>1, <2>1, StaysOut DEF Place
<1>3. CASE k > 2 /\ k <= f
  <2>1. k <= 2 + m /\ k <= g /\ Within(k, last)
    BY <1>1, <1>3 DEF Within
  <2> QED
    BY <1>1, <1>3, <2>1, StaysOut, MovesIn DEF Place
<1>4. CASE k > f /\ k <= g
  <2>1. k <= f + q /\ k > 2 + m /\ Within(k, last)
    BY <1>1, <1>4 DEF Within
  <2> QED
    BY <1>1, <1>4, <2>1, StaysOut, MovesIn DEF Place
<1>5. CASE k > g /\ k <= g + n
  <2>1. k > f + q /\ k > 2 + m /\ Within(k, last)
    BY <1>1, <1>5 DEF Within
  <2> QED
    BY <1>1, <1>5, <2>1, StaysOut, MovesIn DEF Place
<1> QED
  BY <1>1, <1>2, <1>3, <1>4, <1>5

LEMMA Ends ==
  ASSUME NEW last \in Nat, last >= 4, NEW k
  PROVE  /\ k = 1 => k >= 1 /\ ~(k >= 2) /\ ~(k >= last - 1) /\ ~(k >= last)
         /\ k = 2 => k - 1 >= 1 /\ ~(k >= last - 1) /\ ~(k >= last)
         /\ k = last - 1 => k - 1 >= 1 /\ k - 1 >= 2 /\ ~(k >= last)
         /\ k = last => k - 1 >= 1 /\ k - 1 >= 2 /\ k - 1 >= last - 1
  OBVIOUS

\* What is read of c after k lines, the lists' first lines after 2, f and g.
Upto(a, c, old, b, k, f, g, last) ==
  /\ ConfigInv(a) /\ FlagsRead(a, c, k, last)
  /\ MipisRead(a.m_mipilog, c.m_mipilog, Done(k, 2, Len(c.m_mipilog)))
  /\ IqsRead(a.m_iq_config, c.m_iq_config, old, Done(k, f, Len(c.m_iq_config)))
  /\ StreamsRead(a.m_config, c.m_config, b, Done(k, g, Len(c.m_config)))
\* The lines of c, and where those of its lists begin.
Placed(c, lines, f, g, last) ==
  /\ f \in Nat /\ f = Len(c.m_mipilog) + 2
  /\ g \in Nat /\ g = f + Len(c.m_iq_config)
  /\ last \in Nat /\ last = g + Len(c.m_config) + 2 /\ last >= 4
  /\ lines \in Seq(Seq(Tokens)) /\ Len(lines) = last
  /\ lines[1] = <<"storage", IF c.ext_stor_active THEN "external" ELSE "internal">>
  /\ lines[2] = <<"minidump", IF c.m_enable_md THEN "enable" ELSE "disable",
                  IF c.m_md_save_to_int THEN "internal" ELSE "external">>
  /\ \A i \in 1 .. Len(c.m_mipilog) : lines[i + 2] = MipiLine(c.m_mipilog[i])
  /\ \A i \in 1 .. Len(c.m_iq_config) : lines[i + f] = IqLine(c.m_iq_config[i])
  /\ \A i \in 1 .. Len(c.m_config) : lines[i + g] = StreamLine(c.m_config[i])
  /\ lines[last - 1] = <<"agdsp_log_dest", c.agdsp_log_dest>>
  /\ lines[last] = <<"agdsp_pcm_dump", OnOff(c.agdsp_pcm_dump)>>

LEMMA PlacesIs ==
  ASSUME NEW c, NEW lines, Part(c, lines)
  PROVE  \E f, g, last : Placed(c, lines, f, g, last)
<1>1. PICK m, q, n : m = Len(c.m_mipilog) /\ q = Len(c.m_iq_config) /\ n = Len(c.m_config)
  OBVIOUS
<1>2. m \in Nat /\ q \in Nat /\ n \in Nat
  BY <1>1 DEF Part
<1>3. PICK f, g, last : f = m + 2 /\ g = f + q /\ last = g + n + 2
  OBVIOUS
<1>4. /\ f \in Nat /\ g \in Nat /\ last \in Nat /\ last >= 4
      /\ last = m + q + n + 4 /\ last - 1 = m + q + n + 3
      /\ \A i \in 1 .. q : i + f = i + m + 2
      /\ \A i \in 1 .. n : i + g = i + m + q + 2
  BY <1>2, <1>3
<1>5. /\ lines \in Seq(Seq(Tokens)) /\ Len(lines) = m + q + n + 4
      /\ lines[1] = <<"storage", IF c.ext_stor_active THEN "external" ELSE "internal">>
      /\ lines[2] = <<"minidump", IF c.m_enable_md THEN "enable" ELSE "disable",
                      IF c.m_md_save_to_int THEN "internal" ELSE "external">>
      /\ \A i \in 1 .. m : lines[i + 2] = MipiLine(c.m_mipilog[i])
      /\ \A i \in 1 .. q : lines[i + m + 2] = IqLine(c.m_iq_config[i])
      /\ \A i \in 1 .. n : lines[i + m + q + 2] = StreamLine(c.m_config[i])
      /\ lines[m + q + n + 3] = <<"agdsp_log_dest", c.agdsp_log_dest>>
      /\ lines[m + q + n + 4] = <<"agdsp_pcm_dump", OnOff(c.agdsp_pcm_dump)>>
  BY <1>1 DEF Part
<1>6. \A i \in 1 .. q : lines[i + f] = IqLine(c.m_iq_config[i])
  BY <1>4, <1>5
<1>7. \A i \in 1 .. n : lines[i + g] = StreamLine(c.m_config[i])
  BY <1>4, <1>5
<1>8. /\ lines[last - 1] = <<"agdsp_log_dest", c.agdsp_log_dest>>
      /\ lines[last] = <<"agdsp_pcm_dump", OnOff(c.agdsp_pcm_dump)>>
  BY <1>4, <1>5
<1>9. Placed(c, lines, f, g, last)
  BY <1>1, <1>3, <1>4, <1>5, <1>6, <1>7, <1>8 DEF Placed
<1> QED
  BY <1>9

LEMMA NextLine ==
  ASSUME NEW c, ConfigInv(c), \A e \in Range(c.m_mipilog) : ValidMipi(e),
         NEW lines, NEW f, NEW g, NEW last, Placed(c, lines, f, g, last), NEW old, NEW b,
         NEW k \in 1 .. last, NEW a, Upto(a, c, old, b, k - 1, f, g, last),
         NEW d, d = Step("parse", b, a, lines[k])
  PROVE  Upto(d, c, old, b, k, f, g, last)
<1>1. PICK m, q, n : m = Len(c.m_mipilog) /\ q = Len(c.m_iq_config) /\ n = Len(c.m_config)
  OBVIOUS
<1>2. /\ c \in Configs /\ c.m_mipilog \in Seq(Mipis) /\ OneMipiEach(c.m_mipilog)
      /\ c.m_iq_config \in Seq(Iqs) /\ OneEach(c.m_iq_config) /\ c.m_config \in Seq(Entries)
  BY DEF ConfigInv, Configs
<1>3. /\ ConfigInv(a) /\ a \in Configs /\ a.m_mipilog \in Seq(Mipis) /\ OneMipiEach(a.m_mipilog)
      /\ a.m_iq_config \in Seq(Iqs) /\ OneEach(a.m_iq_config)
      /\ a.m_config \in Seq(Entries) /\ OneEach(a.m_config)
  BY DEF Upto, ConfigInv, Configs
<1>4. m \in Nat /\ q \in Nat /\ n \in Nat
  BY <1>1, <1>2
<1>5. /\ f \in Nat /\ f = m + 2 /\ g \in Nat /\ g = f + q /\ last \in Nat /\ last = g + n + 2 /\ last >= 4
  BY <1>1 DEF Placed
<1>6. /\ lines \in Seq(Seq(Tokens)) /\ Len(lines) = last
      /\ lines[1] = <<"storage", IF c.ext_stor_active THEN "external" ELSE "internal">>
      /\ lines[2] = <<"minidump", IF c.m_enable_md THEN "enable" ELSE "disable",
                      IF c.m_md_save_to_int THEN "internal" ELSE "external">>
      /\ \A i \in 1 .. m : lines[i + 2] = MipiLine(c.m_mipilog[i])
      /\ \A i \in 1 .. q : lines[i + f] = IqLine(c.m_iq_config[i])
      /\ \A i \in 1 .. n : lines[i + g] = StreamLine(c.m_config[i])
      /\ lines[last - 1] = <<"agdsp_log_dest", c.agdsp_log_dest>>
      /\ lines[last] = <<"agdsp_pcm_dump", OnOff(c.agdsp_pcm_dump)>>
  BY <1>1 DEF Placed
<1>7. PICK line : line = lines[k]
  OBVIOUS
<1>8. d = Step("parse", b, a, line)
  BY <1>7
<1>9. line \in Seq(Tokens)
  BY <1>6, <1>7
<1>10. ConfigInv(d)
  BY <1>3, <1>8, <1>9, LineKeeps
<1>11. /\ FlagsRead(a, c, k - 1, last)
       /\ MipisRead(a.m_mipilog, c.m_mipilog, Done(k - 1, 2, m))
       /\ IqsRead(a.m_iq_config, c.m_iq_config, old, Done(k - 1, f, q))
       /\ StreamsRead(a.m_config, c.m_config, b, Done(k - 1, g, n))
  BY <1>1 DEF Upto
<1>12. SUFFICES /\ FlagsRead(d, c, k, last)
                /\ MipisRead(d.m_mipilog, c.m_mipilog, Done(k, 2, m))
                /\ IqsRead(d.m_iq_config, c.m_iq_config, old, Done(k, f, q))
                /\ StreamsRead(d.m_config, c.m_config, b, Done(k, g, n))
  BY <1>1, <1>10 DEF Upto
<1>13. \/ /\ k = 1 \/ k = 2 \/ k = last - 1 \/ k = last
          /\ Stays(k, 2, m) /\ Stays(k, f, q) /\ Stays(k, g, n)
       \/ /\ \E i \in 1 .. m : Moves(k, 2, m, i)
          /\ Stays(k, f, q) /\ Stays(k, g, n) /\ Within(k, last)
       \/ /\ \E i \in 1 .. q : Moves(k, f, q, i)
          /\ Stays(k, 2, m) /\ Stays(k, g, n) /\ Within(k, last)
       \/ /\ \E i \in 1 .. n : Moves(k, g, n, i)
          /\ Stays(k, 2, m) /\ Stays(k, f, q) /\ Within(k, last)
  <2>1. Place(k, m, q, n, f, g, last)
    BY <1>4, <1>5, Places
  <2> QED
    BY <2>1 DEF Place
<1>14. CASE /\ k = 1 \/ k = 2 \/ k = last - 1 \/ k = last
            /\ Stays(k, 2, m) /\ Stays(k, f, q) /\ Stays(k, g, n)
  <2>1. SameLists(a, d) /\ FlagsRead(d, c, k, last)
    <3>1. CASE k = 1
      <4>1. line = <<"storage", IF c.ext_stor_active THEN "external" ELSE "internal">>
        BY <1>6, <1>7, <3>1
      <4>2. SameLists(a, d) /\ d.ext_stor_active = c.ext_stor_active
        BY <1>2, <1>3, <1>8, <4>1, FirstLinesRead
      <4>3. ~(k >= 2) /\ ~(k >= last - 1) /\ ~(k >= last)
        BY <1>5, <3>1, Ends
      <4> QED
        BY <4>2, <4>3 DEF FlagsRead
    <3>2. CASE k = 2
      <4>1. line = <<"minidump", IF c.m_enable_md THEN "enable" ELSE "disable",
                     IF c.m_md_save_to_int THEN "internal" ELSE "external">>
        BY <1>6, <1>7, <3>2
      <4>2. /\ SameLists(a, d) /\ d.ext_stor_active = a.ext_stor_active /\ d.m_enable_md = c.m_enable_md
            /\ d.m_md_save_to_int = c.m_md_save_to_int
        BY <1>2, <1>3, <1>8, <4>1, FirstLinesRead
      <4>3. k - 1 >= 1 /\ ~(k >= last - 1) /\ ~(k >= last)
        BY <1>5, <3>2, Ends
      <4> QED
        BY <1>11, <4>2, <4>3 DEF FlagsRead
    <3>3. CASE k = last - 1
      <4>1. line = <<"agdsp_log_dest", c.agdsp_log_dest>>
        BY <1>6, <1>7, <3>3
      <4>2. /\ SameLists(a, d) /\ d.ext_stor_active = a.ext_stor_active /\ d.m_enable_md = a.m_enable_md
            /\ d.m_md_save_to_int = a.m_md_save_to_int /\ d.agdsp_log_dest = c.agdsp_log_dest
        BY <1>2, <1>3, <1>8, <4>1, LastLinesRead
      <4>3. k - 1 >= 1 /\ k - 1 >= 2 /\ ~(k >= last)
        BY <1>5, <3>3, Ends
      <4> QED
        BY <1>11, <4>2, <4>3 DEF FlagsRead
    <3>4. CASE k = last
      <4>1. line = <<"agdsp_pcm_dump", OnOff(c.agdsp_pcm_dump)>>
        BY <1>6, <1>7, <3>4
      <4>2. /\ SameLists(a, d) /\ d.ext_stor_active = a.ext_stor_active /\ d.m_enable_md = a.m_enable_md
            /\ d.m_md_save_to_int = a.m_md_save_to_int /\ d.agdsp_log_dest = a.agdsp_log_dest
            /\ d.agdsp_pcm_dump = c.agdsp_pcm_dump
        BY <1>2, <1>3, <1>8, <4>1, LastLinesRead
      <4>3. k - 1 >= 1 /\ k - 1 >= 2 /\ k - 1 >= last - 1
        BY <1>5, <3>4, Ends
      <4> QED
        BY <1>11, <4>2, <4>3 DEF FlagsRead
    <3> QED
      BY <1>14, <3>1, <3>2, <3>3, <3>4
  <2> QED
    BY <1>11, <1>14, <2>1 DEF SameLists, Stays
<1>15. ASSUME Within(k, last), SameFlags(a, d)
       PROVE  FlagsRead(d, c, k, last)
  BY <1>11, <1>15 DEF FlagsRead, SameFlags, Within
<1>16. CASE /\ \E i \in 1 .. m : Moves(k, 2, m, i)
            /\ Stays(k, f, q) /\ Stays(k, g, n) /\ Within(k, last)
  <2>1. PICK i \in 1 .. m : Moves(k, 2, m, i)
    BY <1>16
  <2>2. PICK e : e = c.m_mipilog[i]
    OBVIOUS
  <2>3. line = MipiLine(e)
    BY <1>6, <1>7, <2>1, <2>2 DEF Moves
  <2>4. e \in Mipis /\ e \in Range(c.m_mipilog) /\ i \in 1 .. Len(c.m_mipilog)
    BY <1>1, <1>2, <2>2 DEF Range
  <2>5. ValidMipi(e)
    BY <2>4
  <2>6. /\ SameFlags(a, d) /\ d.m_config = a.m_config /\ d.m_iq_config = a.m_iq_config
        /\ d.m_mipilog = WithMipi(a.m_mipilog, e)
    BY <1>3, <1>8, <2>3, <2>4, <2>5, MipiLineRead
  <2>7. MipisRead(a.m_mipilog, c.m_mipilog, i - 1)
    BY <1>11, <2>1 DEF Moves
  <2>8. MipisRead(WithMipi(a.m_mipilog, c.m_mipilog[i]), c.m_mipilog, i)
    <3>1. PICK list, conf : list = a.m_mipilog /\ conf = c.m_mipilog
      OBVIOUS
    <3>2. /\ list \in Seq(Mipis) /\ OneMipiEach(list) /\ conf \in Seq(Mipis) /\ OneMipiEach(conf)
          /\ i \in 1 .. Len(conf) /\ MipisRead(list, conf, i - 1)
      BY <1>2, <1>3, <2>4, <2>7, <3>1
    <3> QED
      BY <3>1, <3>2, MipiNext
  <2>9. Done(k, 2, m) = i
    BY <2>1 DEF Moves
  <2> QED
    BY <1>11, <1>15, <1>16, <2>2, <2>6, <2>8, <2>9 DEF Stays
<1>17. CASE /\ \E i \in 1 .. q : Moves(k, f, q, i)
            /\ Stays(k, 2, m) /\ Stays(k, g, n) /\ Within(k, last)
  <2>1. PICK i \in 1 .. q : Moves(k, f, q, i)
    BY <1>17
  <2>2. PICK e : e = c.m_iq_config[i]
    OBVIOUS
  <2>3. line = IqLine(e)
    BY <1>6, <1>7, <2>1, <2>2 DEF Moves
  <2>4. e \in Iqs /\ i \in 1 .. Len(c.m_iq_config)
    BY <1>1, <1>2, <2>2
  <2>5. /\ SameFlags(a, d) /\ d.m_config = a.m_config /\ d.m_mipilog = a.m_mipilog
        /\ d.m_iq_config = WithIq(a.m_iq_config, e)
    BY <1>3, <1>8, <2>3, <2>4, IqLineRead
  <2>6. IqsRead(a.m_iq_config, c.m_iq_config, old, i - 1)
    BY <1>11, <2>1 DEF Moves
  <2>7. IqsRead(WithIq(a.m_iq_config, c.m_iq_config[i]), c.m_iq_config, old, i)
    <3>1. PICK list, conf : list = a.m_iq_config /\ conf = c.m_iq_config
      OBVIOUS
    <3>2. /\ list \in Seq(Iqs) /\ OneEach(list) /\ conf \in Seq(Iqs) /\ OneEach(conf)
          /\ i \in 1 .. Len(conf) /\ IqsRead(list, conf, old, i - 1)
      BY <1>2, <1>3, <2>4, <2>6, <3>1
    <3> QED
      BY <3>1, <3>2, IqNext
  <2>8. Done(k, f, q) = i
    BY <2>1 DEF Moves
  <2> QED
    BY <1>11, <1>15, <1>17, <2>2, <2>5, <2>7, <2>8 DEF Stays
<1>18. CASE /\ \E i \in 1 .. n : Moves(k, g, n, i)
            /\ Stays(k, 2, m) /\ Stays(k, f, q) /\ Within(k, last)
  <2>1. PICK i \in 1 .. n : Moves(k, g, n, i)
    BY <1>18
  <2>2. PICK e : e = c.m_config[i]
    OBVIOUS
  <2>3. line = StreamLine(e)
    BY <1>6, <1>7, <2>1, <2>2 DEF Moves
  <2>4. e \in Entries /\ i \in 1 .. Len(c.m_config)
    BY <1>1, <1>2, <2>2
  <2>5. StreamsRead(a.m_config, c.m_config, b, i - 1)
    BY <1>11, <2>1 DEF Moves
  <2>6. /\ Has(a.m_config, e.type)
        /\ StreamsRead(Replaced(a.m_config, e.type, Reread(e, b)), c.m_config, b, i)
    <3>1. PICK list, conf : list = a.m_config /\ conf = c.m_config
      OBVIOUS
    <3>2. /\ list \in Seq(Entries) /\ OneEach(list) /\ conf \in Seq(Entries)
          /\ i \in 1 .. Len(conf) /\ StreamsRead(list, conf, b, i - 1)
      BY <1>2, <1>3, <2>4, <2>5, <3>1
    <3> QED
      BY <2>2, <3>1, <3>2, StreamNext
  <2>7. /\ SameFlags(a, d) /\ d.m_iq_config = a.m_iq_config /\ d.m_mipilog = a.m_mipilog
        /\ d.m_config = Replaced(a.m_config, e.type, Reread(e, b))
    BY <1>3, <1>8, <2>3, <2>4, <2>6, StreamLineRead
  <2>8. Done(k, g, n) = i
    BY <2>1 DEF Moves
  <2> QED
    BY <1>11, <1>15, <1>18, <2>6, <2>7, <2>8 DEF Stays
<1> QED
  BY <1>13, <1>14, <1>16, <1>17, <1>18

\* The settings that are written are read again, after those of the shipped file.
LEMMA AllLines ==
  ASSUME NEW c, ConfigInv(c), \A e \in Range(c.m_mipilog) : ValidMipi(e),
         NEW lines, NEW f, NEW g, NEW last, Placed(c, lines, f, g, last),
         NEW s, ConfigInv(s), Extends(c, s), NEW b
  PROVE  Upto(ParseConfigFile(s, lines, b), c, s.m_iq_config, b, last, f, g, last)
<1>1. PICK old : old = s.m_iq_config
  OBVIOUS
<1>2. PICK m, q, n : m = Len(c.m_mipilog) /\ q = Len(c.m_iq_config) /\ n = Len(c.m_config)
  OBVIOUS
<1>3. m \in Nat /\ q \in Nat /\ n \in Nat
  BY <1>2 DEF ConfigInv, Configs
<1>4. /\ f \in Nat /\ g \in Nat /\ last \in Nat /\ last >= 4 /\ Len(lines) = last
      /\ lines \in Seq(Seq(Tokens))
  BY DEF Placed
<1>5. Upto(s, c, old, b, 0, f, g, last)
  <2>1. /\ s.m_mipilog \in Seq(Mipis) /\ s.m_iq_config \in Seq(Iqs) /\ s.m_config \in Seq(Entries)
    BY DEF ConfigInv, Configs
  <2>2. Done(0, 2, m) = 0 /\ Done(0, f, q) = 0 /\ Done(0, g, n) = 0
    BY <1>3, <1>4, DoneIs
  <2>3. MipisRead(s.m_mipilog, c.m_mipilog, 0)
    BY <2>1 DEF MipisRead, Extends
  <2>4. IqsRead(s.m_iq_config, c.m_iq_config, old, 0)
    BY <1>1 DEF IqsRead
  <2>5. StreamsRead(s.m_config, c.m_config, b, 0)
    BY DEF StreamsRead, Extends
  <2>6. FlagsRead(s, c, 0, last)
    BY <1>4 DEF FlagsRead
  <2> QED
    BY <1>2, <2>2, <2>3, <2>4, <2>5, <2>6 DEF Upto
<1> DEFINE S == [k \in 0 .. last |-> {a \in Configs : Upto(a, c, old, b, k, f, g, last)}]
<1>6. s \in S[0]
  BY <1>4, <1>5 DEF ConfigInv
<1>7. \A k \in 1 .. last : \A a \in S[k - 1] : Step("parse", b, a, lines[k]) \in S[k]
  <2>1. ASSUME NEW k \in 1 .. last, NEW a \in S[k - 1]
        PROVE  Step("parse", b, a, lines[k]) \in S[k]
    <3>1. k \in 0 .. last /\ k - 1 \in 0 .. last
      BY <1>4
    <3>2. Upto(a, c, old, b, k - 1, f, g, last)
      BY <3>1
    <3>3. PICK d : d = Step("parse", b, a, lines[k])
      OBVIOUS
    <3>4. Upto(d, c, old, b, k, f, g, last)
      BY <3>2, <3>3, NextLine
    <3>5. d \in Configs
      BY <3>4 DEF Upto, ConfigInv
    <3> QED
      BY <3>1, <3>3, <3>4, <3>5
  <2> QED
    BY <2>1
<1>8. S[last] = {a \in Configs : Upto(a, c, old, b, last, f, g, last)}
  BY <1>4
<1> HIDE DEF S
<1>9. ParseConfigFile(s, lines, b) \in S[last]
  BY <1>4, <1>6, <1>7, ParseFold
<1> QED
  BY <1>1, <1>8, <1>9

\* What is compared of two settings.
Streams(z) == [i \in DOMAIN z.m_config |->
                 IF build = "cmcc" THEN [z.m_config[i] EXCEPT !.internal_limit = "0"] ELSE z.m_config[i]]
AllIqs(z) == {iq \in Range(z.m_iq_config) : HasIq(iq)}
SameMeaning(y, z) ==
  /\ y.m_enable_md = z.m_enable_md /\ y.m_md_save_to_int = z.m_md_save_to_int
  /\ y.agdsp_log_dest = z.agdsp_log_dest /\ y.agdsp_pcm_dump = z.agdsp_pcm_dump
  /\ y.ext_stor_active = z.ext_stor_active /\ y.m_mipilog = z.m_mipilog
  /\ Streams(y) = Streams(z) /\ AllIqs(y) = AllIqs(z)

LEMMA MeaningIs ==
  ASSUME NEW z \in Configs
  PROVE  Meaning(z) =
           [m_enable_md |-> z.m_enable_md, m_md_save_to_int |-> z.m_md_save_to_int,
            agdsp_log_dest |-> z.agdsp_log_dest, agdsp_pcm_dump |-> z.agdsp_pcm_dump,
            ext_stor_active |-> z.ext_stor_active, m_config |-> Streams(z),
            m_iq_config |-> AllIqs(z), m_mipilog |-> z.m_mipilog]
<1>1. DOMAIN z = {"m_dirty", "m_enable_md", "m_md_save_to_int", "agdsp_log_dest", "agdsp_pcm_dump",
                  "ext_stor_active", "use_work_conf_file", "m_config", "m_iq_config", "m_mipilog"}
  BY DEF Configs
<1>2. PICK t, p, u : t = Content(z) /\ p = Streams(z) /\ u = AllIqs(z)
  OBVIOUS
<1>3. t = [m_enable_md |-> z.m_enable_md, m_md_save_to_int |-> z.m_md_save_to_int,
           agdsp_log_dest |-> z.agdsp_log_dest, agdsp_pcm_dump |-> z.agdsp_pcm_dump,
           ext_stor_active |-> z.ext_stor_active, m_config |-> z.m_config,
           m_iq_config |-> z.m_iq_config, m_mipilog |-> z.m_mipilog]
  BY <1>1, <1>2 DEF Content
<1>4. Meaning(z) = [t EXCEPT !.m_iq_config = u, !.m_config = p]
  BY <1>2 DEF Meaning, Streams, AllIqs, HasIq
<1>5. Meaning(z) = [m_enable_md |-> z.m_enable_md, m_md_save_to_int |-> z.m_md_save_to_int,
                    agdsp_log_dest |-> z.agdsp_log_dest, agdsp_pcm_dump |-> z.agdsp_pcm_dump,
                    ext_stor_active |-> z.ext_stor_active, m_config |-> p,
                    m_iq_config |-> u, m_mipilog |-> z.m_mipilog]
  BY <1>3, <1>4
<1> QED
  BY <1>2, <1>5

LEMMA MeaningSame ==
  ASSUME NEW y \in Configs, NEW z \in Configs, SameMeaning(y, z)
  PROVE  Meaning(y) = Meaning(z)
  BY MeaningIs DEF SameMeaning

LEMMA RoundTrip ==
  ASSUME NEW c, ConfigInv(c), Extends(c, Shipped(Cmcc)), NEW file, file.exists, file.lines = Lines(c)
  PROVE  Survives(file, c)
<1> SUFFICES ASSUME Readable(c)
             PROVE  Meaning(ReadConfig(Initial, file, Cmcc)) = Meaning(c)
  BY DEF Survives
<1>1. PICK b, s, lines, m, q, n : /\ b = Cmcc /\ s = Shipped(b) /\ lines = Lines(c)
                                  /\ m = Len(c.m_mipilog) /\ q = Len(c.m_iq_config) /\ n = Len(c.m_config)
  OBVIOUS
<1>2. PICK r : r = ParseConfigFile(s, lines, b)
  OBVIOUS
<1>3. PICK x : x = ReadConfig(Initial, file, Cmcc)
  OBVIOUS
<1>4. x = [r EXCEPT !.use_work_conf_file = TRUE]
  BY <1>1, <1>2, <1>3 DEF ReadConfig, Shipped
<1>5. m \in Nat /\ q \in Nat /\ n \in Nat
  BY <1>1 DEF ConfigInv, Configs
<1>6. ConfigInv(s) /\ Extends(c, s)
  BY <1>1, ShippedIs
<1>7. \A e \in Range(c.m_mipilog) : ValidMipi(e)
  BY DEF Readable
<1>8. Part(c, lines)
  BY <1>1, LinesAre
<1>9. PICK f, g, last : Placed(c, lines, f, g, last)
  BY <1>8, PlacesIs
<1>10. Upto(r, c, s.m_iq_config, b, last, f, g, last)
  BY <1>2, <1>6, <1>7, <1>9, AllLines
<1>11. /\ f \in Nat /\ f = m + 2 /\ g \in Nat /\ g = f + q /\ last \in Nat /\ last = g + n + 2 /\ last >= 4
  BY <1>1, <1>9 DEF Placed
<1>12. Done(last, 2, m) = m /\ Done(last, f, q) = q /\ Done(last, g, n) = n
  <2>1. last >= 2 + m /\ last >= f + q /\ last >= g + n
    BY <1>5, <1>11
  <2>2. 2 \in Nat
    OBVIOUS
  <2> QED
    BY <1>5, <1>11, <2>1, <2>2, DoneAll
<1>13. /\ MipisRead(r.m_mipilog, c.m_mipilog, m) /\ IqsRead(r.m_iq_config, c.m_iq_config, s.m_iq_config, q)
       /\ StreamsRead(r.m_config, c.m_config, b, n) /\ FlagsRead(r, c, last, last)
       /\ ConfigInv(r)
  BY <1>1, <1>10, <1>12 DEF Upto
<1>14. last >= 1 /\ last >= 2 /\ last >= last - 1 /\ last >= last
  BY <1>11
<1>15. /\ r.ext_stor_active = c.ext_stor_active /\ r.m_enable_md = c.m_enable_md
       /\ r.m_md_save_to_int = c.m_md_save_to_int /\ r.agdsp_log_dest = c.agdsp_log_dest
       /\ r.agdsp_pcm_dump = c.agdsp_pcm_dump
  BY <1>13, <1>14 DEF FlagsRead
<1>16. r.m_mipilog = c.m_mipilog
  <2>1. PICK list, conf : list = r.m_mipilog /\ conf = c.m_mipilog
    OBVIOUS
  <2>2. /\ list \in Seq(Mipis) /\ OneMipiEach(list) /\ conf \in Seq(Mipis) /\ MipisRead(list, conf, Len(conf))
    BY <1>1, <1>13, <2>1 DEF ConfigInv, Configs
  <2> QED
    BY <2>1, <2>2, MipiAll
<1>17. {iq \in Range(r.m_iq_config) : HasIq(iq)} = {iq \in Range(c.m_iq_config) : HasIq(iq)}
  <2>1. PICK list, conf, old : list = r.m_iq_config /\ conf = c.m_iq_config /\ old = s.m_iq_config
    OBVIOUS
  <2>2. /\ list \in Seq(Iqs) /\ OneEach(list) /\ conf \in Seq(Iqs) /\ OneEach(conf) /\ old \in Seq(Iqs)
        /\ IqsRead(list, conf, old, Len(conf))
    BY <1>1, <1>6, <1>13, <2>1 DEF ConfigInv, Configs
  <2>3. Range(TypesOf(old)) \subseteq Range(TypesOf(conf))
    BY <1>6, <2>1 DEF Extends
  <2>4. \A iq \in Range(conf) : HasIq(iq) \/ ~Has(old, iq.type)
    BY <1>1, <2>1 DEF Readable, HasIq, Shipped, Cmcc
  <2> QED
    BY <2>1, <2>2, <2>3, <2>4, IqAll
<1>18. DOMAIN r.m_config = DOMAIN c.m_config /\ DOMAIN c.m_config = 1 .. n
       /\ \A i \in 1 .. n : r.m_config[i] = Reread(c.m_config[i], b) /\ c.m_config[i] \in Entries
  BY <1>1, <1>13 DEF StreamsRead, TypesOf, ConfigInv, Configs
<1>19. Streams(r) = Streams(c)
  <2>1. ASSUME NEW i \in 1 .. n
        PROVE  (IF build = "cmcc" THEN [r.m_config[i] EXCEPT !.internal_limit = "0"] ELSE r.m_config[i])
                 = IF build = "cmcc" THEN [c.m_config[i] EXCEPT !.internal_limit = "0"] ELSE c.m_config[i]
    BY <1>1, <1>18 DEF Reread, Cmcc, Entries
  <2> QED
    BY <1>18, <2>1 DEF Streams
<1>20. c \in Configs /\ x \in Configs /\ r \in Configs
  BY <1>4, <1>13 DEF ConfigInv, Configs
<1>21. /\ x.m_enable_md = r.m_enable_md /\ x.m_md_save_to_int = r.m_md_save_to_int
       /\ x.agdsp_log_dest = r.agdsp_log_dest /\ x.agdsp_pcm_dump = r.agdsp_pcm_dump
       /\ x.ext_stor_active = r.ext_stor_active /\ x.m_config = r.m_config
       /\ x.m_iq_config = r.m_iq_config /\ x.m_mipilog = r.m_mipilog
  BY <1>4, <1>20 DEF Configs
<1>22. Streams(x) = Streams(r) /\ AllIqs(x) = AllIqs(r)
  BY <1>21 DEF Streams, AllIqs
<1>23. AllIqs(r) = AllIqs(c)
  BY <1>17 DEF AllIqs
<1>24. SameMeaning(x, c)
  BY <1>15, <1>16, <1>19, <1>21, <1>22, <1>23 DEF SameMeaning
<1>25. Meaning(x) = Meaning(c)
  BY <1>20, <1>24, MeaningSame
<1> QED
  BY <1>3, <1>25
------------------------------------------------------------------------------
(* The program between two steps, its file and an answer: a world.         *)

Sizes == Tokens
FullPipes ==
  [present : {TRUE}, log_mode : {"LM_OFF", "LM_NORMAL"}, m_internal_max_size : Sizes,
   m_external_max_size : Sizes, tmp_external_max_size : Sizes, m_max_log_file_size : Sizes,
   overwrite : BOOLEAN]
FullModems ==
  [save_wcdma_iq : BOOLEAN, poweron_period : BOOLEAN, mix : BOOLEAN, save_md : BOOLEAN,
   md_to_int : BOOLEAN, working : BOOLEAN, restarted : BOOLEAN, mini_ap_log : BOOLEAN,
   orcadp_log : BOOLEAN]
Dsps == [dest : {"off", "uart", "ap"}, pcm : BOOLEAN, heard : BOOLEAN]

IsWorld(w) ==
  /\ w \in [ended : BOOLEAN, conf : Configs, work : Files, saved : {w.saved},
            pipes : [Types -> FullPipes \cup {NoPipe}], permit : BOOLEAN,
            modem : FullModems \cup {[working |-> FALSE]}, dsp : Dsps, cmd : {w.cmd}, answer : {w.answer}]
  /\ CmdShape(w.cmd)

Follows(h, e, t, modem) ==
  /\ h.log_mode = e.mode \/ e.mode = "LM_EVENT"
  /\ h.m_internal_max_size = e.internal_limit
  /\ UserBuild \/ (h.m_external_max_size = e.external_limit /\ h.tmp_external_max_size = "0")
  /\ h.m_max_log_file_size = e.file_size_limit
  /\ h.overwrite = e.overwrite \/ (t = WanModem /\ modem.mix)

PipesFollow(pipes, c, modem) ==
  \A t \in Types : pipes[t].present =>
    Has(c.m_config, t) /\ Follows(pipes[t], Find(c.m_config, t), t, modem)

ModemFollows(modem, c) ==
  /\ modem \in FullModems
  /\ modem.save_md = c.m_enable_md /\ modem.md_to_int = c.m_md_save_to_int
  /\ modem.save_wcdma_iq <=> WcdmaIqEnabled(c, WanModem)
  /\ modem.working \/ modem.restarted

DspFollows(dsp, c) == dsp.heard => dsp.dest = c.agdsp_log_dest /\ dsp.pcm = c.agdsp_pcm_dump

Clean(c, saved, file) == c.m_dirty \/ (saved = Content(c) /\ Survives(file, c))

Good(w) ==
  /\ IsWorld(w)
  /\ ConfigInv(w.conf) /\ Extends(w.conf, Shipped(Cmcc))
  /\ FileInv(w.work, Cmcc)
  /\ PipesFollow(w.pipes, w.conf, w.modem)
  /\ w.permit = w.conf.ext_stor_active
  /\ w.pipes[WanModem].present =>
       ModemFollows(w.modem, w.conf) /\ CmdInv(w.cmd, w.modem.working, w.modem.restarted)
  /\ w.pipes["CT_AGDSP"].present => DspFollows(w.dsp, w.conf)
  /\ Clean(w.conf, w.saved, w.work)

IsEnv(env) ==
  /\ env.exists \in BOOLEAN /\ env.writable \in BOOLEAN /\ env.dsp \in BOOLEAN /\ env.early \in BOOLEAN
  /\ env.cut[1] \in Nat /\ env.cut[2] \in Nat

LEMMA EnvIs ==
  /\ \A env \in FineOnes \cup Faults : IsEnv(env)
  /\ \A g : \A early \in PowerOn, exists \in BOOLEAN : IsEnv(Fine(early, exists, g))
<1>1. PowerOn \subseteq BOOLEAN /\ Cuts \subseteq Nat \X Nat
  BY SettingsAssumption DEF SettingsAssumption
<1>2. ASSUME NEW early \in BOOLEAN, NEW exists \in BOOLEAN, NEW g
      PROVE  IsEnv(Fine(early, exists, g))
  BY DEF IsEnv, Fine
<1>3. ASSUME NEW env \in FineOnes
      PROVE  IsEnv(env)
  BY <1>1, <1>2 DEF FineOnes
<1>4. ASSUME NEW env \in Faults
      PROVE  IsEnv(env)
  <2>1. PICK f : f = Fine(FALSE, TRUE, {})
    OBVIOUS
  <2>2. /\ f = [save |-> "saved", cut |-> <<0, 0>>, dsp |-> TRUE, exists |-> TRUE, writable |-> TRUE,
                early |-> FALSE, garbage |-> {}]
    BY <2>1 DEF Fine
  <2>3. \/ env = [f EXCEPT !.save = "not opened"] \/ env = [f EXCEPT !.dsp = FALSE]
        \/ env = [f EXCEPT !.writable = FALSE] \/ \E c \in Cuts : env = [f EXCEPT !.save = "cut off", !.cut = c]
    BY <2>1 DEF Faults
  <2>4. CASE env = [f EXCEPT !.save = "not opened"]
    BY <2>2, <2>4 DEF IsEnv
  <2>6. CASE env = [f EXCEPT !.dsp = FALSE]
    BY <2>2, <2>6 DEF IsEnv
  <2>7. CASE env = [f EXCEPT !.writable = FALSE]
    BY <2>2, <2>7 DEF IsEnv
  <2>5. CASE \E c \in Cuts : env = [f EXCEPT !.save = "cut off", !.cut = c]
    <3>1. PICK c \in Cuts : env = [f EXCEPT !.save = "cut off", !.cut = c]
      BY <2>5
    <3>2. c[1] \in Nat /\ c[2] \in Nat
      BY <1>1
    <3> QED
      BY <2>2, <3>1, <3>2 DEF IsEnv
  <2> QED
    BY <2>3, <2>4, <2>5, <2>6, <2>7
<1> QED
  BY <1>1, <1>2, <1>3, <1>4

LEMMA LinesAddNone ==
  ASSUME NEW c, ConfigInv(c), NEW d, Extends(c, d), NEW i \in DOMAIN Lines(c)
  PROVE  AddsNone(Lines(c)[i], d)
<1>1. PICK l : l = Lines(c)
  OBVIOUS
<1>2. Part(c, l)
  BY <1>1, LinesAre
<1> DEFINE m == Len(c.m_mipilog)
           q == Len(c.m_iq_config)
           n == Len(c.m_config)
<1>3. /\ m \in Nat /\ q \in Nat /\ n \in Nat /\ i \in 1 .. m + q + n + 4
      /\ l[1][1] = "storage" /\ l[2][1] = "minidump"
      /\ \A k \in 1 .. m : l[k + 2] = MipiLine(c.m_mipilog[k])
      /\ \A k \in 1 .. q : l[k + m + 2] = IqLine(c.m_iq_config[k])
      /\ \A k \in 1 .. n : l[k + m + q + 2] = StreamLine(c.m_config[k])
      /\ l[m + q + n + 3][1] = "agdsp_log_dest"
      /\ l[m + q + n + 4][1] = "agdsp_pcm_dump"
  <2>1. l \in Seq(Seq(Tokens)) /\ Len(l) = m + q + n + 4
    BY <1>2 DEF Part
  <2>2. i \in 1 .. m + q + n + 4
    <3>1. DOMAIN l = 1 .. Len(l)
      BY <2>1, TokenSeq
    <3>2. i \in DOMAIN l
      BY <1>1
    <3> QED
      BY <2>1, <3>1, <3>2
  <2>3. /\ l[1] = <<"storage", IF c.ext_stor_active THEN "external" ELSE "internal">>
        /\ l[2] = <<"minidump", IF c.m_enable_md THEN "enable" ELSE "disable",
                     IF c.m_md_save_to_int THEN "internal" ELSE "external">>
        /\ l[m + q + n + 3] = <<"agdsp_log_dest", c.agdsp_log_dest>>
        /\ l[m + q + n + 4] = <<"agdsp_pcm_dump", OnOff(c.agdsp_pcm_dump)>>
    BY <1>2 DEF Part
  <2>4. /\ l[1][1] = "storage" /\ l[2][1] = "minidump"
        /\ l[m + q + n + 3][1] = "agdsp_log_dest" /\ l[m + q + n + 4][1] = "agdsp_pcm_dump"
    BY <2>3
  <2>5. /\ m \in Nat /\ q \in Nat /\ n \in Nat
        /\ \A k \in 1 .. m : l[k + 2] = MipiLine(c.m_mipilog[k])
        /\ \A k \in 1 .. q : l[k + m + 2] = IqLine(c.m_iq_config[k])
        /\ \A k \in 1 .. n : l[k + m + q + 2] = StreamLine(c.m_config[k])
    BY <1>2 DEF Part
  <2> QED
    BY <2>2, <2>4, <2>5
<1>4. /\ c.m_mipilog \in Seq(Mipis) /\ c.m_iq_config \in Seq(Iqs) /\ c.m_config \in Seq(Entries)
  BY DEF ConfigInv, Configs
<1>5. /\ \A k \in 1 .. m : l[k + 2][1] = "mipilog"
      /\ \A k \in 1 .. q : l[k + m + 2][1] = "iq"
  <2>1. (\A k \in 1 .. m : c.m_mipilog[k] \in Mipis) /\ (\A k \in 1 .. q : c.m_iq_config[k] \in Iqs)
    BY <1>4
  <2> QED
    BY <1>3, <2>1, LineIs
<1>6. ASSUME NEW k \in 1 .. n
      PROVE  GetModemType(l[k + m + q + 2][2]) \in Range(TypesOf(d.m_config))
  <2>1. c.m_config[k] \in Entries /\ k \in DOMAIN c.m_config
    BY <1>4
  <2>2. c.m_config[k].type \in Types
    BY <2>1 DEF Entries
  <2>3. l[k + m + q + 2][2] = CpTypeToName[c.m_config[k].type]
    <3>1. l[k + m + q + 2] = StreamLine(c.m_config[k])
      BY <1>3
    <3>2. StreamLine(c.m_config[k])[2] = CpTypeToName[c.m_config[k].type]
      BY DEF StreamLine
    <3> QED
      BY <3>1, <3>2
  <2>4. GetModemType(l[k + m + q + 2][2]) = c.m_config[k].type
    BY <2>2, <2>3, ModemTypeIs
  <2>5. c.m_config[k].type \in Range(TypesOf(c.m_config))
    BY <2>1 DEF Range, TypesOf
  <2> QED
    BY <2>4, <2>5 DEF Extends
<1>7. CASE i = 1
  BY <1>1, <1>3, <1>7 DEF AddsNone
<1>8. CASE i = 2
  BY <1>1, <1>3, <1>8 DEF AddsNone
<1> HIDE DEF m, q, n
<1>9. CASE i \in 3 .. m + 2
  <2>1. i - 2 \in 1 .. m /\ i - 2 + 2 = i
    BY <1>3, <1>9
  <2> QED
    BY <1>1, <1>5, <2>1 DEF AddsNone
<1>10. CASE i \in m + 3 .. m + q + 2
  <2>1. i - m - 2 \in 1 .. q /\ i - m - 2 + m + 2 = i
    BY <1>3, <1>10
  <2> QED
    BY <1>1, <1>5, <2>1 DEF AddsNone
<1>11. CASE i \in m + q + 3 .. m + q + n + 2
  <2>1. i - m - q - 2 \in 1 .. n /\ i - m - q - 2 + m + q + 2 = i
    BY <1>3, <1>11
  <2> QED
    BY <1>1, <1>6, <2>1 DEF AddsNone
<1>12. CASE i = m + q + n + 3 \/ i = m + q + n + 4
  BY <1>1, <1>3, <1>12 DEF AddsNone
<1>13. i = 1 \/ i = 2 \/ i \in 3 .. m + 2 \/ i \in m + 3 .. m + q + 2 \/ i \in m + q + 3 .. m + q + n + 2
       \/ i = m + q + n + 3 \/ i = m + q + n + 4
  BY <1>3
<1> QED
  BY <1>7, <1>8, <1>9, <1>10, <1>11, <1>12, <1>13

LEMMA FilesAre ==
  ASSUME NEW c, ConfigInv(c), NEW b, Extends(c, Shipped(b)), NEW n \in Nat, NEW tokens \in Nat
  PROVE  /\ FileInv([exists |-> TRUE, lines |-> Lines(c), torn |-> FALSE], b)
         /\ FileInv([exists |-> TRUE, lines |-> CutOff(Lines(c), n, tokens), torn |-> TRUE], b)
<1>1. PICK l : l = Lines(c)
  OBVIOUS
<1>2. l \in Seq(Seq(Tokens)) /\ \A i \in DOMAIN l : AddsNone(l[i], Shipped(b))
  BY <1>1, LinesAre, LinesAddNone DEF Part
<1>3. DOMAIN l = 1 .. Len(l) /\ Len(l) \in Nat /\ \A i \in 1 .. Len(l) : l[i] \in Seq(Tokens)
  BY <1>2, TokenSeq
<1>4. ASSUME NEW k \in Seq(Seq(Tokens)), \A i \in DOMAIN k : AddsNone(k[i], Shipped(b)), NEW torn \in BOOLEAN
      PROVE  FileInv([exists |-> TRUE, lines |-> k, torn |-> torn], b)
  BY <1>4 DEF FileInv, Files
<1>5. PICK k : k = CutOff(l, n, tokens)
  OBVIOUS
<1>6. k \in Seq(Seq(Tokens)) /\ \A i \in DOMAIN k : AddsNone(k[i], Shipped(b))
  <2>1. CASE n >= Len(l)
    BY <1>2, <1>5, <2>1 DEF CutOff
  <2>2. CASE ~(n >= Len(l))
    <3>1. n + 1 \in 1 .. Len(l) /\ n <= Len(l)
      BY <1>3, <2>2
    <3>2. PICK next : next = l[n + 1]
      OBVIOUS
    <3>3. next \in Seq(Tokens) /\ AddsNone(next, Shipped(b)) /\ Len(next) \in Nat
      BY <1>2, <1>3, <3>1, <3>2, TokenSeq
    <3>4. PICK last : last = IF tokens < Len(next) THEN SubSeq(next, 1, tokens) ELSE next
      OBVIOUS
    <3>5. last \in Seq(Tokens) /\ AddsNone(last, Shipped(b))
      <4>1. CASE tokens < Len(next)
        <5>1. /\ last \in Seq(Tokens) /\ Len(last) = tokens
              /\ \A j \in 1 .. tokens : last[j] = next[j]
          BY <3>3, <3>4, <4>1, SubSeqProperties
        <5> QED
          BY <3>3, <4>1, <5>1 DEF AddsNone
      <4>2. CASE ~(tokens < Len(next))
        BY <3>3, <3>4, <4>2
      <4> QED
        BY <4>1, <4>2
    <3>6. PICK first : first = SubSeq(l, 1, n)
      OBVIOUS
    <3>7. /\ first \in Seq(Seq(Tokens)) /\ Len(first) = n /\ \A j \in 1 .. n : first[j] = l[j]
      BY <1>2, <3>1, <3>6, SubSeqProperties
    <3>8. k = Append(first, last)
      <4>1. k = first \o <<last>>
        BY <1>5, <2>2, <3>2, <3>4, <3>6 DEF CutOff
      <4> QED
        BY <3>5, <3>7, <4>1, AppendIsConcat
    <3>9. /\ k \in Seq(Seq(Tokens)) /\ DOMAIN k = 1 .. n + 1 /\ k[n + 1] = last
          /\ \A j \in 1 .. n : k[j] = first[j]
      BY <3>5, <3>7, <3>8, AppendProperties
    <3>10. ASSUME NEW i \in 1 .. n + 1
           PROVE  AddsNone(k[i], Shipped(b))
      <4>1. CASE i = n + 1
        BY <3>5, <3>9, <4>1
      <4>2. CASE i # n + 1
        <5>1. i \in 1 .. n /\ i \in 1 .. Len(l)
          BY <1>3, <3>1, <4>2
        <5> QED
          BY <1>2, <1>3, <3>7, <3>9, <5>1
      <4> QED
        BY <4>1, <4>2
    <3> QED
      BY <3>9, <3>10
  <2> QED
    BY <2>1, <2>2
<1> QED
  BY <1>1, <1>2, <1>4, <1>5, <1>6

LEMMA SaveKeeps ==
  ASSUME NEW w, Good(w), NEW env, IsEnv(env)
  PROVE  /\ Good(Save(w, env)) /\ Save(w, env).answer = w.answer
         /\ Save(w, env) = [w EXCEPT !.work = Save(w, env).work, !.saved = Save(w, env).saved,
                                     !.conf = [w.conf EXCEPT !.m_dirty = Save(w, env).conf.m_dirty]]
<1>1. CASE env.save = "not opened"
  BY <1>1 DEF Save, Good, IsWorld, Configs
<1>2. CASE env.save # "not opened"
  <2>1. PICK c : c = [w.conf EXCEPT !.m_dirty = FALSE]
    OBVIOUS
  <2>2. w.conf \in Configs /\ ConfigInv(w.conf) /\ Extends(w.conf, Shipped(Cmcc))
    BY DEF Good, IsWorld
  <2>3. /\ c.m_enable_md = w.conf.m_enable_md /\ c.m_md_save_to_int = w.conf.m_md_save_to_int
        /\ c.agdsp_log_dest = w.conf.agdsp_log_dest /\ c.agdsp_pcm_dump = w.conf.agdsp_pcm_dump
        /\ c.ext_stor_active = w.conf.ext_stor_active /\ c.m_config = w.conf.m_config
        /\ c.m_iq_config = w.conf.m_iq_config /\ c.m_mipilog = w.conf.m_mipilog /\ c.m_dirty = FALSE
    BY <2>1, <2>2 DEF Configs
  <2>4. c \in Configs
    BY <2>1, <2>2 DEF Configs
  <2>5. ConfigInv(c) /\ Extends(c, Shipped(Cmcc))
    BY <2>2, <2>3, <2>4 DEF ConfigInv, Extends
  <2>6. Content(c) = Content(w.conf) /\ Lines(c) = Lines(w.conf)
    <3>1. DOMAIN c = DOMAIN w.conf
      BY <2>1
    <3>2. \A f \in DOMAIN c \ {"m_dirty", "use_work_conf_file"} : c[f] = w.conf[f]
      BY <2>1
    <3> QED
      BY <2>3, <3>1, <3>2 DEF Content, Lines
  <2>7. PICK file : file = IF env.save = "cut off"
                           THEN [exists |-> TRUE, lines |-> CutOff(Lines(w.conf), env.cut[1], env.cut[2]), torn |-> TRUE]
                           ELSE [exists |-> TRUE, lines |-> Lines(w.conf), torn |-> FALSE]
    OBVIOUS
  <2>8. FileInv(file, Cmcc)
    <3>1. env.cut[1] \in Nat /\ env.cut[2] \in Nat
      BY DEF IsEnv
    <3> QED
      BY <2>2, <2>7, <3>1, FilesAre
  <2>9. Survives(file, c)
    <3>1. CASE env.save = "cut off"
      BY <2>7, <3>1 DEF Survives
    <3>2. CASE env.save # "cut off"
      <4>1. file.exists /\ file.lines = Lines(c)
        BY <2>6, <2>7, <3>2
      <4> QED
        BY <2>5, <4>1, RoundTrip
    <3> QED
      BY <3>1, <3>2
  <2>10. PICK v : v = Save(w, env)
    OBVIOUS
  <2>11. v = [w EXCEPT !.work = file, !.conf = c, !.saved = Content(w.conf)]
    BY <1>2, <2>1, <2>7, <2>10 DEF Save, Good, IsWorld
  <2>12. /\ v.work = file /\ v.conf = c /\ v.saved = Content(c) /\ v.pipes = w.pipes /\ v.permit = w.permit
         /\ v.modem = w.modem /\ v.dsp = w.dsp /\ v.cmd = w.cmd /\ v.answer = w.answer /\ v.ended = w.ended
    BY <2>6, <2>11 DEF Good, IsWorld
  <2>13. IsWorld(v)
    <3>1. file \in Files
      BY <2>8 DEF FileInv
    <3> QED
      BY <2>4, <2>11, <2>12, <3>1 DEF Good, IsWorld
  <2>14. PipesFollow(v.pipes, v.conf, v.modem)
    BY <2>3, <2>12 DEF Good, PipesFollow
  <2>15. v.pipes[WanModem].present =>
           ModemFollows(v.modem, v.conf) /\ CmdInv(v.cmd, v.modem.working, v.modem.restarted)
    BY <2>3, <2>12 DEF Good, ModemFollows, WcdmaIqEnabled
  <2>16. v.permit = v.conf.ext_stor_active /\ (v.pipes["CT_AGDSP"].present => DspFollows(v.dsp, v.conf))
    BY <2>3, <2>12 DEF Good, DspFollows
  <2>17. Clean(v.conf, v.saved, v.work)
    BY <2>9, <2>12 DEF Clean
  <2>18. Good(v)
    BY <2>5, <2>8, <2>12, <2>13, <2>14, <2>15, <2>16, <2>17 DEF Good
  <2>19. v = [w EXCEPT !.work = v.work, !.saved = v.saved, !.conf = [w.conf EXCEPT !.m_dirty = v.conf.m_dirty]]
    BY <2>1, <2>3, <2>6, <2>11, <2>12
  <2> QED
    BY <2>10, <2>12, <2>18, <2>19
<1> QED
  BY <1>1, <1>2

LEMMA SaveIfDirtyKeeps ==
  ASSUME NEW w, Good(w), NEW env, IsEnv(env)
  PROVE  Good(SaveIfDirty(w, env)) /\ SaveIfDirty(w, env).answer = w.answer
BY SaveKeeps DEF SaveIfDirty

------------------------------------------------------------------------------
(* Requests.                                                               *)

LEMMA ChangesKeep ==
  ASSUME NEW w, Good(w), NEW d, Changes(w.conf, d)
  PROVE  ConfigInv(d) /\ d \in Configs /\ Extends(d, Shipped(Cmcc)) /\ Clean(d, w.saved, w.work)
<1>1. ConfigInv(d) /\ d \in Configs
  BY DEF Changes, ConfigInv
<1>2. Extends(d, Shipped(Cmcc))
  BY DEF Changes, Good, Extends
<1>3. Clean(d, w.saved, w.work)
  BY DEF Changes, Good, Clean
<1> QED
  BY <1>1, <1>2, <1>3

LEMMA AnsweredKeeps ==
  ASSUME NEW w, Good(w), NEW a, NEW v, v = [w EXCEPT !.answer = a]
  PROVE  Good(v) /\ v.answer = a /\ v.work = w.work /\ v.ended = w.ended /\ Kept(v) = Kept(w)
<1>1. /\ v.work = w.work /\ v.conf = w.conf /\ v.saved = w.saved /\ v.pipes = w.pipes /\ v.permit = w.permit
      /\ v.modem = w.modem /\ v.dsp = w.dsp /\ v.cmd = w.cmd /\ v.answer = a /\ v.ended = w.ended
  BY DEF Good, IsWorld
<1>2. IsWorld(v)
  BY <1>1 DEF Good, IsWorld
<1>3. Kept(v) = Kept(w)
  BY <1>1 DEF Kept
<1> QED
  BY <1>1, <1>2, <1>3 DEF Good

LEMMA CommandKeeps ==
  ASSUME NEW w, Good(w), NEW x \in Cmd!Settings, NEW value, IsValue(value, x), NEW writable \in BOOLEAN,
         NEW v, v = [w EXCEPT !.cmd = SetValue(w.cmd, x, value, writable)]
  PROVE  Good(v) /\ v.answer = w.answer /\ v.work = w.work /\ v.ended = w.ended /\ Kept(v) = Kept(w)
<1>1. PICK d : d = SetValue(w.cmd, x, value, writable)
  OBVIOUS
<1>2. /\ v.work = w.work /\ v.conf = w.conf /\ v.saved = w.saved /\ v.pipes = w.pipes /\ v.permit = w.permit
      /\ v.modem = w.modem /\ v.dsp = w.dsp /\ v.cmd = d /\ v.answer = w.answer /\ v.ended = w.ended
  BY <1>1 DEF Good, IsWorld
<1>3. CmdShape(w.cmd)
  BY DEF Good, IsWorld
<1>4. CmdShape(d)
  BY <1>1, <1>3, SetValueIs
<1>5. IsWorld(v)
  BY <1>1, <1>2, <1>4 DEF Good, IsWorld
<1>6. ASSUME w.pipes[WanModem].present
      PROVE  CmdInv(d, w.modem.working, w.modem.restarted)
  <2>1. w.modem \in FullModems /\ CmdInv(w.cmd, w.modem.working, w.modem.restarted)
    BY <1>6 DEF Good, ModemFollows
  <2>2. PICK working, restarted, all, none :
          working = w.modem.working /\ restarted = w.modem.restarted /\ all = Cmd!Settings /\ none = {}
    OBVIOUS
  <2>3. /\ working \in BOOLEAN /\ restarted \in BOOLEAN /\ all \in SUBSET Cmd!Settings
        /\ none \in SUBSET Cmd!Settings /\ all = all \cup {x}
    BY <2>1, <2>2 DEF FullModems
  <2>4. CmdDue(w.cmd, all, none, working, restarted)
    BY <2>1, <2>2 DEF CmdInv
  <2>5. CmdDue(d, all, none, working, restarted)
    BY <1>1, <2>3, <2>4, SetValueDue
  <2> QED
    BY <2>2, <2>5 DEF CmdInv
<1>7. Kept(v) = Kept(w)
  BY <1>2 DEF Kept
<1> QED
  BY <1>2, <1>5, <1>6, <1>7 DEF Good

LEMMA PipeChanged ==
  ASSUME NEW w, Good(w), NEW t \in Types, NEW h \in FullPipes, NEW d, NEW e,
         EntryIs(w.conf, d, t, e), Has(w.conf.m_config, t), Follows(h, e, t, w.modem),
         w.pipes[t].present,
         NEW v, v = [w EXCEPT !.pipes = [w.pipes EXCEPT ![t] = h], !.conf = d]
  PROVE  Good(v) /\ v.answer = w.answer /\ v.ended = w.ended
<1>1. /\ v.work = w.work /\ v.conf = d /\ v.saved = w.saved /\ v.pipes = [w.pipes EXCEPT ![t] = h]
      /\ v.permit = w.permit /\ v.modem = w.modem /\ v.dsp = w.dsp /\ v.cmd = w.cmd /\ v.answer = w.answer
      /\ v.ended = w.ended
  BY DEF Good, IsWorld
<1>2. ConfigInv(d) /\ d \in Configs /\ Extends(d, Shipped(Cmcc)) /\ Clean(d, w.saved, w.work)
  BY ChangesKeep DEF EntryIs
<1>3. w.pipes \in [Types -> FullPipes \cup {NoPipe}] /\ h.present
  BY DEF Good, IsWorld, FullPipes
<1>4. IsWorld(v)
  <2>1. [w.pipes EXCEPT ![t] = h] \in [Types -> FullPipes \cup {NoPipe}]
    BY <1>3
  <2> QED
    BY <1>1, <1>2, <2>1 DEF Good, IsWorld
<1>5. PipesFollow(v.pipes, d, v.modem)
  <2>1. ASSUME NEW u \in Types, v.pipes[u].present
        PROVE  Has(d.m_config, u) /\ Follows(v.pipes[u], Find(d.m_config, u), u, v.modem)
    <3>1. CASE u = t
      <4>1. v.pipes[u] = h
        BY <1>1, <1>3, <3>1
      <4> QED
        BY <1>1, <3>1, <4>1 DEF EntryIs
    <3>2. CASE u # t
      <4>1. v.pipes[u] = w.pipes[u]
        BY <1>1, <1>3, <3>2
      <4>2. Has(w.conf.m_config, u) /\ Follows(w.pipes[u], Find(w.conf.m_config, u), u, w.modem)
        BY <2>1, <4>1 DEF Good, PipesFollow
      <4> QED
        BY <1>1, <3>2, <4>1, <4>2 DEF EntryIs
    <3> QED
      BY <3>1, <3>2
  <2> QED
    BY <2>1 DEF PipesFollow
<1>6. /\ d.ext_stor_active = w.conf.ext_stor_active /\ d.m_enable_md = w.conf.m_enable_md
      /\ d.m_md_save_to_int = w.conf.m_md_save_to_int /\ d.agdsp_log_dest = w.conf.agdsp_log_dest
      /\ d.agdsp_pcm_dump = w.conf.agdsp_pcm_dump /\ d.m_iq_config = w.conf.m_iq_config
  <2>1. w.conf \in Configs
    BY DEF Good, IsWorld
  <2> QED
    BY <2>1 DEF EntryIs, Configs
<1>7. \A u \in Types : v.pipes[u].present <=> w.pipes[u].present
  BY <1>1, <1>3
<1>8. WanModem \in Types /\ "CT_AGDSP" \in Types
  BY DEF WanModem, Types
<1>9. v.pipes[WanModem].present =>
        ModemFollows(v.modem, v.conf) /\ CmdInv(v.cmd, v.modem.working, v.modem.restarted)
  BY <1>1, <1>6, <1>7, <1>8 DEF Good, ModemFollows, WcdmaIqEnabled
<1>10. v.permit = v.conf.ext_stor_active /\ (v.pipes["CT_AGDSP"].present => DspFollows(v.dsp, v.conf))
  BY <1>1, <1>6, <1>7, <1>8 DEF Good, DspFollows
<1> QED
  BY <1>1, <1>2, <1>4, <1>5, <1>9, <1>10 DEF Good

\* A handler that is there has an entry, and is like it.
LEMMA PresentIs ==
  ASSUME NEW w, Good(w), NEW t, Present(w, t)
  PROVE  /\ t \in Types /\ w.pipes[t] \in FullPipes /\ Has(w.conf.m_config, t) /\ w.pipes[t].present
         /\ Find(w.conf.m_config, t) \in Entries
         /\ Follows(w.pipes[t], Find(w.conf.m_config, t), t, w.modem)
         /\ ConfigInv(w.conf) /\ w.pipes \in [Types -> FullPipes \cup {NoPipe}]
<1>1. t \in Types /\ w.pipes[t].present /\ w.pipes \in [Types -> FullPipes \cup {NoPipe}]
  BY DEF Present, Good, IsWorld
<1>2. w.pipes[t] \in FullPipes
  <2>1. w.pipes[t] # NoPipe
    BY <1>1 DEF NoPipe
  <2> QED
    BY <1>1, <2>1
<1>3. Has(w.conf.m_config, t) /\ Follows(w.pipes[t], Find(w.conf.m_config, t), t, w.modem) /\ ConfigInv(w.conf)
  BY <1>1 DEF Good, PipesFollow
<1>4. w.conf.m_config \in Seq(Entries)
  BY <1>3 DEF ConfigInv, Configs
<1> QED
  BY <1>1, <1>2, <1>3, <1>4, FindIs

\* What a request comes to.
Outcome(w, v) ==
  /\ v.ended \in BOOLEAN
  /\ FileInv(v.work, Cmcc)
  /\ v.ended \/ Good(v)
  /\ v.answer # <<>> /\ v.answer[1] \in Errors
       => v.work = w.work /\ v.ended = w.ended /\ Kept(v) = Kept(w)

LEMMA AnswerOutcome ==
  ASSUME NEW w, Good(w), NEW a, NEW v, v = [w EXCEPT !.answer = a]
  PROVE  Outcome(w, v)
<1>1. Good(v) /\ v.work = w.work /\ v.ended = w.ended /\ Kept(v) = Kept(w)
  BY AnsweredKeeps
<1>2. v.ended \in BOOLEAN /\ FileInv(v.work, Cmcc)
  BY <1>1 DEF Good, IsWorld
<1> QED
  BY <1>1, <1>2 DEF Outcome

\* A request that is done and answered so.
LEMMA OkOutcome ==
  ASSUME NEW w, NEW w1, Good(w1), NEW v, v = Ok(w1)
  PROVE  Outcome(w, v)
<1>1. v = [w1 EXCEPT !.answer = <<"REC_SUCCESS">>]
  BY DEF Ok, Answered
<1>2. Good(v) /\ v.answer = <<"REC_SUCCESS">>
  BY <1>1, AnsweredKeeps
<1>3. v.ended \in BOOLEAN /\ FileInv(v.work, Cmcc)
  BY <1>2 DEF Good, IsWorld
<1>4. v.answer[1] \notin Errors
  BY <1>2 DEF Errors
<1> QED
  BY <1>2, <1>3, <1>4 DEF Outcome

LEMMA SetLogFileSizeKeeps ==
  ASSUME NEW w, Good(w), NEW t, NEW len \in Tokens, NEW env, IsEnv(env)
  PROVE  Good(SetLogFileSize(w, t, len, env))
<1>1. CASE ~Present(w, t)
  BY <1>1 DEF SetLogFileSize
<1>2. CASE Present(w, t)
  <2>1. PICK h : h = [w.pipes[t] EXCEPT !.m_max_log_file_size = len]
    OBVIOUS
  <2>2. PICK d : d = SetCpLogFileSize(w.conf, t, len)
    OBVIOUS
  <2>3. PICK e : e = [Find(w.conf.m_config, t) EXCEPT !.file_size_limit = len]
    OBVIOUS
  <2>4. /\ t \in Types /\ w.pipes[t] \in FullPipes /\ Has(w.conf.m_config, t) /\ w.pipes[t].present
        /\ Find(w.conf.m_config, t) \in Entries
        /\ Follows(w.pipes[t], Find(w.conf.m_config, t), t, w.modem) /\ ConfigInv(w.conf)
        /\ w.pipes \in [Types -> FullPipes \cup {NoPipe}]
    BY <1>2, PresentIs
  <2>5. EntryIs(w.conf, d, t, e)
    <3>1. TRUE \in BOOLEAN /\ "LM_OFF" \in {"LM_OFF", "LM_NORMAL"}
      OBVIOUS
    <3> QED
      BY <2>2, <2>3, <2>4, <3>1, SetsEntry
  <2>6. h \in FullPipes /\ Follows(h, e, t, w.modem)
    BY <2>1, <2>3, <2>4 DEF FullPipes, Sizes, Entries, Follows
  <2>7. PICK v : v = [w EXCEPT !.pipes = [w.pipes EXCEPT ![t] = h], !.conf = d]
    OBVIOUS
  <2>8. Good(v)
    BY <2>4, <2>5, <2>6, <2>7, PipeChanged
  <2>9. SetLogFileSize(w, t, len, env) = Save(v, env)
    BY <1>2, <2>1, <2>2, <2>4, <2>7 DEF SetLogFileSize, Good, IsWorld
  <2>10. PICK w1 : w1 = Save(v, env)
    OBVIOUS
  <2>11. Good(w1)
    BY <2>8, <2>10, SaveKeeps
  <2> QED
    BY <2>9, <2>10, <2>11
<1> QED
  BY <1>1, <1>2

LEMMA SetLogOverwriteKeeps ==
  ASSUME NEW w, Good(w), NEW t, NEW en \in BOOLEAN, NEW env, IsEnv(env)
  PROVE  Good(SetLogOverwrite(w, t, en, env))
<1>1. CASE ~Present(w, t)
  BY <1>1 DEF SetLogOverwrite
<1>2. CASE Present(w, t)
  <2>1. PICK h : h = [w.pipes[t] EXCEPT !.overwrite = en]
    OBVIOUS
  <2>2. PICK d : d = SetCpLogOverwrite(w.conf, t, en)
    OBVIOUS
  <2>3. PICK e : e = [Find(w.conf.m_config, t) EXCEPT !.overwrite = en]
    OBVIOUS
  <2>4. /\ t \in Types /\ w.pipes[t] \in FullPipes /\ Has(w.conf.m_config, t) /\ w.pipes[t].present
        /\ Find(w.conf.m_config, t) \in Entries
        /\ Follows(w.pipes[t], Find(w.conf.m_config, t), t, w.modem) /\ ConfigInv(w.conf)
        /\ w.pipes \in [Types -> FullPipes \cup {NoPipe}]
    BY <1>2, PresentIs
  <2>5. EntryIs(w.conf, d, t, e)
    <3>1. "1024" \in Tokens /\ "LM_OFF" \in {"LM_OFF", "LM_NORMAL"}
      BY DEF Tokens, Words
    <3> QED
      BY <2>2, <2>3, <2>4, <3>1, SetsEntry
  <2>6. h \in FullPipes /\ Follows(h, e, t, w.modem)
    BY <2>1, <2>3, <2>4 DEF FullPipes, Sizes, Entries, Follows
  <2>7. PICK v : v = [w EXCEPT !.pipes = [w.pipes EXCEPT ![t] = h], !.conf = d]
    OBVIOUS
  <2>8. Good(v)
    BY <2>4, <2>5, <2>6, <2>7, PipeChanged
  <2>9. SetLogOverwrite(w, t, en, env) = SaveIfDirty(v, env)
    BY <1>2, <2>1, <2>2, <2>4, <2>7 DEF SetLogOverwrite, Good, IsWorld
  <2> QED
    BY <2>8, <2>9, SaveIfDirtyKeeps
<1> QED
  BY <1>1, <1>2

LEMMA SetCpLogSizeOutcome ==
  ASSUME NEW w, Good(w), NEW t, NEW mt, NEW sz \in Tokens, NEW env, IsEnv(env)
  PROVE  Outcome(w, SetCpLogSize(w, t, mt, sz, env))
<1>1. CASE ~Present(w, t)
  BY <1>1, AnswerOutcome DEF SetCpLogSize, Answered
<1>2. CASE Present(w, t)
  <2>1. PICK h : h = IF mt = "internal" THEN [w.pipes[t] EXCEPT !.m_internal_max_size = sz]
                     ELSE [w.pipes[t] EXCEPT !.m_external_max_size = sz]
    OBVIOUS
  <2>2. PICK d : d = SetCpStorageLimit(w.conf, t, mt, sz)
    OBVIOUS
  <2>3. PICK e : e = IF mt = "internal" THEN [Find(w.conf.m_config, t) EXCEPT !.internal_limit = sz]
                     ELSE [Find(w.conf.m_config, t) EXCEPT !.external_limit = sz]
    OBVIOUS
  <2>4. /\ t \in Types /\ w.pipes[t] \in FullPipes /\ Has(w.conf.m_config, t) /\ w.pipes[t].present
        /\ Find(w.conf.m_config, t) \in Entries
        /\ Follows(w.pipes[t], Find(w.conf.m_config, t), t, w.modem) /\ ConfigInv(w.conf)
        /\ w.pipes \in [Types -> FullPipes \cup {NoPipe}]
    BY <1>2, PresentIs
  <2>5. EntryIs(w.conf, d, t, e)
    <3>1. TRUE \in BOOLEAN /\ "LM_OFF" \in {"LM_OFF", "LM_NORMAL"}
      OBVIOUS
    <3> QED
      BY <2>2, <2>3, <2>4, <3>1, SetsEntry
  <2>6. h \in FullPipes /\ Follows(h, e, t, w.modem)
    BY <2>1, <2>3, <2>4 DEF FullPipes, Sizes, Entries, Follows
  <2>7. PICK v : v = [w EXCEPT !.pipes = [w.pipes EXCEPT ![t] = h], !.conf = d]
    OBVIOUS
  <2>8. Good(v)
    BY <2>4, <2>5, <2>6, <2>7, PipeChanged
  <2>9. SetCpLogSize(w, t, mt, sz, env) = Ok(Save(v, env))
    BY <1>2, <2>1, <2>2, <2>4, <2>7 DEF SetCpLogSize, Good, IsWorld
  <2>10. PICK w1 : w1 = Save(v, env)
    OBVIOUS
  <2>11. Good(w1)
    BY <2>8, <2>10, SaveKeeps
  <2> QED
    BY <2>9, <2>10, <2>11, OkOutcome
<1> QED
  BY <1>1, <1>2

LEMMA ActiveExternalStorageKeeps ==
  ASSUME NEW w, Good(w), NEW active \in BOOLEAN, NEW env, IsEnv(env)
  PROVE  Good(ActiveExternalStorage(w, active, env))
<1>1. CASE active = w.conf.ext_stor_active
  BY <1>1 DEF ActiveExternalStorage
<1>2. CASE active # w.conf.ext_stor_active
  <2>1. PICK d : d = SetExternalStor(w.conf, active)
    OBVIOUS
  <2>2. ConfigInv(w.conf) /\ w.conf \in Configs
    BY DEF Good, ConfigInv
  <2>3. Changes(w.conf, d) /\ d = [w.conf EXCEPT !.ext_stor_active = active, !.m_dirty = d.m_dirty]
    <3>1. "off" \in {"off", "uart", "ap"}
      OBVIOUS
    <3> QED
      BY <2>1, <2>2, <3>1, SetsFlag
  <2>4. ConfigInv(d) /\ d \in Configs /\ Extends(d, Shipped(Cmcc)) /\ Clean(d, w.saved, w.work)
    BY <2>3, ChangesKeep
  <2>5. /\ d.ext_stor_active = active /\ d.m_enable_md = w.conf.m_enable_md
        /\ d.m_md_save_to_int = w.conf.m_md_save_to_int /\ d.agdsp_log_dest = w.conf.agdsp_log_dest
        /\ d.agdsp_pcm_dump = w.conf.agdsp_pcm_dump /\ d.m_iq_config = w.conf.m_iq_config
        /\ d.m_config = w.conf.m_config
    BY <2>2, <2>3 DEF Configs
  <2>6. PICK v : v = [w EXCEPT !.permit = active, !.conf = d]
    OBVIOUS
  <2>7. /\ v.work = w.work /\ v.conf = d /\ v.saved = w.saved /\ v.pipes = w.pipes
        /\ v.permit = active /\ v.modem = w.modem /\ v.dsp = w.dsp /\ v.cmd = w.cmd /\ v.answer = w.answer
        /\ v.ended = w.ended
    BY <2>6 DEF Good, IsWorld
  <2>8. IsWorld(v)
    BY <2>4, <2>6, <2>7 DEF Good, IsWorld
  <2>9. PipesFollow(v.pipes, v.conf, v.modem)
    BY <2>5, <2>7 DEF Good, PipesFollow
  <2>10. v.pipes[WanModem].present =>
           ModemFollows(v.modem, v.conf) /\ CmdInv(v.cmd, v.modem.working, v.modem.restarted)
    BY <2>5, <2>7 DEF Good, ModemFollows, WcdmaIqEnabled
  <2>11. v.permit = v.conf.ext_stor_active /\ (v.pipes["CT_AGDSP"].present => DspFollows(v.dsp, v.conf))
    BY <2>5, <2>7 DEF Good, DspFollows
  <2>12. Good(v)
    BY <2>4, <2>7, <2>8, <2>9, <2>10, <2>11 DEF Good
  <2>13. ActiveExternalStorage(w, active, env) = SaveIfDirty(v, env)
    BY <1>2, <2>1, <2>6 DEF ActiveExternalStorage, Good, IsWorld
  <2> QED
    BY <2>12, <2>13, SaveIfDirtyKeeps
<1> QED
  BY <1>1, <1>2

\* The handler of the MODEM and its settings are changed.
LEMMA ModemChanged ==
  ASSUME NEW w, Good(w), w.pipes[WanModem].present,
         NEW m \in FullModems, NEW d, Changes(w.conf, d),
         m.mix = w.modem.mix, m.working = w.modem.working, m.restarted = w.modem.restarted,
         m.save_md = d.m_enable_md, m.md_to_int = d.m_md_save_to_int,
         m.save_wcdma_iq <=> WcdmaIqEnabled(d, WanModem),
         d.m_config = w.conf.m_config, d.ext_stor_active = w.conf.ext_stor_active,
         d.agdsp_log_dest = w.conf.agdsp_log_dest, d.agdsp_pcm_dump = w.conf.agdsp_pcm_dump,
         NEW v, v = [w EXCEPT !.modem = m, !.conf = d]
  PROVE  Good(v) /\ v.answer = w.answer /\ v.ended = w.ended
<1>1. /\ v.work = w.work /\ v.conf = d /\ v.saved = w.saved /\ v.pipes = w.pipes
      /\ v.permit = w.permit /\ v.modem = m /\ v.dsp = w.dsp /\ v.cmd = w.cmd /\ v.answer = w.answer
      /\ v.ended = w.ended
  BY DEF Good, IsWorld
<1>2. ConfigInv(d) /\ d \in Configs /\ Extends(d, Shipped(Cmcc)) /\ Clean(d, w.saved, w.work)
  BY ChangesKeep
<1>3. IsWorld(v)
  BY <1>1, <1>2 DEF Good, IsWorld
<1>4. PipesFollow(v.pipes, v.conf, v.modem)
  BY <1>1 DEF Good, PipesFollow, Follows
<1>5. v.pipes[WanModem].present =>
        ModemFollows(v.modem, v.conf) /\ CmdInv(v.cmd, v.modem.working, v.modem.restarted)
  BY <1>1 DEF Good, ModemFollows
<1>6. v.permit = v.conf.ext_stor_active /\ (v.pipes["CT_AGDSP"].present => DspFollows(v.dsp, v.conf))
  BY <1>1 DEF Good, DspFollows
<1> QED
  BY <1>1, <1>2, <1>3, <1>4, <1>5, <1>6 DEF Good

LEMMA ModemIs ==
  ASSUME NEW w, Good(w), HasModem(w)
  PROVE  /\ w.pipes[WanModem].present /\ w.modem \in FullModems /\ ModemFollows(w.modem, w.conf)
         /\ ConfigInv(w.conf) /\ w.conf \in Configs
BY DEF HasModem, Present, Good, ModemFollows, ConfigInv

LEMMA SetMdStorKeeps ==
  ASSUME NEW w, Good(w), NEW int \in BOOLEAN, NEW env, IsEnv(env)
  PROVE  Good(SetMdStor(w, int, env))
<1>1. CASE ~(int # w.conf.m_md_save_to_int /\ HasModem(w))
  BY <1>1 DEF SetMdStor
<1>2. CASE int # w.conf.m_md_save_to_int /\ HasModem(w)
  <2>1. PICK d : d = SetMdIntStor(w.conf, int)
    OBVIOUS
  <2>2. PICK m : m = [w.modem EXCEPT !.md_to_int = int]
    OBVIOUS
  <2>3. /\ w.pipes[WanModem].present /\ w.modem \in FullModems /\ ModemFollows(w.modem, w.conf)
        /\ ConfigInv(w.conf) /\ w.conf \in Configs
    BY <1>2, ModemIs
  <2>4. Changes(w.conf, d) /\ d = [w.conf EXCEPT !.m_md_save_to_int = int, !.m_dirty = d.m_dirty]
    <3>1. "off" \in {"off", "uart", "ap"}
      OBVIOUS
    <3> QED
      BY <2>1, <2>3, <3>1, SetsFlag
  <2>5. /\ d.ext_stor_active = w.conf.ext_stor_active /\ d.m_enable_md = w.conf.m_enable_md
        /\ d.m_md_save_to_int = int /\ d.agdsp_log_dest = w.conf.agdsp_log_dest
        /\ d.agdsp_pcm_dump = w.conf.agdsp_pcm_dump /\ d.m_iq_config = w.conf.m_iq_config
        /\ d.m_config = w.conf.m_config
    BY <2>3, <2>4 DEF Configs
  <2>6. /\ m \in FullModems /\ m.mix = w.modem.mix /\ m.working = w.modem.working
        /\ m.restarted = w.modem.restarted /\ m.md_to_int = int /\ m.save_md = w.modem.save_md
        /\ m.save_wcdma_iq = w.modem.save_wcdma_iq
    BY <2>2, <2>3 DEF FullModems
  <2>7. /\ m.save_md = d.m_enable_md /\ m.md_to_int = d.m_md_save_to_int
        /\ m.save_wcdma_iq <=> WcdmaIqEnabled(d, WanModem)
    BY <2>3, <2>5, <2>6 DEF ModemFollows, WcdmaIqEnabled
  <2>8. PICK v : v = [w EXCEPT !.modem = m, !.conf = d]
    OBVIOUS
  <2>9. Good(v)
    BY <2>3, <2>4, <2>5, <2>6, <2>7, <2>8, ModemChanged
  <2>10. SetMdStor(w, int, env) = SaveIfDirty(v, env)
    BY <1>2, <2>1, <2>2, <2>8 DEF SetMdStor, Good, IsWorld
  <2> QED
    BY <2>9, <2>10, SaveIfDirtyKeeps
<1> QED
  BY <1>1, <1>2

LEMMA SetMdOutcome ==
  ASSUME NEW w, Good(w), NEW en \in BOOLEAN, NEW env, IsEnv(env)
  PROVE  Outcome(w, SetMd(w, en, env))
<1>1. CASE w.conf.m_enable_md = en
  <2>1. SetMd(w, en, env) = Ok(w)
    BY <1>1 DEF SetMd
  <2> QED
    BY <2>1, OkOutcome
<1>2. CASE w.conf.m_enable_md # en /\ ~HasModem(w)
  BY <1>2, AnswerOutcome DEF SetMd, Answered
<1>3. CASE w.conf.m_enable_md # en /\ HasModem(w)
  <2>1. PICK d : d = EnableMd(w.conf, en)
    OBVIOUS
  <2>2. PICK m : m = [w.modem EXCEPT !.save_md = en]
    OBVIOUS
  <2>3. /\ w.pipes[WanModem].present /\ w.modem \in FullModems /\ ModemFollows(w.modem, w.conf)
        /\ ConfigInv(w.conf) /\ w.conf \in Configs
    BY <1>3, ModemIs
  <2>4. Changes(w.conf, d) /\ d = [w.conf EXCEPT !.m_enable_md = en, !.m_dirty = d.m_dirty]
    <3>1. "off" \in {"off", "uart", "ap"}
      OBVIOUS
    <3> QED
      BY <2>1, <2>3, <3>1, SetsFlag
  <2>5. /\ d.ext_stor_active = w.conf.ext_stor_active /\ d.m_enable_md = en
        /\ d.m_md_save_to_int = w.conf.m_md_save_to_int /\ d.agdsp_log_dest = w.conf.agdsp_log_dest
        /\ d.agdsp_pcm_dump = w.conf.agdsp_pcm_dump /\ d.m_iq_config = w.conf.m_iq_config
        /\ d.m_config = w.conf.m_config
    BY <2>3, <2>4 DEF Configs
  <2>6. /\ m \in FullModems /\ m.mix = w.modem.mix /\ m.working = w.modem.working
        /\ m.restarted = w.modem.restarted /\ m.save_md = en /\ m.md_to_int = w.modem.md_to_int
        /\ m.save_wcdma_iq = w.modem.save_wcdma_iq
    BY <2>2, <2>3 DEF FullModems
  <2>7. /\ m.save_md = d.m_enable_md /\ m.md_to_int = d.m_md_save_to_int
        /\ m.save_wcdma_iq <=> WcdmaIqEnabled(d, WanModem)
    BY <2>3, <2>5, <2>6 DEF ModemFollows, WcdmaIqEnabled
  <2>8. PICK v : v = [w EXCEPT !.modem = m, !.conf = d]
    OBVIOUS
  <2>9. Good(v)
    BY <2>3, <2>4, <2>5, <2>6, <2>7, <2>8, ModemChanged
  <2>10. SetMd(w, en, env) = Ok(Save(v, env))
    BY <1>3, <2>1, <2>2, <2>8 DEF SetMd, Good, IsWorld
  <2>11. PICK w1 : w1 = Save(v, env)
    OBVIOUS
  <2>12. Good(w1)
    BY <2>9, <2>11, SaveKeeps
  <2> QED
    BY <2>10, <2>11, <2>12, OkOutcome
<1> QED
  BY <1>1, <1>2, <1>3

LEMMA WcdmaIqOutcome ==
  ASSUME NEW w, Good(w), NEW t, NEW env, IsEnv(env)
  PROVE  Outcome(w, EnableWcdmaIq(w, t, env)) /\ Outcome(w, DisableWcdmaIq(w, t, env))
<1>1. CASE t \in {"CT_WCN", "CT_PM_SH", "CT_GNSS", "CT_AGDSP"} \/ ~Present(w, t)
  BY <1>1, AnswerOutcome DEF EnableWcdmaIq, DisableWcdmaIq, Answered
<1>2. CASE t \notin {"CT_WCN", "CT_PM_SH", "CT_GNSS", "CT_AGDSP"} /\ Present(w, t)
  <2>1. t = WanModem /\ HasModem(w) /\ WanModem \in Types
    BY <1>2 DEF Present, HasModem, WanModem, Types
  <2>2. /\ w.pipes[WanModem].present /\ w.modem \in FullModems /\ ModemFollows(w.modem, w.conf)
        /\ ConfigInv(w.conf) /\ w.conf \in Configs
    BY <2>1, ModemIs
  <2>3. ASSUME NEW en \in BOOLEAN, NEW d, Changes(w.conf, d), WcdmaIqEnabled(d, WanModem) <=> en,
               d = [w.conf EXCEPT !.m_iq_config = d.m_iq_config, !.m_dirty = d.m_dirty],
               NEW v, v = [w EXCEPT !.modem.save_wcdma_iq = en, !.conf = d]
        PROVE  Outcome(w, Ok(Save(v, env)))
    <3>1. PICK m : m = [w.modem EXCEPT !.save_wcdma_iq = en]
      OBVIOUS
    <3>2. /\ d.ext_stor_active = w.conf.ext_stor_active /\ d.m_enable_md = w.conf.m_enable_md
          /\ d.m_md_save_to_int = w.conf.m_md_save_to_int /\ d.agdsp_log_dest = w.conf.agdsp_log_dest
          /\ d.agdsp_pcm_dump = w.conf.agdsp_pcm_dump /\ d.m_config = w.conf.m_config
      BY <2>2, <2>3 DEF Configs
    <3>3. /\ m \in FullModems /\ m.mix = w.modem.mix /\ m.working = w.modem.working
          /\ m.restarted = w.modem.restarted /\ m.save_md = w.modem.save_md /\ m.md_to_int = w.modem.md_to_int
          /\ m.save_wcdma_iq = en
      BY <2>2, <3>1 DEF FullModems
    <3>4. /\ m.save_md = d.m_enable_md /\ m.md_to_int = d.m_md_save_to_int
          /\ m.save_wcdma_iq <=> WcdmaIqEnabled(d, WanModem)
      BY <2>2, <2>3, <3>2, <3>3 DEF ModemFollows
    <3>5. v = [w EXCEPT !.modem = m, !.conf = d]
      BY <2>3, <3>1 DEF Good, IsWorld
    <3>6. Good(v)
      <4>1. w.pipes[WanModem].present /\ Changes(w.conf, d)
        BY <2>2, <2>3
      <4> QED
        BY <3>2, <3>3, <3>4, <3>5, <4>1, ModemChanged
    <3>7. PICK w1 : w1 = Save(v, env)
      OBVIOUS
    <3>8. Good(w1)
      BY <3>6, <3>7, SaveKeeps
    <3> QED
      BY <3>7, <3>8, OkOutcome
  <2>4. PICK d : d = EnableIq(w.conf, t)
    OBVIOUS
  <2>5. PICK v : v = [w EXCEPT !.modem.save_wcdma_iq = TRUE, !.conf = d]
    OBVIOUS
  <2>6. EnableWcdmaIq(w, t, env) = Ok(Save(v, env))
    BY <1>2, <2>4, <2>5 DEF EnableWcdmaIq, Good, IsWorld
  <2>7. /\ Changes(w.conf, d) /\ (WcdmaIqEnabled(d, WanModem) <=> TRUE)
        /\ d = [w.conf EXCEPT !.m_iq_config = d.m_iq_config, !.m_dirty = d.m_dirty]
    BY <2>1, <2>2, <2>4, SetsIq
  <2>8. PICK d2 : d2 = DisableIq(w.conf, t)
    OBVIOUS
  <2>9. PICK v2 : v2 = [w EXCEPT !.modem.save_wcdma_iq = FALSE, !.conf = d2]
    OBVIOUS
  <2>10. DisableWcdmaIq(w, t, env) = Ok(Save(v2, env))
    BY <1>2, <2>8, <2>9 DEF DisableWcdmaIq, Good, IsWorld
  <2>11. /\ Changes(w.conf, d2) /\ (WcdmaIqEnabled(d2, WanModem) <=> FALSE)
         /\ d2 = [w.conf EXCEPT !.m_iq_config = d2.m_iq_config, !.m_dirty = d2.m_dirty]
    BY <2>1, <2>2, <2>8, SetsIq
  <2>12. Outcome(w, Ok(Save(v, env)))
    BY <2>3, <2>5, <2>7
  <2>13. Outcome(w, Ok(Save(v2, env)))
    BY <2>3, <2>9, <2>11
  <2> QED
    BY <2>6, <2>10, <2>12, <2>13
<1> QED
  BY <1>1, <1>2


\* The audio DSP and its settings are changed.
LEMMA DspChanged ==
  ASSUME NEW w, Good(w), NEW p \in Dsps, NEW d, Changes(w.conf, d),
         w.pipes["CT_AGDSP"].present => DspFollows(p, d),
         d.m_config = w.conf.m_config, d.m_iq_config = w.conf.m_iq_config,
         d.ext_stor_active = w.conf.ext_stor_active, d.m_enable_md = w.conf.m_enable_md,
         d.m_md_save_to_int = w.conf.m_md_save_to_int,
         NEW v, v = [w EXCEPT !.dsp = p, !.conf = d]
  PROVE  Good(v) /\ v.answer = w.answer /\ v.ended = w.ended
<1>1. /\ v.work = w.work /\ v.conf = d /\ v.saved = w.saved /\ v.pipes = w.pipes
      /\ v.permit = w.permit /\ v.modem = w.modem /\ v.dsp = p /\ v.cmd = w.cmd /\ v.answer = w.answer
      /\ v.ended = w.ended
  BY DEF Good, IsWorld
<1>2. ConfigInv(d) /\ d \in Configs /\ Extends(d, Shipped(Cmcc)) /\ Clean(d, w.saved, w.work)
  BY ChangesKeep
<1>3. IsWorld(v)
  BY <1>1, <1>2 DEF Good, IsWorld
<1>4. PipesFollow(v.pipes, v.conf, v.modem)
  BY <1>1 DEF Good, PipesFollow
<1>5. v.pipes[WanModem].present =>
        ModemFollows(v.modem, v.conf) /\ CmdInv(v.cmd, v.modem.working, v.modem.restarted)
  BY <1>1 DEF Good, ModemFollows, WcdmaIqEnabled
<1>6. v.permit = v.conf.ext_stor_active /\ (v.pipes["CT_AGDSP"].present => DspFollows(v.dsp, v.conf))
  BY <1>1 DEF Good, DspFollows
<1> QED
  BY <1>1, <1>2, <1>3, <1>4, <1>5, <1>6 DEF Good

LEMMA SettingsAre ==
  Cmd!Settings = {"pcm", "dest", "miniap", "orcadp", "mipi"}
BY DEF Cmd!Settings, Cmd!Switches

\* The MODEM is told after the audio DSP.
LEMMA ToldOutcome ==
  ASSUME NEW w, NEW w1, Good(w1), Outcome(w, w1), NEW x \in {"dest", "pcm"}, NEW token \in Tokens,
         NEW writable \in BOOLEAN,
         NEW v, v = [w1 EXCEPT !.cmd = SetValue(w1.cmd, x, <<token>>, writable)]
  PROVE  Outcome(w, v)
<1>1. x \in Cmd!Settings /\ IsValue(<<token>>, x)
  BY SettingsAre DEF IsValue
<1>2. Good(v) /\ v.answer = w1.answer /\ v.work = w1.work /\ v.ended = w1.ended /\ Kept(v) = Kept(w1)
  BY <1>1, CommandKeeps
<1> QED
  BY <1>2 DEF Outcome

LEMMA NoDspOutcome ==
  ASSUME NEW w, Good(w), NEW v, v = Answered(w, "REC_NO_AGDSP")
  PROVE  Good(v) /\ Outcome(w, v)
<1>1. v = [w EXCEPT !.answer = <<"REC_NO_AGDSP">>]
  BY DEF Answered
<1> QED
  BY <1>1, AnsweredKeeps, AnswerOutcome

LEMMA SetDspLogDestOutcome ==
  ASSUME NEW w, Good(w), NEW dest \in {"off", "uart", "ap"}, NEW env, IsEnv(env)
  PROVE  Outcome(w, SetDspLogDest(w, dest, env))
<1>1. PICK w1 : w1 = IF Present(w, "CT_AGDSP")
                     THEN Ok(SaveIfDirty([DspLogDest(w, dest, env) EXCEPT !.conf = SetAgdspLogDest(w.conf, dest)], env))
                     ELSE Answered(w, "REC_NO_AGDSP")
  OBVIOUS
<1>2. ASSUME ~Present(w, "CT_AGDSP")
      PROVE  Good(w1) /\ Outcome(w, w1)
  BY <1>1, <1>2, NoDspOutcome
<1>3. ASSUME Present(w, "CT_AGDSP")
      PROVE  Good(w1) /\ Outcome(w, w1)
  <2>1. PICK d : d = SetAgdspLogDest(w.conf, dest)
    OBVIOUS
  <2>2. PICK p : p = IF env.dsp \/ w.pipes["CT_AGDSP"].log_mode = "LM_NORMAL"
                     THEN [w.dsp EXCEPT !.dest = dest] ELSE [w.dsp EXCEPT !.heard = FALSE]
    OBVIOUS
  <2>3. ConfigInv(w.conf) /\ w.conf \in Configs /\ w.dsp \in Dsps /\ DspFollows(w.dsp, w.conf)
    BY <1>3 DEF Good, ConfigInv, IsWorld, Present
  <2>4. Changes(w.conf, d) /\ d = [w.conf EXCEPT !.agdsp_log_dest = dest, !.m_dirty = d.m_dirty]
    <3>1. TRUE \in BOOLEAN
      OBVIOUS
    <3> QED
      BY <2>1, <2>3, <3>1, SetsFlag
  <2>5. /\ d.ext_stor_active = w.conf.ext_stor_active /\ d.m_enable_md = w.conf.m_enable_md
        /\ d.m_md_save_to_int = w.conf.m_md_save_to_int /\ d.agdsp_log_dest = dest
        /\ d.agdsp_pcm_dump = w.conf.agdsp_pcm_dump /\ d.m_iq_config = w.conf.m_iq_config
        /\ d.m_config = w.conf.m_config
    BY <2>3, <2>4 DEF Configs
  <2>6. p \in Dsps /\ DspFollows(p, d)
    BY <2>2, <2>3, <2>5 DEF Dsps, DspFollows
  <2>7. PICK v : v = [w EXCEPT !.dsp = p, !.conf = d]
    OBVIOUS
  <2>8. Good(v)
    BY <2>4, <2>5, <2>6, <2>7, DspChanged
  <2>9. w1 = Ok(SaveIfDirty(v, env))
    <3>1. v = [DspLogDest(w, dest, env) EXCEPT !.conf = d]
      BY <2>2, <2>7 DEF DspLogDest, Good, IsWorld
    <3> QED
      BY <1>1, <1>3, <2>1, <3>1
  <2>10. PICK w2 : w2 = SaveIfDirty(v, env)
    OBVIOUS
  <2>11. Good(w2)
    BY <2>8, <2>10, SaveIfDirtyKeeps
  <2>12. w1 = [w2 EXCEPT !.answer = <<"REC_SUCCESS">>]
    BY <2>9, <2>10 DEF Ok, Answered
  <2>13. Good(w1)
    BY <2>11, <2>12, AnsweredKeeps
  <2>14. w1 = Ok(w2)
    BY <2>9, <2>10
  <2>15. Outcome(w, w1)
    BY <2>11, <2>14, OkOutcome
  <2> QED
    BY <2>13, <2>15
<1>4. Good(w1) /\ Outcome(w, w1)
  BY <1>2, <1>3
<1>5. w1 = IF Present(w, "CT_AGDSP")
           THEN Ok(SaveIfDirty([DspLogDest(w, dest, env) EXCEPT !.conf = SetAgdspLogDest(@, dest)], env))
           ELSE Answered(w, "REC_NO_AGDSP")
  <2>1. DspLogDest(w, dest, env).conf = w.conf
    BY DEF DspLogDest, Good, IsWorld
  <2>2. [DspLogDest(w, dest, env) EXCEPT !.conf = SetAgdspLogDest(@, dest)]
          = [DspLogDest(w, dest, env) EXCEPT !.conf = SetAgdspLogDest(w.conf, dest)]
    BY <2>1
  <2> QED
    BY <1>1, <2>2
<1>6. CASE HasModem(w) /\ ~w.modem.mix
  <2>1. SetDspLogDest(w, dest, env) = [w1 EXCEPT !.cmd = Cmd!SetAgdspLogDest(w1.cmd, <<dest>>, env.writable)]
    BY <1>6, <1>5 DEF SetDspLogDest
  <2>2. PICK v : v = SetDspLogDest(w, dest, env)
    OBVIOUS
  <2>3. PICK c, x : c = w1.cmd /\ x = "dest"
    OBVIOUS
  <2>4. Cmd!SetAgdspLogDest(c, <<dest>>, env.writable) = SetValue(c, x, <<dest>>, env.writable)
    BY <2>3, CmdSets
  <2>5. v = [w1 EXCEPT !.cmd = SetValue(w1.cmd, x, <<dest>>, env.writable)]
    BY <2>1, <2>2, <2>3, <2>4
  <2>6. x \in {"dest", "pcm"} /\ dest \in Tokens
    BY <2>3 DEF Tokens, Words
  <2>7. PICK writable : writable = env.writable
    OBVIOUS
  <2>8. writable \in BOOLEAN /\ v = [w1 EXCEPT !.cmd = SetValue(w1.cmd, x, <<dest>>, writable)]
    BY <2>5, <2>7 DEF IsEnv
  <2> HIDE DEF Outcome
  <2>9. Outcome(w, v)
    BY <1>4, <2>6, <2>8, ToldOutcome
  <2> QED
    BY <2>2, <2>9
<1>7. CASE ~(HasModem(w) /\ ~w.modem.mix)
  <2>1. SetDspLogDest(w, dest, env) = w1
    BY <1>7, <1>5 DEF SetDspLogDest
  <2> QED
    BY <1>4, <2>1
<1> QED
  BY <1>6, <1>7

LEMMA SetDspPcmDumpOutcome ==
  ASSUME NEW w, Good(w), NEW pcm \in BOOLEAN, NEW env, IsEnv(env)
  PROVE  Outcome(w, SetDspPcmDump(w, pcm, env))
<1>1. PICK w1 : w1 = IF Present(w, "CT_AGDSP")
                     THEN Ok(SaveIfDirty([w EXCEPT !.dsp.pcm = pcm, !.conf = EnableAgdspPcmDump(w.conf, pcm)], env))
                     ELSE Answered(w, "REC_NO_AGDSP")
  OBVIOUS
<1>2. ASSUME ~Present(w, "CT_AGDSP")
      PROVE  Good(w1) /\ Outcome(w, w1)
  BY <1>1, <1>2, NoDspOutcome
<1>3. ASSUME Present(w, "CT_AGDSP")
      PROVE  Good(w1) /\ Outcome(w, w1)
  <2>1. PICK d : d = EnableAgdspPcmDump(w.conf, pcm)
    OBVIOUS
  <2>2. PICK p : p = [w.dsp EXCEPT !.pcm = pcm]
    OBVIOUS
  <2>3. ConfigInv(w.conf) /\ w.conf \in Configs /\ w.dsp \in Dsps /\ DspFollows(w.dsp, w.conf)
    BY <1>3 DEF Good, ConfigInv, IsWorld, Present
  <2>4. Changes(w.conf, d) /\ d = [w.conf EXCEPT !.agdsp_pcm_dump = pcm, !.m_dirty = d.m_dirty]
    <3>1. "off" \in {"off", "uart", "ap"}
      OBVIOUS
    <3> QED
      BY <2>1, <2>3, <3>1, SetsFlag
  <2>5. /\ d.ext_stor_active = w.conf.ext_stor_active /\ d.m_enable_md = w.conf.m_enable_md
        /\ d.m_md_save_to_int = w.conf.m_md_save_to_int /\ d.agdsp_log_dest = w.conf.agdsp_log_dest
        /\ d.agdsp_pcm_dump = pcm /\ d.m_iq_config = w.conf.m_iq_config
        /\ d.m_config = w.conf.m_config
    BY <2>3, <2>4 DEF Configs
  <2>6. p \in Dsps /\ DspFollows(p, d)
    BY <2>2, <2>3, <2>5 DEF Dsps, DspFollows
  <2>7. PICK v : v = [w EXCEPT !.dsp = p, !.conf = d]
    OBVIOUS
  <2>8. Good(v)
    BY <2>4, <2>5, <2>6, <2>7, DspChanged
  <2>9. w1 = Ok(SaveIfDirty(v, env))
    <3>1. v = [w EXCEPT !.dsp.pcm = pcm, !.conf = d]
      BY <2>2, <2>7 DEF Good, IsWorld
    <3> QED
      BY <1>1, <1>3, <2>1, <3>1
  <2>10. PICK w2 : w2 = SaveIfDirty(v, env)
    OBVIOUS
  <2>11. Good(w2)
    BY <2>8, <2>10, SaveIfDirtyKeeps
  <2>12. w1 = [w2 EXCEPT !.answer = <<"REC_SUCCESS">>]
    BY <2>9, <2>10 DEF Ok, Answered
  <2>13. Good(w1)
    BY <2>11, <2>12, AnsweredKeeps
  <2>14. w1 = Ok(w2)
    BY <2>9, <2>10
  <2>15. Outcome(w, w1)
    BY <2>11, <2>14, OkOutcome
  <2> QED
    BY <2>13, <2>15
<1>4. Good(w1) /\ Outcome(w, w1)
  BY <1>2, <1>3
<1>5. w1 = IF Present(w, "CT_AGDSP")
           THEN Ok(SaveIfDirty([w EXCEPT !.dsp.pcm = pcm, !.conf = EnableAgdspPcmDump(@, pcm)], env))
           ELSE Answered(w, "REC_NO_AGDSP")
  <2>1. [w EXCEPT !.dsp.pcm = pcm, !.conf = EnableAgdspPcmDump(@, pcm)]
          = [w EXCEPT !.dsp.pcm = pcm, !.conf = EnableAgdspPcmDump(w.conf, pcm)]
    BY DEF Good, IsWorld
  <2> QED
    BY <1>1, <2>1
<1>6. CASE HasModem(w) /\ ~w.modem.mix
  <2>1. SetDspPcmDump(w, pcm, env) = [w1 EXCEPT !.cmd = Cmd!SetAgdspPcmDump(w1.cmd, <<OnOff(pcm)>>, env.writable)]
    BY <1>6, <1>5 DEF SetDspPcmDump
  <2>2. PICK v : v = SetDspPcmDump(w, pcm, env)
    OBVIOUS
  <2>3. PICK c, x, token : c = w1.cmd /\ x = "pcm" /\ token = OnOff(pcm)
    OBVIOUS
  <2>4. Cmd!SetAgdspPcmDump(c, <<token>>, env.writable) = SetValue(c, x, <<token>>, env.writable)
    BY <2>3, CmdSets
  <2>5. v = [w1 EXCEPT !.cmd = SetValue(w1.cmd, x, <<token>>, env.writable)]
    BY <2>1, <2>2, <2>3, <2>4
  <2>6. x \in {"dest", "pcm"} /\ token \in Tokens
    BY <2>3 DEF Tokens, Words, OnOff
  <2>7. PICK writable : writable = env.writable
    OBVIOUS
  <2>8. writable \in BOOLEAN /\ v = [w1 EXCEPT !.cmd = SetValue(w1.cmd, x, <<token>>, writable)]
    BY <2>5, <2>7 DEF IsEnv
  <2> HIDE DEF Outcome
  <2>9. Outcome(w, v)
    BY <1>4, <2>6, <2>8, ToldOutcome
  <2> QED
    BY <2>2, <2>9
<1>7. CASE ~(HasModem(w) /\ ~w.modem.mix)
  <2>1. SetDspPcmDump(w, pcm, env) = w1
    BY <1>7, <1>5 DEF SetDspPcmDump
  <2> QED
    BY <1>4, <2>1
<1> QED
  BY <1>6, <1>7

LEMMA TellKeeps ==
  ASSUME NEW w, Good(w), HasModem(w), NEW status \in BOOLEAN, NEW env, IsEnv(env)
  PROVE  Good(TellMiniap(w, status, env)) /\ Good(TellOrcadp(w, status, env))
<1>1. /\ w.pipes[WanModem].present /\ w.modem \in FullModems /\ ModemFollows(w.modem, w.conf)
      /\ ConfigInv(w.conf) /\ w.conf \in Configs
  BY ModemIs
<1>2. ASSUME NEW m \in FullModems, NEW x \in {"miniap", "orcadp"},
             m = [w.modem EXCEPT !.mini_ap_log = m.mini_ap_log, !.orcadp_log = m.orcadp_log],
             NEW v, v = [w EXCEPT !.modem = m, !.cmd = SetValue(w.cmd, x, <<OnOff(status)>>, env.writable)]
      PROVE  Good(v)
  <2>1. PICK d : d = w.conf
    OBVIOUS
  <2>2. /\ m.mix = w.modem.mix /\ m.working = w.modem.working /\ m.restarted = w.modem.restarted
        /\ m.save_md = w.modem.save_md /\ m.md_to_int = w.modem.md_to_int
        /\ m.save_wcdma_iq = w.modem.save_wcdma_iq
    BY <1>1, <1>2 DEF FullModems
  <2>3. /\ m.save_md = d.m_enable_md /\ m.md_to_int = d.m_md_save_to_int
        /\ m.save_wcdma_iq <=> WcdmaIqEnabled(d, WanModem)
    BY <1>1, <2>1, <2>2 DEF ModemFollows
  <2>4. Changes(w.conf, d)
    BY <1>1, <2>1 DEF Changes, Extends
  <2>5. /\ d.m_config = w.conf.m_config /\ d.ext_stor_active = w.conf.ext_stor_active
        /\ d.agdsp_log_dest = w.conf.agdsp_log_dest /\ d.agdsp_pcm_dump = w.conf.agdsp_pcm_dump
    BY <2>1
  <2>6. PICK u : u = [w EXCEPT !.modem = m, !.conf = d]
    OBVIOUS
  <2>7. w.pipes[WanModem].present
    BY <1>1
  <2>8. Good(u)
    BY <2>2, <2>3, <2>4, <2>5, <2>6, <2>7, ModemChanged
  <2>9. v = [u EXCEPT !.cmd = SetValue(u.cmd, x, <<OnOff(status)>>, env.writable)]
    BY <1>2, <2>1, <2>6 DEF Good, IsWorld
  <2>10. PICK value, writable : value = <<OnOff(status)>> /\ writable = env.writable
    OBVIOUS
  <2>11. x \in Cmd!Settings /\ IsValue(value, x) /\ writable \in BOOLEAN
    BY <2>10, SettingsAre DEF IsValue, OnOff, Tokens, Words, IsEnv
  <2>12. v = [u EXCEPT !.cmd = SetValue(u.cmd, x, value, writable)]
    BY <2>9, <2>10
  <2> QED
    BY <2>8, <2>11, <2>12, CommandKeeps
<1>3. Good(TellMiniap(w, status, env))
  <2>1. PICK m : m = [w.modem EXCEPT !.mini_ap_log = status]
    OBVIOUS
  <2>2. m \in FullModems /\ m = [w.modem EXCEPT !.mini_ap_log = m.mini_ap_log, !.orcadp_log = m.orcadp_log]
    BY <1>1, <2>1 DEF FullModems
  <2>3. PICK x, c : x = "miniap" /\ c = w.cmd
    OBVIOUS
  <2>4. Cmd!SetMiniapLogStatus(c, <<OnOff(status)>>, env.writable) = SetValue(c, x, <<OnOff(status)>>, env.writable)
    BY <2>3, CmdSets
  <2>5. PICK v : v = TellMiniap(w, status, env)
    OBVIOUS
  <2>6. v = [w EXCEPT !.modem = m, !.cmd = SetValue(w.cmd, x, <<OnOff(status)>>, env.writable)]
    BY <2>1, <2>3, <2>4, <2>5 DEF TellMiniap, Good, IsWorld
  <2> QED
    BY <1>2, <2>2, <2>3, <2>5, <2>6
<1>4. Good(TellOrcadp(w, status, env))
  <2>1. PICK m : m = [w.modem EXCEPT !.orcadp_log = status]
    OBVIOUS
  <2>2. m \in FullModems /\ m = [w.modem EXCEPT !.mini_ap_log = m.mini_ap_log, !.orcadp_log = m.orcadp_log]
    BY <1>1, <2>1 DEF FullModems
  <2>3. PICK x, c : x = "orcadp" /\ c = w.cmd
    OBVIOUS
  <2>4. Cmd!SetOrcadpLogStatus(c, <<OnOff(status)>>, env.writable) = SetValue(c, x, <<OnOff(status)>>, env.writable)
    BY <2>3, CmdSets
  <2>5. PICK v : v = TellOrcadp(w, status, env)
    OBVIOUS
  <2>6. v = [w EXCEPT !.modem = m, !.cmd = SetValue(w.cmd, x, <<OnOff(status)>>, env.writable)]
    BY <2>1, <2>3, <2>4, <2>5 DEF TellOrcadp, Good, IsWorld
  <2> QED
    BY <1>2, <2>2, <2>3, <2>5, <2>6
<1> QED
  BY <1>3, <1>4

LEMMA SetOrcaLogOutcome ==
  ASSUME NEW w, Good(w), NEW cmd, NEW status \in BOOLEAN, NEW env, IsEnv(env)
  PROVE  Outcome(w, SetOrcaLog(w, cmd, status, env))
<1>1. CASE ~HasModem(w)
  BY <1>1, AnswerOutcome DEF SetOrcaLog, Answered
<1>2. CASE HasModem(w)
  <2>1. PICK v : v = IF cmd = "SET_MINIAP_LOG" THEN TellMiniap(w, status, env) ELSE TellOrcadp(w, status, env)
    OBVIOUS
  <2>2. Good(v)
    BY <1>2, <2>1, TellKeeps
  <2>3. SetOrcaLog(w, cmd, status, env) = Ok(v)
    BY <1>2, <2>1 DEF SetOrcaLog
  <2> QED
    BY <2>2, <2>3, OkOutcome
<1> QED
  BY <1>1, <1>2

LEMMA SetMipiLogOutcome ==
  ASSUME NEW w, Good(w), NEW e \in Mipis, NEW env, IsEnv(env)
  PROVE  Outcome(w, SetMipiLog(w, e, env))
<1>1. CASE ~HasModem(w)
  BY <1>1, AnswerOutcome DEF SetMipiLog, Answered
<1>2. CASE HasModem(w)
  <2>1. PICK x, c, value, writable : x = "mipi" /\ c = w.cmd /\ value = <<e>> /\ writable = env.writable
    OBVIOUS
  <2>2. x \in Cmd!Settings /\ IsValue(value, x) /\ writable \in BOOLEAN
    <3>1. value \in Seq(Mipis) /\ DOMAIN value = {1}
      BY <2>1
    <3>2. value \in MipiLists
      BY <3>1 DEF MipiLists, OneMipiEach
    <3> QED
      BY <2>1, <3>2, SettingsAre DEF IsValue, IsEnv
  <2>3. PICK w1 : w1 = [w EXCEPT !.cmd = SetValue(w.cmd, x, value, writable)]
    OBVIOUS
  <2>4. Good(w1) /\ w1.answer = w.answer /\ w1.work = w.work /\ w1.ended = w.ended /\ Kept(w1) = Kept(w)
    BY <2>2, <2>3, CommandKeeps
  <2>5. w1 = [w EXCEPT !.cmd = Cmd!SetMipiLogInfo(@, <<e>>, env.writable)]
    <3>1. Cmd!SetMipiLogInfo(c, value, writable) = SetValue(c, x, value, writable)
      BY <2>1, CmdSets
    <3> QED
      BY <2>1, <2>3, <3>1 DEF Good, IsWorld
  <2>6. CASE ~Cmd!Accepts(w.cmd, env.writable)
    <3>1. PICK v : v = Answered(w1, "REC_FAILURE")
      OBVIOUS
    <3>2. SetMipiLog(w, e, env) = v
      BY <1>2, <2>5, <2>6, <3>1 DEF SetMipiLog
    <3>3. v = [w1 EXCEPT !.answer = <<"REC_FAILURE">>]
      BY <3>1 DEF Answered
    <3>4. Good(v) /\ v.work = w1.work /\ v.ended = w1.ended /\ Kept(v) = Kept(w1)
      BY <2>4, <3>3, AnsweredKeeps
    <3>5. v.ended \in BOOLEAN /\ FileInv(v.work, Cmcc)
      BY <3>4 DEF Good, IsWorld
    <3> QED
      BY <2>4, <3>2, <3>4, <3>5 DEF Outcome
  <2>7. CASE Cmd!Accepts(w.cmd, env.writable)
    <3>1. PICK d : d = SetMipiLogInfo(w1.conf, WithMipi(w1.conf.m_mipilog, e))
      OBVIOUS
    <3>2. ConfigInv(w1.conf) /\ w1.conf \in Configs /\ w1.dsp \in Dsps
      BY <2>4 DEF Good, ConfigInv, IsWorld
    <3>3. /\ Changes(w1.conf, d)
          /\ d = [w1.conf EXCEPT !.m_mipilog = WithMipi(w1.conf.m_mipilog, e), !.m_dirty = TRUE]
      BY <3>1, <3>2, SetsMipi
    <3>4. /\ d.m_config = w1.conf.m_config /\ d.m_iq_config = w1.conf.m_iq_config
          /\ d.ext_stor_active = w1.conf.ext_stor_active /\ d.m_enable_md = w1.conf.m_enable_md
          /\ d.m_md_save_to_int = w1.conf.m_md_save_to_int /\ d.agdsp_log_dest = w1.conf.agdsp_log_dest
          /\ d.agdsp_pcm_dump = w1.conf.agdsp_pcm_dump
      BY <3>2, <3>3 DEF Configs
    <3>5. PICK p : p = w1.dsp
      OBVIOUS
    <3>6. p \in Dsps /\ (w1.pipes["CT_AGDSP"].present => DspFollows(p, d))
      BY <2>4, <3>2, <3>4, <3>5 DEF Good, DspFollows
    <3>7. PICK v : v = [w1 EXCEPT !.dsp = p, !.conf = d]
      OBVIOUS
    <3>8. Good(v)
      BY <2>4, <3>3, <3>4, <3>6, <3>7, DspChanged
    <3>9. v = [w1 EXCEPT !.conf = SetMipiLogInfo(@, WithMipi(@.m_mipilog, e))]
      BY <2>4, <3>1, <3>5, <3>7 DEF Good, IsWorld
    <3>10. SetMipiLog(w, e, env) = Ok(Save(v, env))
      BY <1>2, <2>5, <2>7, <3>9 DEF SetMipiLog
    <3>11. PICK w2 : w2 = Save(v, env)
      OBVIOUS
    <3>12. Good(w2)
      BY <3>8, <3>11, SaveKeeps
    <3> QED
      BY <3>10, <3>11, <3>12, OkOutcome
  <2> QED
    BY <2>6, <2>7
<1> QED
  BY <1>1, <1>2

------------------------------------------------------------------------------
(* Logs are turned on and off.                                             *)

AllPipes == [Types -> FullPipes \cup {NoPipe}]
AllModems == FullModems \cup {[working |-> FALSE]}

\* v is w of which all but the storage manager and the file is made anew.
Remade(w, v, pipes, modem, dsp, cmd, d) ==
  v = [w EXCEPT !.pipes = pipes, !.modem = modem, !.dsp = dsp, !.cmd = cmd, !.conf = d]

LEMMA Rebuilt ==
  ASSUME NEW w, Good(w), NEW pipes \in AllPipes,
         NEW modem \in AllModems, NEW dsp \in Dsps, NEW cmd, CmdShape(cmd),
         NEW d, Changes(w.conf, d), d.ext_stor_active = w.conf.ext_stor_active,
         PipesFollow(pipes, d, modem),
         pipes[WanModem].present => ModemFollows(modem, d) /\ CmdInv(cmd, modem.working, modem.restarted),
         pipes["CT_AGDSP"].present => DspFollows(dsp, d),
         NEW v, Remade(w, v, pipes, modem, dsp, cmd, d)
  PROVE  /\ Good(v) /\ v.answer = w.answer /\ v.ended = w.ended /\ v.work = w.work /\ v.saved = w.saved
         /\ v.conf = d /\ v.pipes = pipes
<1>1. /\ v.work = w.work /\ v.conf = d /\ v.saved = w.saved /\ v.pipes = pipes
      /\ v.permit = w.permit /\ v.modem = modem /\ v.dsp = dsp /\ v.cmd = cmd /\ v.answer = w.answer
      /\ v.ended = w.ended
  BY DEF Good, IsWorld, Remade
<1>2. ConfigInv(d) /\ d \in Configs /\ Extends(d, Shipped(Cmcc)) /\ Clean(d, w.saved, w.work)
  BY ChangesKeep
<1>3. IsWorld(v)
  BY <1>1, <1>2 DEF Good, IsWorld, Remade, AllPipes, AllModems
<1>4. v.permit = v.conf.ext_stor_active
  BY <1>1 DEF Good
<1>5. FileInv(v.work, Cmcc)
  BY <1>1 DEF Good
<1> QED
  BY <1>1, <1>2, <1>3, <1>4, <1>5 DEF Good

LEMMA CmdKept ==
  ASSUME NEW c, NEW working \in BOOLEAN, NEW restarted \in BOOLEAN, CmdInv(c, working, restarted),
         NEW x \in Cmd!Settings, NEW value, IsValue(value, x), NEW writable \in BOOLEAN,
         NEW d, d = SetValue(c, x, value, writable)
  PROVE  CmdInv(d, working, restarted)
<1>1. PICK all, none : all = Cmd!Settings /\ none = {}
  OBVIOUS
<1>2. /\ all \in SUBSET Cmd!Settings /\ none \in SUBSET Cmd!Settings /\ all = all \cup {x}
      /\ CmdDue(c, all, none, working, restarted)
  BY <1>1 DEF CmdInv
<1>3. CmdDue(d, all, none, working, restarted)
  BY <1>2, SetValueDue
<1> QED
  BY <1>1, <1>3 DEF CmdInv

\* The log of a handler is on.
Begun(h) ==
  [h EXCEPT !.log_mode = "LM_NORMAL",
            !.m_external_max_size = IF h.tmp_external_max_size # "0" THEN h.tmp_external_max_size
                                    ELSE h.m_external_max_size,
            !.tmp_external_max_size = "0"]
Mixes(w, env) == w.modem.poweron_period /\ env.early

LEMMA BegunIs ==
  ASSUME NEW h \in FullPipes
  PROVE  /\ Begun(h) \in FullPipes /\ Begun(h).log_mode = "LM_NORMAL"
         /\ Begun(h).m_internal_max_size = h.m_internal_max_size
         /\ Begun(h).m_max_log_file_size = h.m_max_log_file_size /\ Begun(h).overwrite = h.overwrite
         /\ h.tmp_external_max_size = "0" =>
              Begun(h).m_external_max_size = h.m_external_max_size /\ Begun(h).tmp_external_max_size = "0"
<1>1. "0" \in Sizes
  BY DEF Sizes, Tokens, Words
<1> QED
  BY <1>1 DEF Begun, FullPipes

LEMMA StartLoggingIs ==
  ASSUME NEW w, IsWorld(w), NEW t \in Types, w.pipes[t] \in FullPipes
  PROVE  StartLogging(w, t) = [w EXCEPT !.pipes = [w.pipes EXCEPT ![t] = Begun(w.pipes[t])]]
<1>1. w.pipes \in [Types -> FullPipes \cup {NoPipe}]
  BY DEF IsWorld
<1>2. PICK h : h = w.pipes[t]
  OBVIOUS
<1>3. [h EXCEPT !.log_mode = "LM_NORMAL",
                !.m_external_max_size = IF h.tmp_external_max_size # "0" THEN h.tmp_external_max_size ELSE @,
                !.tmp_external_max_size = "0"] = Begun(h)
  BY <1>2 DEF Begun, FullPipes
<1> QED
  BY <1>1, <1>2, <1>3 DEF StartLogging, IsWorld

\* What it is for the handler of the MODEM.
MixedPipe(w, env) ==
  [Begun(w.pipes[WanModem]) EXCEPT
     !.overwrite = IF Mixes(w, env) THEN FALSE ELSE w.pipes[WanModem].overwrite]
MixedModem(w, env) ==
  [w.modem EXCEPT !.mix = IF Mixes(w, env) THEN TRUE ELSE w.modem.mix, !.poweron_period = FALSE]

LEMMA StartModemIs ==
  ASSUME NEW w, IsWorld(w), w.pipes[WanModem] \in FullPipes, w.modem \in FullModems, NEW env, IsEnv(env),
         NEW pipes, pipes = [w.pipes EXCEPT ![WanModem] = MixedPipe(w, env)],
         NEW cmd, cmd = SetValue(w.cmd, "mipi", w.conf.m_mipilog, env.writable)
  PROVE  Remade(w, StartModem(w, env), pipes, MixedModem(w, env), w.dsp, cmd, w.conf)
<1> DEFINE h == MixedPipe(w, env)
           m == MixedModem(w, env)
<1>11. SUFFICES StartModem(w, env) =
                  [w EXCEPT !.pipes = [w.pipes EXCEPT ![WanModem] = h], !.modem = m,
                            !.cmd = SetValue(w.cmd, "mipi", w.conf.m_mipilog, env.writable)]
  BY DEF Remade, IsWorld
<1>1. WanModem \in Types /\ w.pipes \in [Types -> FullPipes \cup {NoPipe}]
  BY DEF WanModem, Types, IsWorld
<1>2. PICK u : u = StartLogging(w, WanModem)
  OBVIOUS
<1>3. PICK b : b = Begun(w.pipes[WanModem])
  OBVIOUS
<1>4. u = [w EXCEPT !.pipes = [w.pipes EXCEPT ![WanModem] = b]]
  BY <1>1, <1>2, <1>3, StartLoggingIs
<1>5. b \in FullPipes /\ b.overwrite = w.pipes[WanModem].overwrite
  BY <1>3, BegunIs
<1>6. /\ u.modem = w.modem /\ u.cmd = w.cmd /\ u.conf = w.conf
      /\ u.pipes = [w.pipes EXCEPT ![WanModem] = b]
  BY <1>4 DEF IsWorld
<1>7. PICK c, x : c = w.cmd /\ x = "mipi"
  OBVIOUS
<1>8. Cmd!SetMipiLogInfo(c, w.conf.m_mipilog, env.writable) = SetValue(c, x, w.conf.m_mipilog, env.writable)
  BY <1>7, CmdSets
<1>9. CASE Mixes(w, env)
  <2>1. PICK u2 : u2 = [u EXCEPT !.modem.mix = TRUE, !.pipes[WanModem].overwrite = FALSE]
    OBVIOUS
  <2>2. /\ u2 = [w EXCEPT !.pipes = [w.pipes EXCEPT ![WanModem] = h],
                          !.modem = [w.modem EXCEPT !.mix = TRUE]]
    BY <1>1, <1>3, <1>4, <1>5, <1>6, <1>9, <2>1 DEF IsWorld, MixedPipe
  <2>3. StartModem(w, env) = [u2 EXCEPT !.modem.poweron_period = FALSE,
                                        !.cmd = Cmd!SetMipiLogInfo(@, w.conf.m_mipilog, env.writable)]
    BY <1>2, <1>6, <1>9, <2>1 DEF StartModem, Mixes
  <2>4. m = [[w.modem EXCEPT !.mix = TRUE] EXCEPT !.poweron_period = FALSE]
    BY <1>9 DEF MixedModem
  <2>5. u2.modem = [w.modem EXCEPT !.mix = TRUE] /\ u2.cmd = w.cmd
    BY <2>2 DEF IsWorld
  <2> QED
    BY <1>7, <1>8, <2>2, <2>3, <2>4, <2>5 DEF IsWorld
<1>10. CASE ~Mixes(w, env)
  <2>1. h = b
    BY <1>3, <1>5, <1>10 DEF FullPipes, MixedPipe
  <2>2. StartModem(w, env) = [u EXCEPT !.modem.poweron_period = FALSE,
                                       !.cmd = Cmd!SetMipiLogInfo(@, w.conf.m_mipilog, env.writable)]
    BY <1>2, <1>6, <1>10 DEF StartModem, Mixes
  <2>3. m = [w.modem EXCEPT !.poweron_period = FALSE]
    BY <1>10 DEF FullModems, MixedModem
  <2> QED
    BY <1>4, <1>6, <1>7, <1>8, <2>1, <2>2, <2>3 DEF IsWorld
<1> QED
  BY <1>9, <1>10

LEMMA ModeIsSet ==
  ASSUME NEW w, Good(w), NEW t, Present(w, t), NEW mode \in {"LM_OFF", "LM_NORMAL"},
         NEW d, d = SetLogMode(w.conf, t, mode), NEW e, e = [Find(w.conf.m_config, t) EXCEPT !.mode = mode]
  PROVE  /\ EntryIs(w.conf, d, t, e)
         /\ Has(w.conf.m_config, t)
         /\ ConfigInv(d) /\ d \in Configs
         /\ d.ext_stor_active = w.conf.ext_stor_active /\ d.m_enable_md = w.conf.m_enable_md
         /\ d.m_md_save_to_int = w.conf.m_md_save_to_int /\ d.agdsp_log_dest = w.conf.agdsp_log_dest
         /\ d.agdsp_pcm_dump = w.conf.agdsp_pcm_dump /\ d.m_iq_config = w.conf.m_iq_config
         /\ e \in Entries /\ e.mode = mode
         /\ e.internal_limit = Find(w.conf.m_config, t).internal_limit
         /\ e.external_limit = Find(w.conf.m_config, t).external_limit
         /\ e.file_size_limit = Find(w.conf.m_config, t).file_size_limit
         /\ e.overwrite = Find(w.conf.m_config, t).overwrite
<1>1. /\ Has(w.conf.m_config, t) /\ Find(w.conf.m_config, t) \in Entries /\ ConfigInv(w.conf)
  BY PresentIs
<1>2. w.conf \in Configs
  BY <1>1 DEF ConfigInv
<1>3. EntryIs(w.conf, d, t, e)
  <2>1. TRUE \in BOOLEAN /\ "1024" \in Tokens
    BY DEF Tokens, Words
  <2> QED
    BY <1>1, <2>1, SetsEntry
<1>4. ConfigInv(d) /\ d \in Configs
  BY <1>3 DEF EntryIs, Changes, ConfigInv
<1>5. /\ d.ext_stor_active = w.conf.ext_stor_active /\ d.m_enable_md = w.conf.m_enable_md
      /\ d.m_md_save_to_int = w.conf.m_md_save_to_int /\ d.agdsp_log_dest = w.conf.agdsp_log_dest
      /\ d.agdsp_pcm_dump = w.conf.agdsp_pcm_dump /\ d.m_iq_config = w.conf.m_iq_config
  BY <1>2, <1>3 DEF EntryIs, Configs
<1>6. e \in Entries /\ e.mode = mode
      /\ e.internal_limit = Find(w.conf.m_config, t).internal_limit
      /\ e.external_limit = Find(w.conf.m_config, t).external_limit
      /\ e.file_size_limit = Find(w.conf.m_config, t).file_size_limit
      /\ e.overwrite = Find(w.conf.m_config, t).overwrite
  BY <1>1 DEF Entries
<1> QED
  BY <1>1, <1>3, <1>4, <1>5, <1>6

\* The log of the MODEM is turned on.
StartedModem(w, env) == [StartModem(w, env) EXCEPT !.conf = SetLogMode(@, WanModem, "LM_NORMAL")]

LEMMA StartModemKeeps ==
  ASSUME NEW w, Good(w), HasModem(w), NEW env, IsEnv(env), NEW v, v = StartedModem(w, env)
  PROVE  Good(v) /\ v.answer = w.answer /\ v.ended = w.ended /\ v.work = w.work /\ v.saved = w.saved
<1>1. WanModem \in Types /\ Present(w, WanModem)
  BY DEF WanModem, Types, HasModem
<1>2. PICK g, f : g = w.pipes[WanModem] /\ f = Find(w.conf.m_config, WanModem)
  OBVIOUS
<1>3. /\ g \in FullPipes /\ f \in Entries /\ Follows(g, f, WanModem, w.modem)
      /\ w.pipes \in [Types -> FullPipes \cup {NoPipe}] /\ ConfigInv(w.conf)
  BY <1>1, <1>2, PresentIs
<1>4. w.modem \in FullModems /\ ModemFollows(w.modem, w.conf) /\ IsWorld(w)
      /\ CmdInv(w.cmd, w.modem.working, w.modem.restarted) /\ w.dsp \in Dsps
  BY ModemIs DEF Good, IsWorld, HasModem, Present
<1>5. PICK d, e : d = SetLogMode(w.conf, WanModem, "LM_NORMAL") /\ e = [f EXCEPT !.mode = "LM_NORMAL"]
  OBVIOUS
<1>6. /\ EntryIs(w.conf, d, WanModem, e) /\ Has(w.conf.m_config, WanModem)
      /\ d.ext_stor_active = w.conf.ext_stor_active /\ d.m_enable_md = w.conf.m_enable_md
      /\ d.m_md_save_to_int = w.conf.m_md_save_to_int /\ d.agdsp_log_dest = w.conf.agdsp_log_dest
      /\ d.agdsp_pcm_dump = w.conf.agdsp_pcm_dump /\ d.m_iq_config = w.conf.m_iq_config
      /\ e.mode = "LM_NORMAL" /\ e.internal_limit = f.internal_limit
      /\ e.external_limit = f.external_limit /\ e.file_size_limit = f.file_size_limit
      /\ e.overwrite = f.overwrite
  <2>1. PICK mode, t : mode = "LM_NORMAL" /\ t = WanModem
    OBVIOUS
  <2>2. /\ mode \in {"LM_OFF", "LM_NORMAL"} /\ Present(w, t) /\ d = SetLogMode(w.conf, t, mode)
        /\ e = [Find(w.conf.m_config, t) EXCEPT !.mode = mode]
    BY <1>1, <1>2, <1>5, <2>1
  <2>3. /\ EntryIs(w.conf, d, t, e) /\ Has(w.conf.m_config, t)
        /\ d.ext_stor_active = w.conf.ext_stor_active /\ d.m_enable_md = w.conf.m_enable_md
        /\ d.m_md_save_to_int = w.conf.m_md_save_to_int /\ d.agdsp_log_dest = w.conf.agdsp_log_dest
        /\ d.agdsp_pcm_dump = w.conf.agdsp_pcm_dump /\ d.m_iq_config = w.conf.m_iq_config
        /\ e.mode = mode /\ e.internal_limit = Find(w.conf.m_config, t).internal_limit
        /\ e.external_limit = Find(w.conf.m_config, t).external_limit
        /\ e.file_size_limit = Find(w.conf.m_config, t).file_size_limit
        /\ e.overwrite = Find(w.conf.m_config, t).overwrite
    BY <2>2, ModeIsSet
  <2> QED
    BY <1>2, <2>1, <2>3
<1>7. PICK h : h = MixedPipe(w, env)
  OBVIOUS
<1>8. PICK m : m = MixedModem(w, env)
  OBVIOUS
<1>9. PICK cmd : cmd = SetValue(w.cmd, "mipi", w.conf.m_mipilog, env.writable)
  OBVIOUS
<1>14. PICK pipes : pipes = [w.pipes EXCEPT ![WanModem] = h]
  OBVIOUS
<1>10. Remade(w, StartModem(w, env), pipes, m, w.dsp, cmd, w.conf)
  <2>1. w.pipes[WanModem] \in FullPipes /\ w.modem \in FullModems /\ IsWorld(w)
    BY <1>2, <1>3, <1>4
  <2>2. pipes = [w.pipes EXCEPT ![WanModem] = MixedPipe(w, env)]
    BY <1>7, <1>14
  <2> QED
    BY <1>8, <1>9, <2>1, <2>2, StartModemIs
<1>11. /\ m \in FullModems /\ m.working = w.modem.working /\ m.restarted = w.modem.restarted
       /\ m.save_md = w.modem.save_md /\ m.md_to_int = w.modem.md_to_int
       /\ m.save_wcdma_iq = w.modem.save_wcdma_iq
       /\ m.mix = IF Mixes(w, env) THEN TRUE ELSE w.modem.mix
  BY <1>4, <1>8 DEF FullModems, MixedModem
<1>12. /\ h \in FullPipes /\ h.log_mode = "LM_NORMAL" /\ h.m_internal_max_size = g.m_internal_max_size
       /\ h.m_max_log_file_size = g.m_max_log_file_size
       /\ h.overwrite = IF Mixes(w, env) THEN FALSE ELSE g.overwrite
       /\ g.tmp_external_max_size = "0" =>
            h.m_external_max_size = g.m_external_max_size /\ h.tmp_external_max_size = "0"
  <2>1. PICK b : b = Begun(g)
    OBVIOUS
  <2>2. /\ b \in FullPipes /\ b.log_mode = "LM_NORMAL" /\ b.m_internal_max_size = g.m_internal_max_size
        /\ b.m_max_log_file_size = g.m_max_log_file_size
        /\ g.tmp_external_max_size = "0" =>
             b.m_external_max_size = g.m_external_max_size /\ b.tmp_external_max_size = "0"
    BY <1>3, <2>1, BegunIs
  <2>3. h = [b EXCEPT !.overwrite = IF Mixes(w, env) THEN FALSE ELSE g.overwrite]
    BY <1>2, <1>7, <2>1 DEF MixedPipe
  <2>4. g.overwrite \in BOOLEAN
    BY <1>3 DEF FullPipes
  <2> QED
    BY <2>2, <2>3, <2>4 DEF FullPipes
<1>13. Follows(h, e, WanModem, m)
  BY <1>3, <1>6, <1>11, <1>12 DEF Follows
<1>15. pipes \in [Types -> FullPipes \cup {NoPipe}] /\ pipes[WanModem] = h
       /\ \A u \in Types : u # WanModem => pipes[u] = w.pipes[u]
  BY <1>1, <1>3, <1>12, <1>14
<1>16. PipesFollow(pipes, d, m)
  <2>1. ASSUME NEW u \in Types, pipes[u].present, u # WanModem
        PROVE  Has(d.m_config, u) /\ Follows(pipes[u], Find(d.m_config, u), u, m)
    <3>1. Has(w.conf.m_config, u) /\ Follows(w.pipes[u], Find(w.conf.m_config, u), u, w.modem)
      BY <1>15, <2>1 DEF Good, PipesFollow
    <3> QED
      BY <1>6, <1>15, <2>1, <3>1 DEF EntryIs, Follows
  <2>2. Has(d.m_config, WanModem) /\ Follows(pipes[WanModem], Find(d.m_config, WanModem), WanModem, m)
    BY <1>6, <1>13, <1>15 DEF EntryIs
  <2> QED
    BY <2>1, <2>2 DEF PipesFollow
<1>17. CmdInv(cmd, m.working, m.restarted) /\ CmdShape(cmd)
  <2>1. PICK x, value, writable, working, restarted :
          /\ x = "mipi" /\ value = w.conf.m_mipilog /\ writable = env.writable
          /\ working = m.working /\ restarted = m.restarted
    OBVIOUS
  <2>2. x \in Cmd!Settings /\ IsValue(value, x) /\ writable \in BOOLEAN
    BY <1>3, <2>1, SettingsAre DEF IsValue, MipiLists, ConfigInv, Configs, IsEnv
  <2>3. working \in BOOLEAN /\ restarted \in BOOLEAN /\ CmdInv(w.cmd, working, restarted)
    BY <1>4, <1>11, <2>1 DEF FullModems
  <2>4. cmd = SetValue(w.cmd, x, value, writable)
    BY <1>9, <2>1
  <2>5. CmdInv(cmd, working, restarted)
    BY <2>2, <2>3, <2>4, CmdKept
  <2> QED
    BY <2>1, <2>5 DEF CmdInv, CmdDue
<1>18. ModemFollows(m, d)
  BY <1>4, <1>6, <1>11 DEF ModemFollows, WcdmaIqEnabled
<1>19. pipes["CT_AGDSP"].present => DspFollows(w.dsp, d)
  <2>1. "CT_AGDSP" \in Types /\ "CT_AGDSP" # WanModem
    BY DEF Types, WanModem
  <2>2. pipes["CT_AGDSP"] = w.pipes["CT_AGDSP"]
    BY <1>15, <2>1
  <2> QED
    BY <1>6, <2>2 DEF Good, DspFollows
<1>20. PICK dsp : dsp = w.dsp
  OBVIOUS
<1>21. Remade(w, v, pipes, m, dsp, cmd, d)
  BY <1>4, <1>5, <1>10, <1>20 DEF IsWorld, Remade, StartedModem
<1>22. /\ dsp \in Dsps /\ m \in AllModems /\ Changes(w.conf, d)
       /\ pipes["CT_AGDSP"].present => DspFollows(dsp, d)
  BY <1>4, <1>6, <1>11, <1>19, <1>20 DEF EntryIs, AllModems
<1>23. pipes[WanModem].present => ModemFollows(m, d) /\ CmdInv(cmd, m.working, m.restarted)
  BY <1>17, <1>18
<1>24. d.ext_stor_active = w.conf.ext_stor_active /\ CmdShape(cmd)
  BY <1>6, <1>17
<1>25. pipes \in AllPipes
  BY <1>15 DEF AllPipes
<1> QED
  BY <1>16, <1>21, <1>22, <1>23, <1>24, <1>25, Rebuilt

LEMMA StartOneKeeps ==
  ASSUME NEW w, Good(w), NEW t, NEW env, IsEnv(env), NEW v, v = StartOne(w, t, env)
  PROVE  Good(v) /\ v.answer = w.answer /\ v.ended = w.ended /\ v.saved = w.saved
<1>1. CASE ~Present(w, t) \/ w.pipes[t].log_mode = "LM_NORMAL"
  BY <1>1 DEF StartOne
<1>2. CASE Present(w, t) /\ w.pipes[t].log_mode # "LM_NORMAL" /\ t = WanModem
  <2>1. v = StartedModem(w, env) /\ HasModem(w)
    BY <1>2 DEF StartOne, StartedModem, HasModem
  <2> QED
    BY <2>1, StartModemKeeps
<1>3. CASE Present(w, t) /\ w.pipes[t].log_mode # "LM_NORMAL" /\ t # WanModem
  <2>1. PICK g, f : g = w.pipes[t] /\ f = Find(w.conf.m_config, t)
    OBVIOUS
  <2>2. /\ t \in Types /\ g \in FullPipes /\ Has(w.conf.m_config, t) /\ g.present
        /\ f \in Entries /\ Follows(g, f, t, w.modem)
    BY <1>3, <2>1, PresentIs
  <2>3. PICK mode, h : mode = "LM_NORMAL" /\ h = Begun(g)
    OBVIOUS
  <2>4. PICK d, e : d = SetLogMode(w.conf, t, mode) /\ e = [f EXCEPT !.mode = mode]
    OBVIOUS
  <2>5. mode \in {"LM_OFF", "LM_NORMAL"} /\ e = [Find(w.conf.m_config, t) EXCEPT !.mode = mode]
    BY <2>1, <2>3, <2>4
  <2>6. /\ EntryIs(w.conf, d, t, e) /\ e.mode = mode /\ e.internal_limit = f.internal_limit
        /\ e.external_limit = f.external_limit /\ e.file_size_limit = f.file_size_limit
        /\ e.overwrite = f.overwrite
    BY <1>3, <2>1, <2>4, <2>5, ModeIsSet
  <2>7. /\ h \in FullPipes /\ h.log_mode = "LM_NORMAL" /\ h.m_internal_max_size = g.m_internal_max_size
        /\ h.m_max_log_file_size = g.m_max_log_file_size /\ h.overwrite = g.overwrite
        /\ g.tmp_external_max_size = "0" =>
             h.m_external_max_size = g.m_external_max_size /\ h.tmp_external_max_size = "0"
    BY <2>2, <2>3, BegunIs
  <2>8. Follows(h, e, t, w.modem)
    BY <2>2, <2>3, <2>6, <2>7 DEF Follows
  <2>9. StartLogging(w, t) = [w EXCEPT !.pipes = [w.pipes EXCEPT ![t] = h]]
    <3>1. IsWorld(w) /\ w.pipes[t] \in FullPipes
      BY <2>1, <2>2 DEF Good
    <3> QED
      BY <2>1, <2>2, <2>3, <3>1, StartLoggingIs
  <2>10. v = [w EXCEPT !.pipes = [w.pipes EXCEPT ![t] = h], !.conf = d]
    <3>1. v = [StartLogging(w, t) EXCEPT !.conf = SetLogMode(@, t, "LM_NORMAL")]
      BY <1>3 DEF StartOne
    <3> QED
      BY <2>3, <2>4, <2>9, <3>1 DEF Good, IsWorld
  <2>11. w.pipes[t].present
    BY <2>1, <2>2
  <2>12. PICK u : u = [w EXCEPT !.pipes = [w.pipes EXCEPT ![t] = h], !.conf = d]
    OBVIOUS
  <2>13. Good(u)
    <3>1. EntryIs(w.conf, d, t, e) /\ Has(w.conf.m_config, t) /\ t \in Types /\ h \in FullPipes
      BY <2>2, <2>6, <2>7
    <3> QED
      BY <2>8, <2>11, <2>12, <3>1, PipeChanged
  <2> QED
    BY <2>10, <2>12, <2>13 DEF Good, IsWorld
<1> QED
  BY <1>1, <1>2, <1>3

LEMMA StopOneKeeps ==
  ASSUME NEW w, Good(w), NEW t, NEW v, v = StopOne(w, t)
  PROVE  Good(v) /\ v.answer = w.answer /\ v.ended = w.ended /\ v.saved = w.saved
<1>1. CASE ~Present(w, t) \/ w.pipes[t].log_mode = "LM_OFF"
  BY <1>1 DEF StopOne
<1>2. CASE Present(w, t) /\ w.pipes[t].log_mode # "LM_OFF"
  <2>1. PICK g, f : g = w.pipes[t] /\ f = Find(w.conf.m_config, t)
    OBVIOUS
  <2>2. /\ t \in Types /\ g \in FullPipes /\ Has(w.conf.m_config, t) /\ g.present
        /\ f \in Entries /\ Follows(g, f, t, w.modem) /\ w.pipes \in [Types -> FullPipes \cup {NoPipe}]
    BY <1>2, <2>1, PresentIs
  <2>3. PICK mode, h : mode = "LM_OFF" /\ h = [g EXCEPT !.log_mode = "LM_OFF"]
    OBVIOUS
  <2>4. PICK d, e : d = SetLogMode(w.conf, t, mode) /\ e = [f EXCEPT !.mode = mode]
    OBVIOUS
  <2>5. mode \in {"LM_OFF", "LM_NORMAL"} /\ e = [Find(w.conf.m_config, t) EXCEPT !.mode = mode]
    BY <2>1, <2>3, <2>4
  <2>6. /\ EntryIs(w.conf, d, t, e) /\ e.mode = mode /\ e.internal_limit = f.internal_limit
        /\ e.external_limit = f.external_limit /\ e.file_size_limit = f.file_size_limit
        /\ e.overwrite = f.overwrite
    BY <1>2, <2>1, <2>4, <2>5, ModeIsSet
  <2>7. /\ h \in FullPipes /\ h.log_mode = "LM_OFF" /\ h.m_internal_max_size = g.m_internal_max_size
        /\ h.m_max_log_file_size = g.m_max_log_file_size /\ h.overwrite = g.overwrite
        /\ h.m_external_max_size = g.m_external_max_size
        /\ h.tmp_external_max_size = g.tmp_external_max_size
    BY <2>2, <2>3 DEF FullPipes
  <2>8. Follows(h, e, t, w.modem)
    BY <2>2, <2>3, <2>6, <2>7 DEF Follows
  <2>9. v = [w EXCEPT !.pipes = [w.pipes EXCEPT ![t] = h], !.conf = d]
    <3>1. v = [[w EXCEPT !.pipes[t].log_mode = "LM_OFF"] EXCEPT !.conf = SetLogMode(@, t, "LM_OFF")]
      BY <1>2 DEF StopOne, StopLogging
    <3>2. [w EXCEPT !.pipes[t].log_mode = "LM_OFF"] = [w EXCEPT !.pipes = [w.pipes EXCEPT ![t] = h]]
      BY <2>1, <2>2, <2>3 DEF Good, IsWorld
    <3> QED
      BY <2>3, <2>4, <3>1, <3>2 DEF Good, IsWorld
  <2>10. w.pipes[t].present
    BY <2>1, <2>2
  <2>11. PICK u : u = [w EXCEPT !.pipes = [w.pipes EXCEPT ![t] = h], !.conf = d]
    OBVIOUS
  <2>12. Good(u)
    <3>1. EntryIs(w.conf, d, t, e) /\ Has(w.conf.m_config, t) /\ t \in Types /\ h \in FullPipes
      BY <2>2, <2>6, <2>7
    <3> QED
      BY <2>8, <2>10, <2>11, <3>1, PipeChanged
  <2> QED
    BY <2>9, <2>11, <2>12 DEF Good, IsWorld
<1> QED
  BY <1>1, <1>2

\* A set that has every world with what was last saved and an answer.
Cmds ==
  [opened : BOOLEAN, timer : BOOLEAN, suspended : [Cmd!Settings -> BOOLEAN],
   value : [Cmd!Settings -> Values], told : [Cmd!Settings -> Values], owed : [Cmd!Settings -> Values]]
Worlds(saved, answ) ==
  [ended : BOOLEAN, conf : Configs, work : Files, saved : {saved}, pipes : AllPipes, permit : BOOLEAN,
   modem : AllModems, dsp : Dsps, cmd : Cmds, answer : {answ}]
GoodOnes(saved, answ) == {w \in Worlds(saved, answ) : Good(w)}

LEMMA GoodOnesAre ==
  ASSUME NEW saved, NEW answ
  PROVE  \A w : w \in GoodOnes(saved, answ) <=> Good(w) /\ w.saved = saved /\ w.answer = answ
<1>1. ASSUME NEW w, Good(w), w.saved = saved, w.answer = answ
      PROVE  w \in GoodOnes(saved, answ)
  <2>1. w.cmd \in Cmds /\ IsWorld(w)
    BY <1>1 DEF Good, IsWorld, CmdShape, Cmds
  <2>2. w \in Worlds(saved, answ)
    BY <1>1, <2>1 DEF IsWorld, Worlds, AllPipes, AllModems
  <2> QED
    BY <1>1, <2>2 DEF GoodOnes
<1>2. ASSUME NEW w \in GoodOnes(saved, answ)
      PROVE  Good(w) /\ w.saved = saved /\ w.answer = answ
  BY DEF GoodOnes, Worlds
<1> QED
  BY <1>1, <1>2

LEMMA LogsOutcome ==
  ASSUME NEW w, Good(w), NEW p \in Seq(Tokens), NEW env, IsEnv(env)
  PROVE  Outcome(w, ProcEnableLog(w, p, env)) /\ Outcome(w, ProcDisableLog(w, p, env))
<1>1. PICK G : G = GoodOnes(w.saved, w.answer)
  OBVIOUS
<1>2. \A v : v \in G <=> Good(v) /\ v.saved = w.saved /\ v.answer = w.answer
  BY <1>1, GoodOnesAre
<1>3. PICK S : S = [k \in 0 .. Len(p) |-> G]
  OBVIOUS
<1>4. Len(p) \in Nat /\ w \in S[0] /\ S[Len(p)] = G /\ \A k \in 1 .. Len(p) : S[k] = G /\ S[k - 1] = G
  BY <1>2, <1>3
<1>5. Outcome(w, ProcEnableLog(w, p, env))
  <2>1. ASSUME NEW k \in 1 .. Len(p), NEW a \in S[k - 1]
        PROVE  Step("start", env, a, p[k]) \in S[k]
    <3>1. Good(a) /\ a.saved = w.saved /\ a.answer = w.answer
      BY <1>2, <1>4
    <3>2. PICK v, t : v = StartOne(a, t, env) /\ t = GetCpType(p[k])
      OBVIOUS
    <3>3. Good(v) /\ v.saved = w.saved /\ v.answer = w.answer
      BY <3>1, <3>2, StartOneKeeps
    <3> QED
      BY <1>2, <1>4, <3>2, <3>3 DEF Step
  <2>2. PICK v : v = StartAll(w, p, env)
    OBVIOUS
  <2>3. v \in S[Len(p)]
    BY <1>4, <2>1, <2>2, StartFold
  <2>4. Good(v)
    BY <1>2, <1>4, <2>3
  <2>5. PICK u : u = SaveIfDirty(v, env)
    OBVIOUS
  <2>6. Good(u)
    BY <2>4, <2>5, SaveIfDirtyKeeps
  <2>7. CASE ModemSet(p)
    <3>1. ProcEnableLog(w, p, env) = Ok(u)
      BY <2>2, <2>5, <2>7 DEF ProcEnableLog, StartAll
    <3> QED
      BY <2>6, <3>1, OkOutcome
  <2>8. CASE ~ModemSet(p)
    BY <2>8, AnswerOutcome DEF ProcEnableLog, Inval, Answered
  <2> QED
    BY <2>7, <2>8
<1>6. Outcome(w, ProcDisableLog(w, p, env))
  <2>1. ASSUME NEW k \in 1 .. Len(p), NEW a \in S[k - 1]
        PROVE  Step("stop", env, a, p[k]) \in S[k]
    <3>1. Good(a) /\ a.saved = w.saved /\ a.answer = w.answer
      BY <1>2, <1>4
    <3>2. PICK v, t : v = StopOne(a, t) /\ t = GetCpType(p[k])
      OBVIOUS
    <3>3. Good(v) /\ v.saved = w.saved /\ v.answer = w.answer
      BY <3>1, <3>2, StopOneKeeps
    <3> QED
      BY <1>2, <1>4, <3>2, <3>3 DEF Step
  <2>2. PICK v : v = StopAll(w, p)
    OBVIOUS
  <2>3. v \in S[Len(p)]
    BY <1>4, <2>1, <2>2, StopFold
  <2>4. Good(v)
    BY <1>2, <1>4, <2>3
  <2>5. PICK u : u = SaveIfDirty(v, env)
    OBVIOUS
  <2>6. Good(u)
    BY <2>4, <2>5, SaveIfDirtyKeeps
  <2>7. CASE ModemSet(p)
    <3>1. ProcDisableLog(w, p, env) = Ok(u)
      BY <2>2, <2>5, <2>7 DEF ProcDisableLog, StopAll
    <3> QED
      BY <2>6, <3>1, OkOutcome
  <2>8. CASE ~ModemSet(p)
    BY <2>8, AnswerOutcome DEF ProcDisableLog, Inval, Answered
  <2> QED
    BY <2>7, <2>8
<1> QED
  BY <1>5, <1>6

LEMMA Answers ==
  ASSUME NEW w, Good(w)
  PROVE  /\ \A x : Outcome(w, Answered(w, x)) /\ Outcome(w, Text(w, x))
         /\ Outcome(w, Inval(w))
<1>1. ASSUME NEW x
      PROVE  Outcome(w, Answered(w, x))
  BY AnswerOutcome DEF Answered
<1>2. ASSUME NEW x
      PROVE  Outcome(w, Text(w, x))
  BY AnswerOutcome DEF Text
<1> QED
  BY <1>1, <1>2 DEF Inval

\* Requests that ask.
LEMMA AsksOutcome ==
  ASSUME NEW w, Good(w), NEW p
  PROVE  /\ Outcome(w, ProcGetLogFileSize(w, p)) /\ Outcome(w, ProcGetStorageChoice(w, p))
         /\ Outcome(w, ProcGetMdPos(w, p)) /\ Outcome(w, ProcGetCpLogSize(w, p))
         /\ Outcome(w, ProcGetLogOverwrite(w, p)) /\ Outcome(w, ProcGetLogState(w, p))
         /\ Outcome(w, ProcGetAgdspLogDest(w, p)) /\ Outcome(w, ProcGetAgdspPcm(w, p))
         /\ Outcome(w, ProcGetMipiLogInfo(w, p)) /\ Outcome(w, ProcMiniDump(w, p))
<1>1. Outcome(w, ProcGetLogFileSize(w, p))
  BY Answers DEF ProcGetLogFileSize
<1>2. Outcome(w, ProcGetStorageChoice(w, p))
  BY Answers DEF ProcGetStorageChoice
<1>3. Outcome(w, ProcGetMdPos(w, p))
  BY Answers DEF ProcGetMdPos
<1>4. Outcome(w, ProcGetCpLogSize(w, p))
  BY Answers DEF ProcGetCpLogSize
<1>5. Outcome(w, ProcGetLogOverwrite(w, p))
  BY Answers DEF ProcGetLogOverwrite
<1>6. Outcome(w, ProcGetLogState(w, p))
  BY Answers DEF ProcGetLogState
<1>7. Outcome(w, ProcGetAgdspLogDest(w, p))
  BY Answers DEF ProcGetAgdspLogDest
<1>8. Outcome(w, ProcGetAgdspPcm(w, p))
  BY Answers DEF ProcGetAgdspPcm
<1>9. Outcome(w, ProcGetMipiLogInfo(w, p))
  <2>1. CASE Len(p) # 1
    BY <2>1, Answers DEF ProcGetMipiLogInfo
  <2>2. CASE Len(p) = 1
    <3>1. PICK a : ProcGetMipiLogInfo(w, p) = [w EXCEPT !.answer = a]
      BY <2>2 DEF ProcGetMipiLogInfo
    <3> QED
      BY <3>1, AnswerOutcome
  <2> QED
    BY <2>1, <2>2
<1>10. Outcome(w, ProcMiniDump(w, p))
  BY Answers DEF ProcMiniDump
<1> QED
  BY <1>1, <1>2, <1>3, <1>4, <1>5, <1>6, <1>7, <1>8, <1>9, <1>10

\* Requests that change a setting.
LEMMA SetsOutcome ==
  ASSUME NEW w, Good(w), NEW p \in Seq(Tokens), NEW env, IsEnv(env)
  PROVE  /\ Outcome(w, ProcSetLogFileSize(w, p, env)) /\ Outcome(w, ProcSetStorageChoice(w, p, env))
         /\ Outcome(w, ProcSetMdPos(w, p, env)) /\ Outcome(w, ProcSetCpLogSize(w, p, env))
         /\ \A en \in BOOLEAN : Outcome(w, ProcSetLogOverwrite(w, p, en, env))
         /\ Outcome(w, ProcEnableMd(w, p, env)) /\ Outcome(w, ProcDisableMd(w, p, env))
         /\ Outcome(w, ProcEnableIq(w, p, env)) /\ Outcome(w, ProcDisableIq(w, p, env))
         /\ Outcome(w, ProcSetAgdspLogDest(w, p, env)) /\ Outcome(w, ProcSetAgdspPcm(w, p, env))
         /\ \A cmd : Outcome(w, ProcSetOrcaLog(w, cmd, p, env))
         /\ Outcome(w, ProcSetMipiLogInfo(w, p, env))
<1> USE DEF TypeFirst
<1>1. \A i \in 1 .. Len(p) : p[i] \in Tokens
  BY TokenSeq
<1>2. Outcome(w, Inval(w))
  BY Answers
<1>3. ASSUME NEW v, Good(v)
      PROVE  Outcome(w, Ok(v))
  BY <1>3, OkOutcome
<1>4. Outcome(w, ProcSetLogFileSize(w, p, env))
  <2>1. ASSUME Len(p) = 2
        PROVE  Good(SetLogFileSize(w, GetCpType(p[1]), p[2], env))
    <3>1. PICK t, len : t = GetCpType(p[1]) /\ len = p[2]
      OBVIOUS
    <3>2. len \in Tokens
      BY <1>1, <2>1, <3>1
    <3> QED
      BY <3>1, <3>2, SetLogFileSizeKeeps
  <2> QED
    BY <1>2, <1>3, <2>1 DEF ProcSetLogFileSize
<1>5. Outcome(w, ProcSetStorageChoice(w, p, env))
  <2>1. PICK active : active = IF p[1] = "EXTERNAL" THEN TRUE ELSE FALSE
    OBVIOUS
  <2>2. Good(ActiveExternalStorage(w, active, env))
    BY <2>1, ActiveExternalStorageKeeps
  <2>3. ProcSetStorageChoice(w, p, env) = Inval(w)
        \/ ProcSetStorageChoice(w, p, env) = Ok(ActiveExternalStorage(w, active, env))
    BY <2>1 DEF ProcSetStorageChoice
  <2> QED
    BY <1>2, <1>3, <2>2, <2>3
<1>6. Outcome(w, ProcSetMdPos(w, p, env))
  <2>1. PICK int : int = IF p[1] = "INTERNAL" THEN TRUE ELSE FALSE
    OBVIOUS
  <2>2. Good(SetMdStor(w, int, env))
    BY <2>1, SetMdStorKeeps
  <2>3. ProcSetMdPos(w, p, env) = Inval(w) \/ ProcSetMdPos(w, p, env) = Ok(SetMdStor(w, int, env))
    BY <2>1 DEF ProcSetMdPos
  <2> QED
    BY <1>2, <1>3, <2>2, <2>3
<1>7. Outcome(w, ProcSetCpLogSize(w, p, env))
  <2>1. ASSUME Len(p) = 3
        PROVE  Outcome(w, SetCpLogSize(w, GetCpType(p[1]), p[2], p[3], env))
    <3>1. PICK t, mt, sz : t = GetCpType(p[1]) /\ mt = p[2] /\ sz = p[3]
      OBVIOUS
    <3>2. sz \in Tokens
      BY <1>1, <2>1, <3>1
    <3> QED
      BY <3>1, <3>2, SetCpLogSizeOutcome
  <2> QED
    BY <1>2, <2>1 DEF ProcSetCpLogSize
<1>8. ASSUME NEW en \in BOOLEAN
      PROVE  Outcome(w, ProcSetLogOverwrite(w, p, en, env))
  <2>1. PICK t : t = GetCpType(p[1])
    OBVIOUS
  <2>2. Good(SetLogOverwrite(w, t, en, env))
    BY SetLogOverwriteKeeps
  <2> QED
    BY <1>2, <1>3, <2>1, <2>2 DEF ProcSetLogOverwrite
<1>9. PICK yes, no : yes \in BOOLEAN /\ yes = TRUE /\ no \in BOOLEAN /\ no = FALSE
  OBVIOUS
<1>10. Outcome(w, ProcEnableMd(w, p, env))
  <2>1. Outcome(w, SetMd(w, yes, env))
    BY <1>9, SetMdOutcome
  <2> QED
    BY <1>2, <1>9, <2>1 DEF ProcEnableMd
<1>11. Outcome(w, ProcDisableMd(w, p, env))
  <2>1. Outcome(w, SetMd(w, no, env))
    BY <1>9, SetMdOutcome
  <2> QED
    BY <1>2, <1>9, <2>1 DEF ProcDisableMd
<1>12. PICK t : t = GetCpType(p[1])
  OBVIOUS
<1>13. Outcome(w, EnableWcdmaIq(w, t, env)) /\ Outcome(w, DisableWcdmaIq(w, t, env))
  BY WcdmaIqOutcome
<1>14. Outcome(w, ProcEnableIq(w, p, env))
  BY <1>2, <1>12, <1>13 DEF ProcEnableIq
<1>15. Outcome(w, ProcDisableIq(w, p, env))
  BY <1>2, <1>12, <1>13 DEF ProcDisableIq
<1>16. Outcome(w, ProcSetAgdspLogDest(w, p, env))
  <2>1. PICK dest : dest = CASE p[1] = "OFF" -> "off" [] p[1] = "UART" -> "uart" [] OTHER -> "ap"
    OBVIOUS
  <2>2. dest \in {"off", "uart", "ap"}
    BY <2>1
  <2>3. Outcome(w, SetDspLogDest(w, dest, env))
    BY <2>2, SetDspLogDestOutcome
  <2>4. \/ ProcSetAgdspLogDest(w, p, env) = Inval(w)
        \/ ProcSetAgdspLogDest(w, p, env) = SetDspLogDest(w, dest, env)
    BY <2>1 DEF ProcSetAgdspLogDest
  <2> QED
    BY <1>2, <2>3, <2>4
<1>17. PICK on : on = IF p[1] = "ON" THEN TRUE ELSE FALSE
  OBVIOUS
<1>18. on \in BOOLEAN
  BY <1>17
<1>19. Outcome(w, ProcSetAgdspPcm(w, p, env))
  <2>1. Outcome(w, SetDspPcmDump(w, on, env))
    BY <1>18, SetDspPcmDumpOutcome
  <2>2. \/ ProcSetAgdspPcm(w, p, env) = Inval(w)
        \/ ProcSetAgdspPcm(w, p, env) = SetDspPcmDump(w, on, env)
    BY <1>17 DEF ProcSetAgdspPcm
  <2> QED
    BY <1>2, <2>1, <2>2
<1>20. ASSUME NEW cmd
       PROVE  Outcome(w, ProcSetOrcaLog(w, cmd, p, env))
  <2>1. Outcome(w, SetOrcaLog(w, cmd, on, env))
    BY <1>18, SetOrcaLogOutcome
  <2>2. \/ ProcSetOrcaLog(w, cmd, p, env) = Inval(w)
        \/ ProcSetOrcaLog(w, cmd, p, env) = SetOrcaLog(w, cmd, on, env)
    BY <1>17 DEF ProcSetOrcaLog
  <2> QED
    BY <1>2, <2>1, <2>2
<1>21. Outcome(w, ProcSetMipiLogInfo(w, p, env))
  <2>1. ASSUME Len(p) = 3
        PROVE  Outcome(w, SetMipiLog(w, p, env))
    <3>1. p \in Mipis
      BY <2>1 DEF Mipis
    <3> QED
      BY <3>1, SetMipiLogOutcome
  <2> QED
    BY <1>2, <2>1 DEF ProcSetMipiLogInfo
<1> QED
  BY <1>4, <1>5, <1>6, <1>7, <1>8, <1>10, <1>11, <1>14, <1>15, <1>16, <1>19, <1>20, <1>21

LEMMA NoFileIs ==
  FileInv(NoFile, Cmcc) /\ NoFile \in Files
<1>1. <<>> \in Seq(Seq(Tokens)) /\ DOMAIN <<>> = {}
  OBVIOUS
<1> QED
  BY <1>1 DEF FileInv, NoFile, Files

LEMMA RequestOutcome ==
  ASSUME NEW w, Good(w), w.answer = <<>>, NEW r \in Requests, NEW env, IsEnv(env)
  PROVE  Outcome(w, ProcessReq(w, r, env))
<1>1. PICK p, cmd : p = Tail(r) /\ cmd = r[1]
  OBVIOUS
<1>2. p \in Seq(Tokens)
  <2>1. r \in Seq(STRING) /\ r # <<>>
    BY SettingsAssumption DEF SettingsAssumption
  <2>2. p \in Seq(STRING)
    BY <1>1, <2>1
  <2> QED
    BY <2>2, TokensOf
<1>3. Outcome(w, Reset(w))
  <2>1. PICK v : v = Reset(w)
    OBVIOUS
  <2>2. v.ended = TRUE /\ v.work = NoFile /\ v.answer = <<>>
    BY <2>1 DEF Reset, Good, IsWorld
  <2> QED
    BY <2>1, <2>2, NoFileIs DEF Outcome
<1>4. PICK yes, no : yes \in BOOLEAN /\ yes = TRUE /\ no \in BOOLEAN /\ no = FALSE
  OBVIOUS
<1>5. Outcome(w, ProcSetLogOverwrite(w, p, yes, env)) /\ Outcome(w, ProcSetLogOverwrite(w, p, no, env))
  BY <1>2, <1>4, SetsOutcome
<1>6. Outcome(w, ProcEnableLog(w, p, env)) /\ Outcome(w, ProcDisableLog(w, p, env))
  BY <1>2, LogsOutcome
<1>7. PICK u : u = Answered(w, "REC_UNKNOWN_REQ")
  OBVIOUS
<1>8. Outcome(w, u)
  BY <1>7, Answers
<1>9. PICK v : v = ProcessReq(w, r, env)
  OBVIOUS
<1>10. \/ v \in {ProcSetLogFileSize(w, p, env), ProcSetStorageChoice(w, p, env), ProcSetMdPos(w, p, env),
                 ProcSetCpLogSize(w, p, env), ProcEnableMd(w, p, env), ProcDisableMd(w, p, env),
                 ProcEnableIq(w, p, env), ProcDisableIq(w, p, env), ProcSetAgdspLogDest(w, p, env),
                 ProcSetAgdspPcm(w, p, env), ProcSetOrcaLog(w, cmd, p, env), ProcSetMipiLogInfo(w, p, env)}
       \/ v \in {ProcGetLogFileSize(w, p), ProcGetStorageChoice(w, p), ProcGetMdPos(w, p),
                 ProcGetCpLogSize(w, p), ProcGetLogOverwrite(w, p), ProcGetLogState(w, p),
                 ProcGetAgdspLogDest(w, p), ProcGetAgdspPcm(w, p), ProcGetMipiLogInfo(w, p), ProcMiniDump(w, p)}
       \/ v \in {ProcSetLogOverwrite(w, p, yes, env), ProcSetLogOverwrite(w, p, no, env),
                 ProcEnableLog(w, p, env), ProcDisableLog(w, p, env), Reset(w), u}
  BY <1>1, <1>4, <1>7, <1>9 DEF ProcessReq
<1>11. CASE v \in {ProcSetLogFileSize(w, p, env), ProcSetStorageChoice(w, p, env), ProcSetMdPos(w, p, env),
                   ProcSetCpLogSize(w, p, env), ProcEnableMd(w, p, env), ProcDisableMd(w, p, env),
                   ProcEnableIq(w, p, env), ProcDisableIq(w, p, env), ProcSetAgdspLogDest(w, p, env),
                   ProcSetAgdspPcm(w, p, env), ProcSetOrcaLog(w, cmd, p, env), ProcSetMipiLogInfo(w, p, env)}
  <2>1. /\ Outcome(w, ProcSetLogFileSize(w, p, env)) /\ Outcome(w, ProcSetStorageChoice(w, p, env))
        /\ Outcome(w, ProcSetMdPos(w, p, env)) /\ Outcome(w, ProcSetCpLogSize(w, p, env))
        /\ Outcome(w, ProcEnableMd(w, p, env)) /\ Outcome(w, ProcDisableMd(w, p, env))
        /\ Outcome(w, ProcEnableIq(w, p, env)) /\ Outcome(w, ProcDisableIq(w, p, env))
        /\ Outcome(w, ProcSetAgdspLogDest(w, p, env)) /\ Outcome(w, ProcSetAgdspPcm(w, p, env))
        /\ Outcome(w, ProcSetOrcaLog(w, cmd, p, env)) /\ Outcome(w, ProcSetMipiLogInfo(w, p, env))
    BY <1>2, SetsOutcome
  <2> QED
    BY <1>9, <1>11, <2>1
<1>12. CASE v \in {ProcGetLogFileSize(w, p), ProcGetStorageChoice(w, p), ProcGetMdPos(w, p),
                   ProcGetCpLogSize(w, p), ProcGetLogOverwrite(w, p), ProcGetLogState(w, p),
                   ProcGetAgdspLogDest(w, p), ProcGetAgdspPcm(w, p), ProcGetMipiLogInfo(w, p), ProcMiniDump(w, p)}
  BY <1>9, <1>12, AsksOutcome
<1>13. CASE v \in {ProcSetLogOverwrite(w, p, yes, env), ProcSetLogOverwrite(w, p, no, env),
                   ProcEnableLog(w, p, env), ProcDisableLog(w, p, env), Reset(w), u}
  BY <1>3, <1>5, <1>6, <1>8, <1>9, <1>13
<1> QED
  BY <1>10, <1>11, <1>12, <1>13

------------------------------------------------------------------------------
(* The program starts: the handlers are created one after the other.       *)

\* v is a with the handler h of t.
WithPipe(a, t, h) == [a.pipes EXCEPT ![t] = h]
Installs(a, v, t, h) ==
  /\ Good(v) /\ v.answer = a.answer /\ v.ended = a.ended /\ v.work = a.work /\ v.saved = a.saved
  /\ v.conf = a.conf /\ v.pipes = WithPipe(a, t, h)

LEMMA Installed ==
  ASSUME NEW a, Good(a), NEW t \in Types, Has(a.conf.m_config, t), NEW h \in FullPipes,
         NEW modem \in AllModems, NEW cmd, CmdShape(cmd), NEW dsp \in Dsps,
         NEW e, e = Find(a.conf.m_config, t), Follows(h, e, t, modem),
         t # WanModem => modem = a.modem /\ cmd = a.cmd,
         t = WanModem => ModemFollows(modem, a.conf) /\ CmdInv(cmd, modem.working, modem.restarted),
         t # "CT_AGDSP" => dsp = a.dsp, t = "CT_AGDSP" => DspFollows(dsp, a.conf),
         NEW pipes, pipes = WithPipe(a, t, h),
         NEW v, Remade(a, v, pipes, modem, dsp, cmd, a.conf)
  PROVE  Installs(a, v, t, h)
<1>1. PICK d : d = a.conf
  OBVIOUS
<1>2. /\ a.pipes \in [Types -> FullPipes \cup {NoPipe}] /\ WanModem \in Types /\ "CT_AGDSP" \in Types
      /\ a.conf \in Configs
  BY DEF Good, IsWorld, WanModem, Types
<1>3. /\ pipes \in [Types -> FullPipes \cup {NoPipe}] /\ pipes[t] = h
      /\ \A u \in Types : u # t => pipes[u] = a.pipes[u]
  BY <1>2 DEF WithPipe
<1>4. pipes \in AllPipes
  BY <1>3 DEF AllPipes
<1>5. PipesFollow(pipes, d, modem)
  <2>1. ASSUME NEW u \in Types, pipes[u].present, u # t
        PROVE  Has(d.m_config, u) /\ Follows(pipes[u], Find(d.m_config, u), u, modem)
    <3>1. pipes[u] = a.pipes[u]
      BY <1>3, <2>1
    <3>2. Has(d.m_config, u) /\ Follows(pipes[u], Find(d.m_config, u), u, a.modem)
      BY <1>1, <2>1, <3>1 DEF Good, PipesFollow
    <3> QED
      BY <2>1, <3>2 DEF Follows
  <2>2. Has(d.m_config, t) /\ Follows(pipes[t], Find(d.m_config, t), t, modem)
    BY <1>1, <1>3
  <2> QED
    BY <2>1, <2>2 DEF PipesFollow
<1>6. pipes[WanModem].present => ModemFollows(modem, d) /\ CmdInv(cmd, modem.working, modem.restarted)
  BY <1>1, <1>2, <1>3 DEF Good
<1>7. pipes["CT_AGDSP"].present => DspFollows(dsp, d)
  BY <1>1, <1>2, <1>3 DEF Good
<1>8. Changes(a.conf, d) /\ d.ext_stor_active = a.conf.ext_stor_active
  BY <1>1 DEF Good, Changes, Extends
<1>9. Remade(a, v, pipes, modem, dsp, cmd, d)
  BY <1>1
<1>10. /\ Good(v) /\ v.answer = a.answer /\ v.ended = a.ended /\ v.work = a.work /\ v.saved = a.saved
       /\ v.conf = d /\ v.pipes = pipes
  BY <1>4, <1>5, <1>6, <1>7, <1>8, <1>9, Rebuilt
<1> QED
  BY <1>1, <1>10 DEF Installs

LEMMA NewPipe ==
  ASSUME NEW e \in Entries, NEW capped \in BOOLEAN, capped => UserBuild
  PROVE  /\ Pipe(e, capped) \in FullPipes /\ Pipe(e, capped).overwrite = e.overwrite
         /\ e.mode # "LM_NORMAL" => \A t, modem : Follows(Pipe(e, capped), e, t, modem)
         /\ e.mode = "LM_NORMAL" => \A t, modem : Follows(Begun(Pipe(e, capped)), e, t, modem)
<1>1. PICK h : h = Pipe(e, capped)
  OBVIOUS
<1>2. "50" \in Tokens /\ "0" \in Tokens
  BY DEF Tokens, Words
<1>3. /\ h \in FullPipes /\ h.overwrite = e.overwrite /\ h.log_mode = "LM_OFF"
      /\ h.m_internal_max_size = e.internal_limit /\ h.m_max_log_file_size = e.file_size_limit
      /\ ~capped => h.m_external_max_size = e.external_limit /\ h.tmp_external_max_size = "0"
  BY <1>1, <1>2 DEF Pipe, FullPipes, Sizes, Entries
<1>4. e.mode # "LM_NORMAL" => \A t, modem : Follows(h, e, t, modem)
  BY <1>3 DEF Follows, Entries
<1>5. PICK b : b = Begun(h)
  OBVIOUS
<1>6. /\ b.log_mode = "LM_NORMAL" /\ b.m_internal_max_size = h.m_internal_max_size
      /\ b.m_max_log_file_size = h.m_max_log_file_size /\ b.overwrite = h.overwrite
      /\ h.tmp_external_max_size = "0" =>
           b.m_external_max_size = h.m_external_max_size /\ b.tmp_external_max_size = "0"
  BY <1>3, <1>5, BegunIs
<1>7. e.mode = "LM_NORMAL" => \A t, modem : Follows(b, e, t, modem)
  BY <1>3, <1>6 DEF Follows
<1> QED
  BY <1>1, <1>3, <1>4, <1>5, <1>7

\* The handler of the MODEM, and its commands, as they are made.
NewModem(c, env) ==
  [save_wcdma_iq |-> WcdmaIqEnabled(c, WanModem), poweron_period |-> TRUE, mix |-> FALSE,
   save_md |-> c.m_enable_md, md_to_int |-> c.m_md_save_to_int, working |-> TRUE, restarted |-> FALSE,
   mini_ap_log |-> "miniap" \in env.garbage, orcadp_log |-> "orcadp" \in env.garbage]
NewCmd(c, env) ==
  SetValue(SetValue(Cmd!TryOpen(Cmd!CmdInit(env.garbage), env.exists), "pcm", <<OnOff(c.agdsp_pcm_dump)>>,
                    env.writable),
           "dest", <<c.agdsp_log_dest>>, env.writable)

LEMMA NewModemIs ==
  ASSUME NEW c, ConfigInv(c), NEW env
  PROVE  /\ NewModem(c, env) \in FullModems /\ ModemFollows(NewModem(c, env), c)
         /\ NewModem(c, env).working = TRUE /\ NewModem(c, env).restarted = FALSE
         /\ NewModem(c, env).mix = FALSE
<1>1. WcdmaIqEnabled(c, WanModem) \in BOOLEAN
  <2>1. c.m_iq_config \in Seq(Iqs)
    BY DEF ConfigInv, Configs
  <2>2. Has(c.m_iq_config, WanModem) => Find(c.m_iq_config, WanModem) \in Iqs
    BY <2>1, FindIs
  <2> QED
    BY <2>2 DEF WcdmaIqEnabled, Iqs
<1>2. c.m_enable_md \in BOOLEAN /\ c.m_md_save_to_int \in BOOLEAN
  BY DEF ConfigInv, Configs
<1>3. ("miniap" \in env.garbage) \in BOOLEAN /\ ("orcadp" \in env.garbage) \in BOOLEAN
  OBVIOUS
<1>4. NewModem(c, env) \in FullModems
  BY <1>1, <1>2, <1>3 DEF NewModem, FullModems
<1> QED
  BY <1>4 DEF NewModem, ModemFollows

LEMMA NewCmdIs ==
  ASSUME NEW c, ConfigInv(c), NEW env, IsEnv(env)
  PROVE  CmdInv(NewCmd(c, env), TRUE, FALSE) /\ CmdShape(NewCmd(c, env))
<1>1. PICK flags, exists, writable, working, restarted :
        /\ flags = env.garbage /\ exists = env.exists /\ writable = env.writable
        /\ working = TRUE /\ restarted = FALSE
  OBVIOUS
<1>2. exists \in BOOLEAN /\ writable \in BOOLEAN /\ working \in BOOLEAN /\ restarted \in BOOLEAN
  BY <1>1 DEF IsEnv
<1>3. PICK k : k = Cmd!TryOpen(Cmd!CmdInit(flags), exists)
  OBVIOUS
<1>4. CmdInv(k, working, restarted)
  BY <1>2, <1>3, CommandsBegin
<1>5. PICK x, y, pcm, dest : /\ x = "pcm" /\ y = "dest" /\ pcm = <<OnOff(c.agdsp_pcm_dump)>>
                             /\ dest = <<c.agdsp_log_dest>>
  OBVIOUS
<1>6. x \in Cmd!Settings /\ y \in Cmd!Settings /\ IsValue(pcm, x) /\ IsValue(dest, y)
  <2>1. OnOff(c.agdsp_pcm_dump) \in Tokens /\ c.agdsp_log_dest \in Tokens
    BY DEF OnOff, Tokens, Words, ConfigInv, Configs
  <2> QED
    BY <1>5, <2>1, SettingsAre DEF IsValue
<1>7. PICK l : l = SetValue(k, x, pcm, writable)
  OBVIOUS
<1>8. CmdInv(l, working, restarted)
  BY <1>2, <1>4, <1>6, <1>7, CmdKept
<1>9. PICK m : m = SetValue(l, y, dest, writable)
  OBVIOUS
<1>10. CmdInv(m, working, restarted)
  BY <1>2, <1>6, <1>8, <1>9, CmdKept
<1>11. m = NewCmd(c, env)
  BY <1>1, <1>3, <1>5, <1>7, <1>9 DEF NewCmd
<1>12. CmdShape(m)
  BY <1>10 DEF CmdInv, CmdDue
<1> QED
  BY <1>1, <1>10, <1>11, <1>12

LEMMA CreateModemIs ==
  ASSUME NEW w, NEW env
  PROVE  CreateModem(w, env) = [w EXCEPT !.modem = NewModem(w.conf, env), !.cmd = NewCmd(w.conf, env)]
<1>1. PICK k : k = Cmd!TryOpen(Cmd!CmdInit(env.garbage), env.exists)
  OBVIOUS
<1>2. PICK l, pcm : l = Cmd!SetAgdspPcmDump(k, pcm, env.writable) /\ pcm = <<OnOff(w.conf.agdsp_pcm_dump)>>
  OBVIOUS
<1>3. PICK m, dest : m = Cmd!SetAgdspLogDest(l, dest, env.writable) /\ dest = <<w.conf.agdsp_log_dest>>
  OBVIOUS
<1>4. l = SetValue(k, "pcm", pcm, env.writable) /\ m = SetValue(l, "dest", dest, env.writable)
  BY <1>2, <1>3, CmdSets
<1>5. m = NewCmd(w.conf, env)
  BY <1>1, <1>2, <1>3, <1>4 DEF NewCmd
<1>6. CreateModem(w, env) = [w EXCEPT !.modem = NewModem(w.conf, env), !.cmd = m]
  BY <1>1, <1>2, <1>3 DEF CreateModem, NewModem
<1> QED
  BY <1>5, <1>6

\* The modes that start the log of a handler as it is made, by its type.
MadePipe(e, capped) == IF e.mode = "LM_NORMAL" THEN Begun(Pipe(e, capped)) ELSE Pipe(e, capped)

LEMMA MadePipeIs ==
  ASSUME NEW e \in Entries, NEW capped \in BOOLEAN, capped => UserBuild
  PROVE  /\ MadePipe(e, capped) \in FullPipes /\ MadePipe(e, capped).overwrite = e.overwrite
         /\ \A t, modem : Follows(MadePipe(e, capped), e, t, modem)
<1>1. PICK h : h = Pipe(e, capped)
  OBVIOUS
<1>2. h \in FullPipes /\ h.overwrite = e.overwrite
  BY <1>1, NewPipe
<1>3. Begun(h) \in FullPipes /\ Begun(h).overwrite = h.overwrite
  BY <1>2, BegunIs
<1>4. CASE e.mode = "LM_NORMAL"
  <2>1. MadePipe(e, capped) = Begun(h)
    BY <1>1, <1>4 DEF MadePipe
  <2>2. \A t, modem : Follows(Begun(h), e, t, modem)
    BY <1>1, <1>4, NewPipe
  <2> QED
    BY <1>2, <1>3, <2>1, <2>2
<1>5. CASE e.mode # "LM_NORMAL"
  <2>1. MadePipe(e, capped) = h
    BY <1>1, <1>5 DEF MadePipe
  <2>2. \A t, modem : Follows(h, e, t, modem)
    BY <1>1, <1>5, NewPipe
  <2> QED
    BY <1>2, <2>1, <2>2
<1> QED
  BY <1>4, <1>5

\* w has the pipe that is made for e, and the pipe h.
Given(w, e, capped) == [w EXCEPT !.pipes[e.type] = Pipe(e, capped)]
Piped(w, t, h) == [w EXCEPT !.pipes = WithPipe(w, t, h)]

LEMMA CreatePipeIs ==
  ASSUME NEW w, IsWorld(w), NEW t \in Types, t # WanModem, NEW e \in Entries, NEW capped \in BOOLEAN,
         e.type = t, capped => UserBuild,
         NEW w1, w1 = Given(w, e, capped),
         NEW w3, w3 = IF e.mode # "LM_NORMAL" THEN w1 ELSE StartLogging(w1, t)
  PROVE  w3 = Piped(w, t, MadePipe(e, capped))
<1>1. PICK h : h = Pipe(e, capped)
  OBVIOUS
<1>2. h \in FullPipes /\ w.pipes \in [Types -> FullPipes \cup {NoPipe}]
  BY <1>1, NewPipe DEF IsWorld
<1>3. w1 = [w EXCEPT !.pipes = WithPipe(w, t, h)]
  BY <1>1 DEF WithPipe, IsWorld, Given
<1>4. w1.pipes = WithPipe(w, t, h) /\ w1.pipes[t] = h /\ w1.pipes \in [Types -> FullPipes \cup {NoPipe}]
  BY <1>2, <1>3 DEF WithPipe, IsWorld
<1>5. IsWorld(w1)
  BY <1>3, <1>4 DEF IsWorld
<1>6. CASE e.mode # "LM_NORMAL"
  BY <1>1, <1>3, <1>6 DEF MadePipe, Piped
<1>7. CASE e.mode = "LM_NORMAL"
  <2>1. StartLogging(w1, t) = [w1 EXCEPT !.pipes = [w1.pipes EXCEPT ![t] = Begun(w1.pipes[t])]]
    <3>1. w1.pipes[t] \in FullPipes
      BY <1>2, <1>4
    <3> QED
      BY <1>5, <3>1, StartLoggingIs
  <2>2. PICK b : b = Begun(h)
    OBVIOUS
  <2>3. [w1.pipes EXCEPT ![t] = b] = WithPipe(w, t, b)
    BY <1>2, <1>4 DEF WithPipe
  <2>4. StartLogging(w1, t) = [w EXCEPT !.pipes = WithPipe(w, t, b)]
    BY <1>3, <1>4, <2>1, <2>2, <2>3
  <2> QED
    BY <1>1, <1>7, <2>2, <2>4 DEF MadePipe, Piped
<1> QED
  BY <1>6, <1>7

LEMMA CreateKeeps ==
  ASSUME NEW a, Good(a), NEW e \in Entries, Has(a.conf.m_config, e.type), e = Find(a.conf.m_config, e.type),
         NEW env, IsEnv(env), NEW v, v = CreateHandler(a, e, env)
  PROVE  v = a \/ \E h : Installs(a, v, e.type, h)
<1>1. SUFFICES ASSUME e.type \in devices
               PROVE  \E h : Installs(a, v, e.type, h)
  BY DEF CreateHandler
<1>2. PICK t, capped, c : /\ t = e.type /\ capped = IF UserBuild /\ ~a.conf.use_work_conf_file THEN TRUE ELSE FALSE
                          /\ c = a.conf
  OBVIOUS
<1>3. /\ t \in Types /\ capped \in BOOLEAN /\ (capped => UserBuild) /\ ConfigInv(c) /\ c \in Configs
      /\ IsWorld(a) /\ a.dsp \in Dsps /\ a.modem \in AllModems /\ CmdShape(a.cmd)
      /\ a.pipes \in [Types -> FullPipes \cup {NoPipe}]
  BY <1>2 DEF Entries, Good, IsWorld, AllModems
<1>4. PICK w1 : w1 = Given(a, e, capped)
  OBVIOUS
<1>5. PICK h : h = MadePipe(e, capped)
  OBVIOUS
<1>6. h \in FullPipes /\ h.overwrite = e.overwrite /\ \A modem : Follows(h, e, t, modem)
  BY <1>3, <1>5, MadePipeIs
<1>7. CASE t # WanModem
  <2>1. PICK w3 : w3 = IF e.mode # "LM_NORMAL" THEN w1 ELSE StartLogging(w1, t)
    OBVIOUS
  <2>2. w3 = [a EXCEPT !.pipes = WithPipe(a, t, h)]
    <3>1. w3 = Piped(a, t, MadePipe(e, capped))
      <4>1. /\ IsWorld(a) /\ t \in Types /\ t # WanModem /\ e.type = t /\ capped \in BOOLEAN
            /\ capped => UserBuild
        BY <1>2, <1>3, <1>7
      <4> QED
        BY <1>4, <2>1, <4>1, CreatePipeIs
    <3> QED
      BY <1>5, <3>1 DEF Piped
  <2>3. v = IF t = "CT_AGDSP" THEN InitLogOutput(w3, env) ELSE w3
    BY <1>1, <1>2, <1>4, <1>7, <2>1 DEF CreateHandler, Given
  <2>4. PICK dsp : dsp = IF t # "CT_AGDSP" THEN a.dsp
                         ELSE IF env.dsp THEN [dest |-> c.agdsp_log_dest, pcm |-> c.agdsp_pcm_dump, heard |-> TRUE]
                         ELSE [a.dsp EXCEPT !.heard = FALSE]
    OBVIOUS
  <2>5. dsp \in Dsps /\ (t = "CT_AGDSP" => DspFollows(dsp, c))
    BY <1>3, <2>4 DEF Dsps, DspFollows, Configs
  <2>6. v = [a EXCEPT !.pipes = WithPipe(a, t, h), !.dsp = dsp]
    BY <1>2, <1>3, <2>2, <2>3, <2>4 DEF InitLogOutput, IsWorld
  <2>7. PICK pipes, modem, cmd : pipes = WithPipe(a, t, h) /\ modem = a.modem /\ cmd = a.cmd
    OBVIOUS
  <2>8. Remade(a, v, pipes, modem, dsp, cmd, a.conf)
    BY <1>3, <2>6, <2>7 DEF Remade, IsWorld
  <2>9. Has(a.conf.m_config, t) /\ e = Find(a.conf.m_config, t) /\ Follows(h, e, t, modem)
        /\ modem \in AllModems /\ CmdShape(cmd) /\ h \in FullPipes
    BY <1>2, <1>3, <1>6, <2>7
  <2>10. /\ t # WanModem => modem = a.modem /\ cmd = a.cmd
         /\ t = WanModem => ModemFollows(modem, a.conf) /\ CmdInv(cmd, modem.working, modem.restarted)
         /\ t # "CT_AGDSP" => dsp = a.dsp
         /\ t = "CT_AGDSP" => DspFollows(dsp, a.conf)
    BY <1>2, <1>7, <2>4, <2>5, <2>7
  <2>11. Installs(a, v, t, h)
    BY <1>3, <2>5, <2>7, <2>8, <2>9, <2>10, Installed
  <2> QED
    BY <1>2, <2>11
<1>8. CASE t = WanModem
  <2>1. PICK p : p = Pipe(e, capped)
    OBVIOUS
  <2>2. p \in FullPipes /\ p.overwrite = e.overwrite
    BY <1>3, <2>1, NewPipe
  <2>3. PICK m, k : m = NewModem(c, env) /\ k = NewCmd(c, env)
    OBVIOUS
  <2>4. /\ m \in FullModems /\ ModemFollows(m, c) /\ m.working = TRUE /\ m.restarted = FALSE /\ m.mix = FALSE
        /\ CmdInv(k, TRUE, FALSE) /\ CmdShape(k)
    BY <1>3, <2>3, NewModemIs, NewCmdIs
  <2>5. PICK w2 : w2 = CreateModem(w1, env)
    OBVIOUS
  <2>6. w1 = [a EXCEPT !.pipes = WithPipe(a, t, p)] /\ w1.conf = c
    BY <1>2, <1>3, <1>4, <2>1 DEF IsWorld, WithPipe, Given
  <2>7. w2 = [w1 EXCEPT !.modem = m, !.cmd = k]
    BY <2>3, <2>5, <2>6, CreateModemIs
  <2>8. w2 = [a EXCEPT !.pipes = WithPipe(a, t, p), !.modem = m, !.cmd = k]
    BY <2>6, <2>7
  <2>9. WithPipe(a, t, p) \in [Types -> FullPipes \cup {NoPipe}] /\ WithPipe(a, t, p)[t] = p
    BY <1>3, <2>2 DEF WithPipe
  <2>10. /\ w2.pipes = WithPipe(a, t, p) /\ w2.modem = m /\ w2.cmd = k /\ w2.conf = c /\ w2.dsp = a.dsp
    BY <1>2, <1>3, <2>8 DEF IsWorld
  <2>11. v = IF e.mode # "LM_NORMAL" THEN w2 ELSE StartModem(w2, env)
    <3>1. t # "CT_AGDSP"
      BY <1>8 DEF WanModem
    <3> QED
      BY <1>1, <1>2, <1>4, <1>8, <2>5, <3>1 DEF CreateHandler, Given
  <2>12. PICK dsp : dsp = a.dsp
    OBVIOUS
  <2>13. ASSUME NEW g \in FullPipes, NEW modem \in FullModems, NEW cmd, CmdShape(cmd),
                Follows(g, e, t, modem), ModemFollows(modem, c), CmdInv(cmd, modem.working, modem.restarted),
                NEW pipes, pipes = WithPipe(a, t, g), Remade(a, v, pipes, modem, dsp, cmd, a.conf)
         PROVE  Installs(a, v, t, g)
    <3>1. /\ t # WanModem => modem = a.modem /\ cmd = a.cmd
          /\ t = WanModem => ModemFollows(modem, a.conf) /\ CmdInv(cmd, modem.working, modem.restarted)
          /\ t # "CT_AGDSP" => dsp = a.dsp
          /\ t = "CT_AGDSP" => DspFollows(dsp, a.conf)
      BY <1>2, <1>8, <2>12, <2>13 DEF WanModem
    <3>2. /\ Has(a.conf.m_config, t) /\ e = Find(a.conf.m_config, t) /\ dsp \in Dsps
          /\ modem \in AllModems /\ g \in FullPipes
      BY <1>2, <1>3, <2>12 DEF AllModems
    <3> QED
      BY <1>3, <2>13, <3>1, <3>2, Installed
  <2>14. CASE e.mode # "LM_NORMAL"
    <3>1. PICK pipes : pipes = WithPipe(a, t, p)
      OBVIOUS
    <3>2. Remade(a, v, pipes, m, dsp, k, a.conf)
      BY <1>3, <2>8, <2>11, <2>12, <2>14, <3>1 DEF Remade, IsWorld
    <3>3. Follows(p, e, t, m)
      BY <1>3, <2>1, <2>14, NewPipe
    <3>4. CmdInv(k, m.working, m.restarted)
      BY <2>4
    <3>5. Installs(a, v, t, p)
      BY <2>2, <2>4, <2>13, <3>1, <3>2, <3>3, <3>4
    <3> QED
      BY <1>2, <3>5
  <2>15. CASE e.mode = "LM_NORMAL"
    <3>1. PICK pipes : pipes = [w2.pipes EXCEPT ![WanModem] = MixedPipe(w2, env)]
      OBVIOUS
    <3>2. PICK cmd : cmd = SetValue(w2.cmd, "mipi", w2.conf.m_mipilog, env.writable)
      OBVIOUS
    <3>3. IsWorld(w2)
      <4>1. w2.answer = a.answer /\ w2.saved = a.saved
        BY <1>3, <2>8 DEF IsWorld
      <4> QED
        BY <1>3, <2>4, <2>8, <2>9, <2>10, <4>1 DEF IsWorld
    <3>4. w2.pipes[WanModem] \in FullPipes /\ w2.modem \in FullModems
      BY <1>8, <2>2, <2>4, <2>9, <2>10
    <3>5. Remade(w2, StartModem(w2, env), pipes, MixedModem(w2, env), w2.dsp, cmd, w2.conf)
      BY <3>1, <3>2, <3>3, <3>4, StartModemIs
    <3>6. PICK n, g : n = MixedModem(w2, env) /\ g = MixedPipe(w2, env)
      OBVIOUS
    <3>7. /\ n \in FullModems /\ n.working = TRUE /\ n.restarted = FALSE
          /\ n.mix = IF Mixes(w2, env) THEN TRUE ELSE FALSE
          /\ n.save_md = m.save_md /\ n.md_to_int = m.md_to_int /\ n.save_wcdma_iq = m.save_wcdma_iq
      BY <2>4, <2>10, <3>6 DEF MixedModem, FullModems
    <3>8. ModemFollows(n, c)
      BY <2>4, <3>7 DEF ModemFollows
    <3>9. g \in FullPipes /\ Follows(g, e, t, n)
      <4>1. PICK b : b = Begun(p)
        OBVIOUS
      <4>2. b \in FullPipes /\ b.overwrite = e.overwrite /\ Follows(b, e, t, n)
        BY <1>5, <1>6, <2>1, <2>15, <4>1 DEF MadePipe
      <4>3. g = [b EXCEPT !.overwrite = IF Mixes(w2, env) THEN FALSE ELSE e.overwrite]
        <5>1. w2.pipes[WanModem] = p
          BY <1>8, <2>9, <2>10
        <5> QED
          BY <2>2, <3>6, <4>1, <5>1 DEF MixedPipe
      <4>4. e.overwrite \in BOOLEAN
        BY DEF Entries
      <4>5. /\ g \in FullPipes /\ g.overwrite = IF Mixes(w2, env) THEN FALSE ELSE e.overwrite
            /\ g.log_mode = b.log_mode /\ g.m_internal_max_size = b.m_internal_max_size
            /\ g.m_external_max_size = b.m_external_max_size /\ g.tmp_external_max_size = b.tmp_external_max_size
            /\ g.m_max_log_file_size = b.m_max_log_file_size
        BY <4>2, <4>3, <4>4 DEF FullPipes
      <4> QED
        BY <1>8, <3>7, <4>2, <4>5 DEF Follows
    <3>10. CmdInv(cmd, n.working, n.restarted) /\ CmdShape(cmd)
      <4>1. PICK x, value, writable, working, restarted :
              /\ x = "mipi" /\ value = c.m_mipilog /\ writable = env.writable
              /\ working = TRUE /\ restarted = FALSE
        OBVIOUS
      <4>2. x \in Cmd!Settings /\ IsValue(value, x) /\ writable \in BOOLEAN
        BY <1>3, <4>1, SettingsAre DEF IsValue, MipiLists, ConfigInv, Configs, IsEnv
      <4>3. working \in BOOLEAN /\ restarted \in BOOLEAN /\ CmdInv(k, working, restarted)
        BY <2>4, <4>1
      <4>4. cmd = SetValue(k, x, value, writable)
        BY <2>10, <3>2, <4>1
      <4>5. CmdInv(cmd, working, restarted)
        BY <4>2, <4>3, <4>4, CmdKept
      <4> QED
        BY <3>7, <4>1, <4>5 DEF CmdInv, CmdDue
    <3>11. pipes = WithPipe(a, t, g)
      BY <1>3, <1>8, <2>10, <3>1, <3>6 DEF WithPipe
    <3>12. Remade(a, v, pipes, n, dsp, cmd, a.conf)
      <4>1. v = [w2 EXCEPT !.pipes = pipes, !.modem = n, !.dsp = a.dsp, !.cmd = cmd, !.conf = c]
        BY <2>10, <2>11, <2>15, <3>5, <3>6 DEF Remade
      <4>2. v = [a EXCEPT !.pipes = pipes, !.modem = n, !.dsp = a.dsp, !.cmd = cmd, !.conf = c]
        BY <1>3, <2>8, <4>1 DEF IsWorld
      <4> QED
        BY <1>2, <2>12, <4>2 DEF Remade
    <3>13. Installs(a, v, t, g)
      BY <2>13, <3>7, <3>8, <3>9, <3>10, <3>11, <3>12
    <3> QED
      BY <1>2, <3>13
  <2> QED
    BY <2>14, <2>15
<1> QED
  BY <1>7, <1>8

\* v has just been started with the file.
Fresh(v, file) == Good(v) /\ v.ended = FALSE /\ v.answer = <<>> /\ v.work = file

LEMMA StartedIs ==
  ASSUME NEW file, FileInv(file, Cmcc), NEW env, IsEnv(env), NEW v, v = Started(file, env)
  PROVE  Fresh(v, file)
<1>1. PICK c : c = ReadConfig(Initial, file, Cmcc)
  OBVIOUS
<1>2. PICK w : w = [ended |-> FALSE, conf |-> c, work |-> file, saved |-> Content(c),
                    pipes |-> [t \in Types |-> NoPipe], permit |-> c.ext_stor_active,
                    modem |-> [working |-> FALSE], dsp |-> [dest |-> "off", pcm |-> FALSE, heard |-> TRUE],
                    cmd |-> Cmd!CmdInit({}), answer |-> <<>>]
  OBVIOUS
<1>3. PICK s : s = c.m_config
  OBVIOUS
<1>4. v = CreateAll(w, s, env)
  BY <1>1, <1>2, <1>3 DEF Started, CreateAll, Cmcc
<1>5. ConfigInv(c) /\ Extends(c, Shipped(Cmcc)) /\ c \in Configs
  BY <1>1, ReadConfigIs DEF ConfigInv
<1>6. Good(w)
  <2>1. /\ w.ended = FALSE /\ w.conf = c /\ w.work = file /\ w.saved = Content(c)
        /\ w.pipes = [t \in Types |-> NoPipe] /\ w.permit = c.ext_stor_active
        /\ w.modem = [working |-> FALSE] /\ w.dsp = [dest |-> "off", pcm |-> FALSE, heard |-> TRUE]
        /\ w.cmd = Cmd!CmdInit({}) /\ w.answer = <<>>
    BY <1>2
  <2>2. CmdShape(w.cmd)
    <3>1. PICK flags, yes : flags = {} /\ yes \in BOOLEAN
      OBVIOUS
    <3>2. CmdShape(Cmd!CmdInit(flags))
      BY <3>1, CommandsBegin
    <3> QED
      BY <2>1, <3>1, <3>2
  <2>3. file \in Files
    BY DEF FileInv
  <2>4. c.ext_stor_active \in BOOLEAN
    BY <1>5 DEF Configs
  <2>5. w.dsp \in Dsps
    BY <2>1 DEF Dsps
  <2>6. w.pipes \in [Types -> FullPipes \cup {NoPipe}]
    BY <2>1
  <2>7. IsWorld(w)
    BY <1>2, <1>5, <2>1, <2>2, <2>3, <2>4, <2>5, <2>6 DEF IsWorld
  <2>8. \A t \in Types : ~w.pipes[t].present
    BY <2>1 DEF NoPipe
  <2>9. WanModem \in Types /\ "CT_AGDSP" \in Types
    BY DEF WanModem, Types
  <2>10. Clean(w.conf, w.saved, w.work)
    BY <1>1, <2>1 DEF Clean, Survives
  <2>11. PipesFollow(w.pipes, w.conf, w.modem)
    BY <2>8 DEF PipesFollow
  <2> QED
    BY <1>5, <2>1, <2>7, <2>8, <2>9, <2>10, <2>11 DEF Good
<1>7. PICK saved, answ, G : saved = Content(c) /\ answ = <<>> /\ G = GoodOnes(saved, answ)
  OBVIOUS
<1>8. \A a : a \in G <=> Good(a) /\ a.saved = saved /\ a.answer = answ
  BY <1>7, GoodOnesAre
<1>9. PICK H : H = {a \in G : a.conf = c /\ a.ended = FALSE /\ a.work = file}
  OBVIOUS
<1>10. \A a : a \in H <=> /\ Good(a) /\ a.saved = saved /\ a.answer = answ /\ a.conf = c
                          /\ a.ended = FALSE /\ a.work = file
  BY <1>8, <1>9
<1>11. PICK S : S = [k \in 0 .. Len(s) |-> H]
  OBVIOUS
<1>12. s \in Seq(Entries) /\ OneEach(s)
  BY <1>3, <1>5 DEF ConfigInv, Configs
<1>13. Len(s) \in Nat /\ S[0] = H /\ S[Len(s)] = H /\ \A k \in 1 .. Len(s) : S[k] = H /\ S[k - 1] = H
  BY <1>11, <1>12
<1>14. w \in S[0]
  BY <1>2, <1>6, <1>7, <1>10, <1>13
<1>15. ASSUME NEW k \in 1 .. Len(s), NEW a \in S[k - 1]
       PROVE  Step("create", env, a, s[k]) \in S[k]
  <2>1. /\ Good(a) /\ a.saved = saved /\ a.answer = answ /\ a.conf = c
        /\ a.ended = FALSE /\ a.work = file
    BY <1>10, <1>13
  <2>2. PICK e : e = s[k]
    OBVIOUS
  <2>3. e \in Entries /\ Has(s, e.type) /\ e = Find(s, e.type)
    <3>1. k \in DOMAIN s /\ e \in Entries
      BY <1>12, <2>2
    <3>2. Has(s, e.type) /\ Index(s, e.type) \in DOMAIN s /\ s[Index(s, e.type)].type = e.type
      BY <1>12, <2>2, <3>1, IndexIs
    <3> QED
      BY <1>12, <2>2, <3>1, <3>2 DEF Find, OneEach
  <2>4. PICK u : u = CreateHandler(a, e, env)
    OBVIOUS
  <2>5. Has(a.conf.m_config, e.type) /\ e = Find(a.conf.m_config, e.type)
    BY <1>3, <2>1, <2>3
  <2>6. u = a \/ \E h : Installs(a, u, e.type, h)
    BY <2>1, <2>3, <2>4, <2>5, CreateKeeps
  <2>7. u \in H
    BY <1>10, <2>1, <2>6 DEF Installs
  <2> QED
    BY <1>13, <2>2, <2>4, <2>7 DEF Step
<1>16. v \in S[Len(s)]
  BY <1>4, <1>12, <1>14, <1>15, CreateFold
<1> QED
  BY <1>7, <1>10, <1>13, <1>16 DEF Fresh

------------------------------------------------------------------------------
(* Steps.                                                                  *)

\* Between two steps the program, with its file, is a good world.
IInv ==
  /\ FileInv(work, Cmcc)
  /\ program.ended \in BOOLEAN
  /\ Runs => /\ Good(World) /\ World.ended = FALSE
             /\ program = [World EXCEPT !.work = NoFile]

\* What a step leaves, whatever it answers.
Leaves(v) ==
  /\ program' = IF v.ended THEN Ended ELSE [v EXCEPT !.work = NoFile, !.answer = <<>>]
  /\ work' = v.work /\ build' = build

LEMMA GoodStays ==
  ASSUME NEW w, build' = build
  PROVE  /\ Good(w)' <=> Good(w)
         /\ \A file : FileInv(file, Cmcc)' <=> FileInv(file, Cmcc)
<1>1. Cmcc' <=> Cmcc
  BY DEF Cmcc
<1>2. \A h, e, t, modem : Follows(h, e, t, modem)' <=> Follows(h, e, t, modem)
  BY DEF Follows, UserBuild
<1>3. \A pipes, c, modem : PipesFollow(pipes, c, modem)' <=> PipesFollow(pipes, c, modem)
  BY <1>2 DEF PipesFollow
<1>4. \A file, c : Survives(file, c)' <=> Survives(file, c)
  BY DEF Survives, Readable, Meaning, Cmcc
<1>5. \A c, saved, file : Clean(c, saved, file)' <=> Clean(c, saved, file)
  BY <1>4 DEF Clean
<1>6. \A file : FileInv(file, Cmcc)' <=> FileInv(file, Cmcc)
  BY <1>1 DEF FileInv, Cmcc
<1> QED
  BY <1>1, <1>3, <1>5, <1>6 DEF Good, Cmcc

LEMMA LeavesKeeps ==
  ASSUME NEW v, v.ended \in BOOLEAN, FileInv(v.work, Cmcc), v.ended \/ Good(v), Leaves(v)
  PROVE  IInv'
<1>1. build' = build /\ work' = v.work
  BY DEF Leaves
<1>2. FileInv(work, Cmcc)'
  <2>1. FileInv(v.work, Cmcc)'
    BY <1>1, GoodStays
  <2> QED
    BY <1>1, <2>1 DEF FileInv, Cmcc
<1>3. CASE v.ended
  <2>1. program' = Ended
    BY <1>3 DEF Leaves
  <2>2. program'.ended = TRUE
    BY <2>1 DEF Ended
  <2> QED
    BY <1>2, <2>2 DEF IInv, Runs
<1>4. CASE ~v.ended
  <2>1. PICK u : u = [v EXCEPT !.answer = <<>>]
    OBVIOUS
  <2>2. Good(u) /\ u.ended = FALSE /\ Good(v)
    <3>1. PICK a : a = <<>>
      OBVIOUS
    <3>2. u = [v EXCEPT !.answer = a] /\ Good(v)
      BY <1>4, <2>1, <3>1
    <3>3. Good(u) /\ u.ended = v.ended
      BY <3>2, AnsweredKeeps
    <3> QED
      BY <1>4, <3>2, <3>3
  <2>3. program' = [v EXCEPT !.work = NoFile, !.answer = <<>>]
    BY <1>4 DEF Leaves
  <2>4. World' = u /\ program' = [u EXCEPT !.work = NoFile]
    BY <1>1, <2>1, <2>2, <2>3 DEF Good, IsWorld, World
  <2>5. Good(u)'
    BY <1>1, <2>2, GoodStays
  <2>6. Good(World)'
    BY <2>4, <2>5 DEF Good, Cmcc
  <2>7. World'.ended = FALSE /\ program'.ended = FALSE
    BY <2>2, <2>4 DEF Good, IsWorld
  <2> QED
    BY <1>2, <2>4, <2>6, <2>7 DEF IInv
<1> QED
  BY <1>3, <1>4

\* The program as it runs, with its file: w is the world there is.
LEMMA WorldIs ==
  ASSUME IInv, Runs, NEW w, w = World
  PROVE  /\ Good(w) /\ w.ended = FALSE /\ w.answer = <<>> /\ w.work = work
         /\ program = [w EXCEPT !.work = NoFile] /\ NoFile \in Files
         /\ w.conf = program.conf /\ w.pipes = program.pipes /\ w.modem = program.modem
         /\ w.cmd = program.cmd /\ w.dsp = program.dsp /\ w.saved = program.saved
         /\ w.permit = program.permit
<1>1. Good(w) /\ w.ended = FALSE /\ program = [w EXCEPT !.work = NoFile]
  BY DEF IInv
<1>2. IsWorld(w)
  BY <1>1 DEF Good
<1>3. w.work = work /\ w.answer = <<>>
  <2>1. DOMAIN w = DOMAIN program
    BY <1>1
  <2>2. "work" \in DOMAIN w /\ "answer" \in DOMAIN w
    BY <1>2 DEF IsWorld
  <2> QED
    BY <2>1, <2>2 DEF World
<1>4. /\ w.conf = program.conf /\ w.pipes = program.pipes /\ w.modem = program.modem
      /\ w.cmd = program.cmd /\ w.dsp = program.dsp /\ w.saved = program.saved
      /\ w.permit = program.permit
  BY <1>1, <1>2 DEF IsWorld
<1> QED
  BY <1>1, <1>3, <1>4, NoFileIs

LEMMA InitGood == Init => IInv
<1> SUFFICES ASSUME Init
             PROVE  IInv
  OBVIOUS
<1>1. PICK early \in PowerOn, exists \in BOOLEAN, g \in Garbage :
        program = [Started(NoFile, Fine(early, exists, g)) EXCEPT !.work = NoFile]
  BY DEF Init
<1>2. PICK file, env : file = NoFile /\ env = Fine(early, exists, g)
  OBVIOUS
<1>3. FileInv(file, Cmcc) /\ IsEnv(env)
  BY <1>2, NoFileIs, EnvIs
<1>4. PICK v : v = Started(file, env)
  OBVIOUS
<1>5. Good(v) /\ v.ended = FALSE /\ v.answer = <<>> /\ v.work = file
  <2>1. Fresh(v, file)
    BY <1>3, <1>4, StartedIs
  <2> QED
    BY <2>1 DEF Fresh
<1>6. program = v /\ work = file
  BY <1>1, <1>2, <1>4, <1>5 DEF Init, Good, IsWorld
<1>7. World = v /\ program = [World EXCEPT !.work = NoFile]
  BY <1>2, <1>5, <1>6 DEF World, Good, IsWorld
<1> QED
  BY <1>2, <1>3, <1>5, <1>6, <1>7 DEF IInv

\* An answer that is an error comes with nothing changed.
Harmless ==
  answer' # <<>> /\ answer'[1] \in Errors => work' = work /\ Kept(program') = Kept(program)

LEMMA OutcomeLeaves ==
  ASSUME IInv, Runs, NEW w, w = World, NEW v, Outcome(w, v), Becomes(v)
  PROVE  IInv' /\ Harmless
<1>1. /\ Good(w) /\ w.ended = FALSE /\ w.answer = <<>> /\ w.work = work
      /\ w.conf = program.conf /\ w.pipes = program.pipes /\ w.modem = program.modem
      /\ w.dsp = program.dsp /\ w.saved = program.saved /\ w.permit = program.permit
  BY WorldIs
<1>2. Leaves(v) /\ answer' = v.answer
  BY DEF Becomes, Leaves, phone
<1>3. v.ended \in BOOLEAN /\ FileInv(v.work, Cmcc) /\ (v.ended \/ Good(v))
  BY DEF Outcome
<1>4. IInv'
  BY <1>2, <1>3, LeavesKeeps
<1>5. ASSUME v.answer # <<>>, v.answer[1] \in Errors
      PROVE  work' = work /\ Kept(program') = Kept(program)
  <2>1. v.work = w.work /\ v.ended = FALSE /\ Kept(v) = Kept(w) /\ Good(v)
    BY <1>1, <1>3, <1>5 DEF Outcome
  <2>2. program' = [v EXCEPT !.work = NoFile, !.answer = <<>>] /\ work' = work
    BY <1>1, <1>2, <2>1 DEF Leaves
  <2>3. Kept(w) = Kept(program)
    BY <1>1 DEF Kept
  <2>4. Kept(program') = Kept(v)
    <3>1. /\ program'.conf = v.conf /\ program'.saved = v.saved /\ program'.pipes = v.pipes
          /\ program'.permit = v.permit /\ program'.modem = v.modem /\ program'.dsp = v.dsp
      BY <2>1, <2>2 DEF Good, IsWorld
    <3> QED
      BY <3>1 DEF Kept
  <2> QED
    BY <2>1, <2>2, <2>3, <2>4
<1> QED
  BY <1>2, <1>4, <1>5 DEF Harmless

LEMMA RequestStep ==
  ASSUME IInv, NEW r \in Requests, Request(r)
  PROVE  IInv' /\ Harmless
<1>1. PICK env \in FineOnes \cup Faults : Becomes(ProcessReq(World, r, env))
  BY DEF Request
<1>2. Runs
  BY DEF Request
<1>3. PICK w, v : w = World /\ v = ProcessReq(w, r, env)
  OBVIOUS
<1>4. Good(w) /\ w.answer = <<>>
  BY <1>2, <1>3, WorldIs
<1>5. IsEnv(env)
  BY EnvIs
<1>6. Outcome(w, v)
  BY <1>3, <1>4, <1>5, RequestOutcome
<1>7. Becomes(v)
  BY <1>1, <1>3
<1> QED
  BY <1>2, <1>3, <1>6, <1>7, OutcomeLeaves

LEMMA RestartStep ==
  ASSUME IInv, Restart
  PROVE  IInv' /\ Harmless
<1>1. PICK early \in PowerOn, exists \in BOOLEAN, g \in Garbage :
        Becomes(Started(work, Fine(early, exists, g)))
  BY DEF Restart
<1>2. PICK file, env : file = work /\ env = Fine(early, exists, g)
  OBVIOUS
<1>3. FileInv(file, Cmcc) /\ IsEnv(env)
  BY <1>2, EnvIs DEF IInv
<1>4. PICK v : v = Started(file, env)
  OBVIOUS
<1>5. Good(v) /\ v.ended = FALSE /\ v.answer = <<>> /\ v.work = file
  <2>1. Fresh(v, file)
    BY <1>3, <1>4, StartedIs
  <2> QED
    BY <2>1 DEF Fresh
<1>6. Leaves(v) /\ answer' = <<>>
  BY <1>1, <1>2, <1>4, <1>5 DEF Becomes, Leaves, phone
<1>7. v.ended \in BOOLEAN /\ FileInv(v.work, Cmcc)
  BY <1>3, <1>5
<1> QED
  BY <1>5, <1>6, <1>7, LeavesKeeps DEF Harmless

LEMMA KillStep ==
  ASSUME IInv, Kill
  PROVE  IInv' /\ Harmless
<1>1. program' = Ended /\ work' = work /\ build' = build /\ answer' = <<>>
  BY DEF Kill, NoRequest
<1>2. program'.ended = TRUE
  BY <1>1 DEF Ended
<1>3. FileInv(work, Cmcc)'
  BY <1>1 DEF IInv, FileInv, Cmcc
<1> QED
  BY <1>1, <1>2, <1>3 DEF IInv, Runs, Harmless

\* Steps by which a good world becomes another one and no client is answered.
LEMMA QuietStep ==
  ASSUME NoRequest, NEW v, Good(v), v.ended = FALSE, v.work = work,
         program' = [v EXCEPT !.work = NoFile, !.answer = <<>>]
  PROVE  IInv' /\ Harmless
<1>1. Leaves(v) /\ answer' = <<>>
  BY DEF NoRequest, Leaves
<1>2. v.ended \in BOOLEAN /\ FileInv(v.work, Cmcc)
  BY DEF Good
<1>3. IInv'
  BY <1>1, <1>2, LeavesKeeps
<1> QED
  BY <1>1, <1>3 DEF Harmless

LEMMA StutterStep ==
  ASSUME IInv, UNCHANGED vars
  PROVE  IInv' /\ Harmless
<1>1. program' = program /\ work' = work /\ build' = build /\ answer' = answer
  BY DEF vars
<1>2. FileInv(work, Cmcc)'
  BY <1>1 DEF IInv, FileInv, Cmcc
<1>3. ASSUME Runs
      PROVE  Good(World)'
  <2>1. PICK w : w = World
    OBVIOUS
  <2>2. Good(w)
    BY <1>3, <2>1, WorldIs
  <2>3. Good(w)'
    BY <1>1, <2>2, GoodStays
  <2>4. World' = w
    BY <1>1, <2>1 DEF World
  <2> QED
    BY <2>3, <2>4 DEF Good, Cmcc
<1>4. World' = World
  BY <1>1 DEF World
<1> QED
  BY <1>1, <1>2, <1>3, <1>4 DEF IInv, Runs, Harmless

\* The device for commands is opened also while there is no handler of the MODEM.
LEMMA ResumedShape ==
  ASSUME NEW c, CmdShape(c), NEW x \in Cmd!Settings, NEW e, e = Resumed(c, x)
  PROVE  CmdShape(e)
<1>1. CASE ~c.suspended[x]
  BY <1>1 DEF Resumed
<1>2. CASE c.suspended[x]
  <2>1. PICK c1 : c1 = [c EXCEPT !.suspended = [c.suspended EXCEPT ![x] = FALSE]]
    OBVIOUS
  <2>2. CmdShape(c1)
    BY <2>1 DEF CmdShape
  <2>3. PICK value, yes : value = c.value[x] /\ yes \in BOOLEAN /\ yes = TRUE
    OBVIOUS
  <2>4. e = SetValue(c1, x, value, yes)
    BY <1>2, <2>1, <2>3 DEF Resumed, CmdShape
  <2>5. IsValue(value, x)
    BY <2>3 DEF CmdShape, IsValue
  <2>6. yes \in BOOLEAN
    BY <2>3
  <2> QED
    BY <2>2, <2>4, <2>5, <2>6, SetValueIs
<1> QED
  BY <1>1, <1>2 DEF CmdShape

LEMMA ReopenedShape ==
  ASSUME NEW c, CmdShape(c), NEW exists \in BOOLEAN
  PROVE  CmdShape(Cmd!ReopenCmdDev(c, exists))
<1>1. PICK c1 : c1 = Cmd!TryOpen([c EXCEPT !.timer = FALSE], exists)
  OBVIOUS
<1>2. CmdShape(c1)
  BY <1>1 DEF Cmd!TryOpen, CmdShape
<1>3. PICK c2 : c2 = Resumed(c1, "pcm")
  OBVIOUS
<1>4. CmdShape(c2)
  BY <1>2, <1>3, SettingsAre, ResumedShape
<1>5. PICK c3 : c3 = Resumed(c2, "dest")
  OBVIOUS
<1>6. CmdShape(c3)
  BY <1>4, <1>5, SettingsAre, ResumedShape
<1>7. PICK c4 : c4 = Resumed(c3, "miniap")
  OBVIOUS
<1>8. CmdShape(c4)
  BY <1>6, <1>7, SettingsAre, ResumedShape
<1>9. PICK c5 : c5 = Resumed(c4, "orcadp")
  OBVIOUS
<1>10. CmdShape(c5)
  BY <1>8, <1>9, SettingsAre, ResumedShape
<1>11. PICK c6 : c6 = Resumed(c5, "mipi")
  OBVIOUS
<1>12. CmdShape(c6)
  BY <1>10, <1>11, SettingsAre, ResumedShape
<1>13. Cmd!ReopenCmdDev(c, exists) = IF c1.opened THEN c6 ELSE c1
  BY <1>1, <1>3, <1>5, <1>7, <1>9, <1>11, ResumeIs DEF Cmd!ReopenCmdDev, Cmd!DoSuspendActions
<1> QED
  BY <1>2, <1>12, <1>13

LEMMA ReopenStep ==
  ASSUME IInv, ReopenCmdDev
  PROVE  IInv' /\ Harmless
<1>1. PICK exists \in BOOLEAN : program' = [program EXCEPT !.cmd = Cmd!ReopenCmdDev(program.cmd, exists)]
  BY DEF ReopenCmdDev
<1>2. Runs /\ NoRequest
  BY DEF ReopenCmdDev
<1>3. PICK w : w = World
  OBVIOUS
<1>4. /\ Good(w) /\ w.ended = FALSE /\ w.answer = <<>> /\ w.work = work
      /\ program = [w EXCEPT !.work = NoFile] /\ w.cmd = program.cmd
  BY <1>2, <1>3, WorldIs
<1>5. PICK c, d : c = w.cmd /\ d = Cmd!ReopenCmdDev(c, exists)
  OBVIOUS
<1>6. CmdShape(c)
  BY <1>4, <1>5 DEF Good, IsWorld
<1>7. CmdShape(d)
  BY <1>5, <1>6, ReopenedShape
<1>8. PICK v : v = [w EXCEPT !.cmd = d]
  OBVIOUS
<1>9. /\ v.work = w.work /\ v.conf = w.conf /\ v.saved = w.saved /\ v.pipes = w.pipes /\ v.permit = w.permit
      /\ v.modem = w.modem /\ v.dsp = w.dsp /\ v.cmd = d /\ v.answer = w.answer /\ v.ended = w.ended
  BY <1>4, <1>8 DEF Good, IsWorld
<1>10. IsWorld(v)
  BY <1>4, <1>7, <1>8, <1>9 DEF Good, IsWorld
<1>11. ASSUME w.pipes[WanModem].present
       PROVE  CmdInv(d, w.modem.working, w.modem.restarted)
  <2>1. w.modem \in FullModems /\ CmdInv(w.cmd, w.modem.working, w.modem.restarted)
    BY <1>4, <1>11 DEF Good, ModemFollows
  <2>2. PICK working, restarted : working = w.modem.working /\ restarted = w.modem.restarted
    OBVIOUS
  <2>3. working \in BOOLEAN /\ restarted \in BOOLEAN
    BY <2>1, <2>2 DEF FullModems
  <2>4. CmdInv(c, working, restarted)
    BY <1>5, <2>1, <2>2
  <2>5. CmdInv(d, working, restarted)
    BY <1>5, <2>3, <2>4, ReopenedIs
  <2> QED
    BY <2>2, <2>5
<1>12. Good(v)
  BY <1>4, <1>9, <1>10, <1>11 DEF Good
<1>13. program' = [v EXCEPT !.work = NoFile, !.answer = <<>>]
  BY <1>1, <1>4, <1>5, <1>8 DEF Good, IsWorld
<1> QED
  BY <1>2, <1>4, <1>9, <1>12, <1>13, QuietStep

\* The handler of the MODEM goes on, with what it is asked to tell it.
LEMMA ModemGoesOn ==
  ASSUME NEW w, Good(w), HasModem(w), NEW h \in FullPipes, NEW m \in FullModems, NEW cmd, CmdShape(cmd),
         NEW d, d = w.conf, NEW dsp, dsp = w.dsp, NEW t, t = WanModem,
         ModemFollows(m, d), CmdInv(cmd, m.working, m.restarted),
         NEW e, e = Find(d.m_config, t), Follows(h, e, t, m),
         NEW pipes, pipes = WithPipe(w, t, h),
         NEW v, Remade(w, v, pipes, m, dsp, cmd, d)
  PROVE  Good(v) /\ v.work = w.work /\ v.ended = w.ended /\ v.answer = w.answer
<1>1. Present(w, WanModem)
  BY DEF HasModem
<1>2. Has(w.conf.m_config, WanModem)
  BY <1>1, PresentIs
<1>4. t \in Types /\ t # "CT_AGDSP" /\ dsp \in Dsps /\ m \in AllModems
  BY DEF WanModem, Types, Good, IsWorld, AllModems
<1>5. Follows(h, e, t, m) /\ Has(w.conf.m_config, t) /\ pipes = WithPipe(w, t, h)
      /\ e = Find(w.conf.m_config, t)
  BY <1>2
<1>6. Remade(w, v, pipes, m, dsp, cmd, w.conf)
  OBVIOUS
<1>7. /\ t # WanModem => m = w.modem /\ cmd = w.cmd
      /\ t = WanModem => ModemFollows(m, w.conf) /\ CmdInv(cmd, m.working, m.restarted)
      /\ t # "CT_AGDSP" => dsp = w.dsp
      /\ t = "CT_AGDSP" => DspFollows(dsp, w.conf)
  BY <1>4
<1>8. Installs(w, v, t, h)
  BY <1>4, <1>5, <1>6, <1>7, Installed
<1> QED
  BY <1>8 DEF Installs

LEMMA PowerOnStep ==
  ASSUME IInv, PowerOnStorFinish
  PROVE  IInv' /\ Harmless
<1>1. Runs /\ NoRequest /\ HasModem(program)
  BY DEF PowerOnStorFinish
<1>2. PICK w : w = World
  OBVIOUS
<1>3. /\ Good(w) /\ w.ended = FALSE /\ w.answer = <<>> /\ w.work = work
      /\ program = [w EXCEPT !.work = NoFile] /\ w.conf = program.conf /\ w.pipes = program.pipes
      /\ w.modem = program.modem
  BY <1>1, <1>2, WorldIs
<1>4. HasModem(w)
  BY <1>1, <1>3 DEF HasModem, Present
<1>5. /\ w.modem \in FullModems /\ ModemFollows(w.modem, w.conf) /\ IsWorld(w)
      /\ CmdInv(w.cmd, w.modem.working, w.modem.restarted) /\ CmdShape(w.cmd)
  BY <1>3, <1>4 DEF HasModem, Present, Good, ModemFollows, IsWorld
<1>6. PICK e : e = Find(w.conf.m_config, WanModem)
  OBVIOUS
<1>7. /\ w.pipes[WanModem] \in FullPipes /\ e \in Entries
      /\ Follows(w.pipes[WanModem], e, WanModem, w.modem)
  BY <1>3, <1>4, <1>6, PresentIs DEF HasModem
<1>8. PICK h, m : /\ h = [w.pipes[WanModem] EXCEPT !.overwrite = e.overwrite]
                  /\ m = [w.modem EXCEPT !.mix = FALSE]
  OBVIOUS
<1>9. /\ m \in FullModems /\ m.working = w.modem.working /\ m.restarted = w.modem.restarted
      /\ ModemFollows(m, w.conf)
  BY <1>5, <1>8 DEF FullModems, ModemFollows
<1>10. h \in FullPipes /\ Follows(h, e, WanModem, m)
  BY <1>7, <1>8 DEF FullPipes, Entries, Follows
<1>11. PICK cmd, t, d, dsp : cmd = w.cmd /\ t = WanModem /\ d = w.conf /\ dsp = w.dsp
  OBVIOUS
<1>12. PICK pipes : pipes = WithPipe(w, t, h)
  OBVIOUS
<1>13. PICK v : v = [w EXCEPT !.pipes = pipes, !.modem = m, !.dsp = dsp, !.cmd = cmd, !.conf = d]
  OBVIOUS
<1>14. /\ CmdInv(cmd, m.working, m.restarted) /\ CmdShape(cmd) /\ ModemFollows(m, d)
       /\ e = Find(d.m_config, t) /\ Follows(h, e, t, m) /\ Remade(w, v, pipes, m, dsp, cmd, d)
  BY <1>5, <1>6, <1>9, <1>10, <1>11, <1>13 DEF Remade
<1>15. Good(v) /\ v.work = w.work /\ v.ended = w.ended /\ v.answer = w.answer
  BY <1>3, <1>4, <1>9, <1>10, <1>11, <1>12, <1>14, ModemGoesOn
<1>16. program' = [w EXCEPT !.work = NoFile, !.pipes = pipes, !.modem = m]
  <2>1. program' = [program EXCEPT !.modem = [program.modem EXCEPT !.mix = FALSE],
                                   !.pipes = [program.pipes EXCEPT ![WanModem] =
                                     [program.pipes[WanModem] EXCEPT
                                        !.overwrite = Find(program.conf.m_config, WanModem).overwrite]]]
    BY DEF PowerOnStorFinish
  <2>2. program' = [program EXCEPT !.modem = m, !.pipes = pipes]
    BY <1>3, <1>6, <1>8, <1>11, <1>12, <2>1 DEF WithPipe
  <2> QED
    BY <1>3, <1>5, <2>2 DEF IsWorld
<1>17. program' = [v EXCEPT !.work = NoFile, !.answer = <<>>]
  BY <1>3, <1>5, <1>11, <1>13, <1>16 DEF IsWorld
<1> QED
  BY <1>1, <1>3, <1>15, <1>17, QuietStep

\* The handler keeps its log; what it knows of the MODEM, and the commands, change.
Turned(w, v, m, cmd) == v = [w EXCEPT !.modem = m, !.cmd = cmd]

LEMMA ModemTurns ==
  ASSUME NEW w, Good(w), HasModem(w), NEW m \in FullModems, m.mix = w.modem.mix, NEW cmd, CmdShape(cmd),
         ModemFollows(m, w.conf), CmdInv(cmd, m.working, m.restarted),
         NEW v, Turned(w, v, m, cmd)
  PROVE  Good(v) /\ v.work = w.work /\ v.ended = w.ended /\ v.answer = w.answer
<1>1. PICK t, d, dsp : t = WanModem /\ d = w.conf /\ dsp = w.dsp
  OBVIOUS
<1>2. PICK h, e : h = w.pipes[t] /\ e = Find(d.m_config, t)
  OBVIOUS
<1>3. Present(w, t)
  BY <1>1 DEF HasModem
<1>4. h \in FullPipes /\ Follows(h, e, t, w.modem)
  BY <1>1, <1>2, <1>3, PresentIs
<1>5. Follows(h, e, t, m)
  BY <1>4 DEF Follows
<1>6. PICK pipes : pipes = WithPipe(w, t, h)
  OBVIOUS
<1>7. pipes = w.pipes
  BY <1>1, <1>2, <1>6 DEF WithPipe, Good, IsWorld, WanModem, Types
<1>8. Remade(w, v, pipes, m, dsp, cmd, d)
  BY <1>1, <1>7 DEF Turned, Remade, Good, IsWorld
<1>9. ModemFollows(m, d)
  BY <1>1
<1> QED
  BY <1>1, <1>2, <1>4, <1>5, <1>6, <1>8, <1>9, ModemGoesOn

LEMMA AssertStep ==
  ASSUME IInv, ModemAssert
  PROVE  IInv' /\ Harmless
<1>1. Runs /\ NoRequest /\ HasModem(program)
  BY DEF ModemAssert
<1>2. PICK w : w = World
  OBVIOUS
<1>3. /\ Good(w) /\ w.ended = FALSE /\ w.answer = <<>> /\ w.work = work
      /\ program = [w EXCEPT !.work = NoFile] /\ w.pipes = program.pipes /\ w.modem = program.modem
  BY <1>1, <1>2, WorldIs
<1>4. HasModem(w)
  BY <1>1, <1>3 DEF HasModem, Present
<1>5. /\ w.modem \in FullModems /\ ModemFollows(w.modem, w.conf) /\ IsWorld(w)
      /\ CmdInv(w.cmd, w.modem.working, w.modem.restarted) /\ CmdShape(w.cmd)
  BY <1>3, <1>4 DEF HasModem, Present, Good, ModemFollows, IsWorld
<1>6. PICK m, cmd : m = [w.modem EXCEPT !.working = FALSE, !.restarted = TRUE] /\ cmd = w.cmd
  OBVIOUS
<1>7. m \in FullModems /\ m.mix = w.modem.mix /\ ModemFollows(m, w.conf) /\ m.working = FALSE
  BY <1>5, <1>6 DEF FullModems, ModemFollows
<1>8. CmdInv(cmd, m.working, m.restarted) /\ CmdShape(cmd)
  BY <1>5, <1>6, <1>7 DEF CmdInv, CmdDue, Claim
<1>9. PICK v : Turned(w, v, m, cmd)
  BY DEF Turned
<1>10. Good(v) /\ v.work = w.work /\ v.ended = w.ended /\ v.answer = w.answer
  BY <1>3, <1>4, <1>7, <1>8, <1>9, ModemTurns
<1>11. program' = [program EXCEPT !.modem = m]
  BY <1>3, <1>6 DEF ModemAssert
<1>12. program' = [v EXCEPT !.work = NoFile, !.answer = <<>>]
  BY <1>3, <1>5, <1>6, <1>9, <1>11 DEF IsWorld, Turned
<1> QED
  BY <1>1, <1>3, <1>10, <1>12, QuietStep

\* The commands of a MODEM that is alive again.
Retold(c, list, miniap, orcadp, yes) ==
  SetValue(SetValue(SetValue(Cmd!ModemForgot(c), "mipi", list, yes), "miniap", <<OnOff(miniap)>>, yes),
           "orcadp", <<OnOff(orcadp)>>, yes)

LEMMA RetoldIs ==
  ASSUME NEW c, NEW before \in BOOLEAN, CmdInv(c, before, TRUE),
         NEW list \in MipiLists, NEW miniap, NEW orcadp, NEW yes \in BOOLEAN
  PROVE  CmdInv(Retold(c, list, miniap, orcadp, yes), TRUE, TRUE)
<1>1. PICK c0 : c0 = Cmd!ModemForgot(c)
  OBVIOUS
<1>2. CmdShape(c) /\ (c.opened \/ c.timer)
      /\ (~c.opened => \A x \in Cmd!Settings : c.owed[x] = Cmd!Nothing \/ IsKept(c, x))
  BY DEF CmdInv, CmdDue
<1>3. /\ c0.opened = c.opened /\ c0.timer = c.timer /\ c0.suspended = c.suspended /\ c0.value = c.value
      /\ c0.owed = c.owed /\ c0.told = [x \in Cmd!Settings |-> Cmd!Nothing]
  BY <1>1, <1>2 DEF Cmd!ModemForgot, CmdShape
<1>4. CmdShape(c0)
  <2>1. <<>> \in Seq(Tokens) /\ <<>> \in MipiLists
    BY DEF MipiLists, OneMipiEach
  <2>2. c0.told \in [Cmd!Settings -> Values] /\ c0.told["mipi"] \in MipiLists
    BY <1>3, <2>1, SettingsAre DEF Values, Cmd!Nothing
  <2> QED
    BY <1>1, <1>2, <1>3, <2>2 DEF CmdShape, Cmd!ModemForgot
<1>5. PICK working, restarted, none, two :
        working = TRUE /\ restarted = TRUE /\ none = {} /\ two = {"dest", "pcm"}
  OBVIOUS
<1>6. working \in BOOLEAN /\ restarted \in BOOLEAN /\ none \in SUBSET Cmd!Settings /\ two \in SUBSET Cmd!Settings
  BY <1>5, SettingsAre
<1>7. CmdDue(c0, two, none, working, restarted)
  BY <1>2, <1>3, <1>4, <1>5 DEF CmdDue, Claim, IsKept
<1>8. PICK x, y, z, mini, orca : /\ x = "mipi" /\ y = "miniap" /\ z = "orcadp"
                                 /\ mini = <<OnOff(miniap)>> /\ orca = <<OnOff(orcadp)>>
  OBVIOUS
<1>9. /\ x \in Cmd!Settings /\ y \in Cmd!Settings /\ z \in Cmd!Settings
      /\ IsValue(list, x) /\ IsValue(mini, y) /\ IsValue(orca, z)
  BY <1>8, SettingsAre DEF IsValue, OnOff, Tokens, Words
<1>10. PICK three, four, all : three = two \cup {x} /\ four = three \cup {y} /\ all = four \cup {z}
  OBVIOUS
<1>11. /\ three \in SUBSET Cmd!Settings /\ four \in SUBSET Cmd!Settings /\ all = Cmd!Settings
  BY <1>5, <1>8, <1>10, SettingsAre
<1>12. PICK c1 : c1 = SetValue(c0, x, list, yes)
  OBVIOUS
<1>13. CmdDue(c1, three, none, working, restarted)
  BY <1>6, <1>7, <1>9, <1>10, <1>12, SetValueDue
<1>14. PICK c2 : c2 = SetValue(c1, y, mini, yes)
  OBVIOUS
<1>15. CmdDue(c2, four, none, working, restarted)
  BY <1>6, <1>9, <1>10, <1>11, <1>13, <1>14, SetValueDue
<1>16. PICK c3 : c3 = SetValue(c2, z, orca, yes)
  OBVIOUS
<1>17. CmdDue(c3, all, none, working, restarted)
  BY <1>6, <1>9, <1>10, <1>11, <1>15, <1>16, SetValueDue
<1>18. c3 = Retold(c, list, miniap, orcadp, yes)
  BY <1>1, <1>8, <1>12, <1>14, <1>16 DEF Retold
<1> QED
  BY <1>5, <1>11, <1>17, <1>18 DEF CmdInv

LEMMA AliveStep ==
  ASSUME IInv, ModemAlive
  PROVE  IInv' /\ Harmless
<1>1. Runs /\ NoRequest /\ HasModem(program) /\ ~program.modem.working
  BY DEF ModemAlive
<1>2. PICK w : w = World
  OBVIOUS
<1>3. /\ Good(w) /\ w.ended = FALSE /\ w.answer = <<>> /\ w.work = work
      /\ program = [w EXCEPT !.work = NoFile] /\ w.pipes = program.pipes /\ w.modem = program.modem
      /\ w.cmd = program.cmd /\ w.conf = program.conf
  BY <1>1, <1>2, WorldIs
<1>4. HasModem(w)
  BY <1>1, <1>3 DEF HasModem, Present
<1>5. /\ w.modem \in FullModems /\ ModemFollows(w.modem, w.conf) /\ IsWorld(w)
      /\ CmdInv(w.cmd, w.modem.working, w.modem.restarted) /\ ConfigInv(w.conf)
  BY <1>3, <1>4 DEF HasModem, Present, Good, ModemFollows, IsWorld
<1>6. w.modem.working = FALSE /\ w.modem.restarted = TRUE
  BY <1>1, <1>3, <1>5 DEF FullModems, ModemFollows
<1>7. PICK m : m = [w.modem EXCEPT !.working = TRUE]
  OBVIOUS
<1>8. /\ m \in FullModems /\ m.mix = w.modem.mix /\ ModemFollows(m, w.conf)
      /\ m.working = TRUE /\ m.restarted = TRUE
  BY <1>5, <1>6, <1>7 DEF FullModems, ModemFollows
<1>9. PICK c, list, miniap, orcadp, yes :
        /\ c = w.cmd /\ list = w.conf.m_mipilog /\ miniap = w.modem.mini_ap_log
        /\ orcadp = w.modem.orcadp_log /\ yes = TRUE
  OBVIOUS
<1>10. PICK cmd : cmd = Retold(c, list, miniap, orcadp, yes)
  OBVIOUS
<1>11. CmdInv(cmd, TRUE, TRUE)
  <2>1. PICK before \in BOOLEAN : before = w.modem.working
    BY <1>6
  <2>2. CmdInv(c, before, TRUE)
    BY <1>5, <1>6, <1>9, <2>1
  <2>3. list \in MipiLists /\ yes \in BOOLEAN
    BY <1>5, <1>9 DEF MipiLists, ConfigInv, Configs
  <2> QED
    BY <1>10, <2>2, <2>3, RetoldIs
<1>12. CmdInv(cmd, m.working, m.restarted) /\ CmdShape(cmd)
  BY <1>8, <1>11 DEF CmdInv, CmdDue
<1>13. PICK v : Turned(w, v, m, cmd)
  BY DEF Turned
<1>14. Good(v) /\ v.work = w.work /\ v.ended = w.ended /\ v.answer = w.answer
  BY <1>3, <1>4, <1>5, <1>8, <1>12, <1>13, ModemTurns
<1>15. program' = [program EXCEPT !.modem = m, !.cmd = cmd]
  <2>1. PICK env : env = Fine(FALSE, TRUE, {})
    OBVIOUS
  <2>2. env.writable = yes
    BY <1>9, <2>1 DEF Fine
  <2>3. PICK p : p = [program EXCEPT !.cmd = SetValue(Cmd!ModemForgot(program.cmd), "mipi",
                                                      program.conf.m_mipilog, TRUE)]
    OBVIOUS
  <2>4. program' = [TellOrcadp(TellMiniap(p, p.modem.mini_ap_log, env), p.modem.orcadp_log, env)
                      EXCEPT !.modem.working = TRUE]
    BY <2>1, <2>3, CmdSets DEF ModemAlive
  <2>5. /\ p.modem = w.modem /\ p.cmd = SetValue(Cmd!ModemForgot(c), "mipi", list, yes)
        /\ p = [program EXCEPT !.cmd = p.cmd] /\ DOMAIN p = DOMAIN w
    BY <1>3, <1>5, <1>9, <2>3 DEF IsWorld
  <2>6. PICK q : q = TellMiniap(p, p.modem.mini_ap_log, env)
    OBVIOUS
  <2>7. /\ q.modem = w.modem /\ q.cmd = SetValue(p.cmd, "miniap", <<OnOff(miniap)>>, yes)
        /\ q = [program EXCEPT !.cmd = q.cmd] /\ DOMAIN q = DOMAIN w
    <3>1. q = [p EXCEPT !.modem = [p.modem EXCEPT !.mini_ap_log = p.modem.mini_ap_log],
                        !.cmd = SetValue(p.cmd, "miniap", <<OnOff(p.modem.mini_ap_log)>>, env.writable)]
      BY <2>6, CmdSets DEF TellMiniap
    <3>2. [p.modem EXCEPT !.mini_ap_log = p.modem.mini_ap_log] = w.modem
      BY <1>5, <2>5 DEF FullModems
    <3>3. SetValue(p.cmd, "miniap", <<OnOff(p.modem.mini_ap_log)>>, env.writable)
            = SetValue(p.cmd, "miniap", <<OnOff(miniap)>>, yes)
      BY <1>9, <2>2, <2>5
    <3>4. PICK x : x = SetValue(p.cmd, "miniap", <<OnOff(miniap)>>, yes)
      OBVIOUS
    <3>5. q = [p EXCEPT !.modem = w.modem, !.cmd = x]
      BY <3>1, <3>2, <3>3, <3>4
    <3>6. "modem" \in DOMAIN p /\ "cmd" \in DOMAIN p /\ DOMAIN program = DOMAIN p /\ program.modem = w.modem
      BY <1>3, <1>5, <2>5 DEF IsWorld
    <3> QED
      BY <2>5, <3>4, <3>5, <3>6
  <2>8. PICK u : u = TellOrcadp(q, p.modem.orcadp_log, env)
    OBVIOUS
  <2>9. /\ u.modem = w.modem /\ u.cmd = SetValue(q.cmd, "orcadp", <<OnOff(orcadp)>>, yes)
        /\ u = [program EXCEPT !.cmd = u.cmd] /\ DOMAIN u = DOMAIN w
    <3>1. u = [q EXCEPT !.modem = [q.modem EXCEPT !.orcadp_log = p.modem.orcadp_log],
                        !.cmd = SetValue(q.cmd, "orcadp", <<OnOff(p.modem.orcadp_log)>>, env.writable)]
      BY <2>8, CmdSets DEF TellOrcadp
    <3>2. [q.modem EXCEPT !.orcadp_log = p.modem.orcadp_log] = w.modem
      BY <1>5, <2>5, <2>7 DEF FullModems
    <3>3. SetValue(q.cmd, "orcadp", <<OnOff(p.modem.orcadp_log)>>, env.writable)
            = SetValue(q.cmd, "orcadp", <<OnOff(orcadp)>>, yes)
      BY <1>9, <2>2, <2>5
    <3>4. PICK x : x = SetValue(q.cmd, "orcadp", <<OnOff(orcadp)>>, yes)
      OBVIOUS
    <3>5. u = [q EXCEPT !.modem = w.modem, !.cmd = x]
      BY <3>1, <3>2, <3>3, <3>4
    <3>6. "modem" \in DOMAIN q /\ "cmd" \in DOMAIN q /\ DOMAIN program = DOMAIN q /\ program.modem = w.modem
      BY <1>3, <1>5, <2>7 DEF IsWorld
    <3> QED
      BY <2>7, <3>4, <3>5, <3>6
  <2>10. u.cmd = cmd
    BY <1>10, <2>5, <2>7, <2>9 DEF Retold
  <2>11. program' = [u EXCEPT !.modem = [u.modem EXCEPT !.working = TRUE]]
    BY <2>4, <2>6, <2>8
  <2>12. program' = [u EXCEPT !.modem = m]
    BY <1>7, <2>9, <2>11
  <2> QED
    BY <2>9, <2>10, <2>12
<1>16. program' = [v EXCEPT !.work = NoFile, !.answer = <<>>]
  BY <1>3, <1>5, <1>13, <1>15 DEF IsWorld, Turned
<1> QED
  BY <1>1, <1>3, <1>14, <1>16, QuietStep

\* What holds between two steps, and that an error has changed nothing.
LEMMA AnyStep ==
  ASSUME IInv, [Next]_vars
  PROVE  IInv' /\ Harmless
<1>1. ASSUME NEW r \in Requests, Request(r)
      PROVE  IInv' /\ Harmless
  BY <1>1, RequestStep
<1>2. CASE ReopenCmdDev
  BY <1>2, ReopenStep
<1>3. CASE PowerOnStorFinish
  BY <1>3, PowerOnStep
<1>4. CASE ModemAssert
  BY <1>4, AssertStep
<1>5. CASE ModemAlive
  BY <1>5, AliveStep
<1>6. CASE Kill
  BY <1>6, KillStep
<1>7. CASE Restart
  BY <1>7, RestartStep
<1>8. CASE UNCHANGED vars
  BY <1>8, StutterStep
<1> QED
  BY <1>1, <1>2, <1>3, <1>4, <1>5, <1>6, <1>7, <1>8 DEF Next

------------------------------------------------------------------------------
(* What the runs check, for every instance.                                *)

\* The program, with its file, is a good world between any two steps.
THEOREM GoodAlways == Spec => []IInv
<1>1. IInv /\ [Next]_vars => IInv'
  BY AnyStep
<1> QED
  BY <1>1, InitGood, PTL DEF Spec

\* What the clients set and no file has is marked (m_dirty of LogConfig), whatever
\* requests came, failed to be saved, or came before a restart.
THEOREM UnsavedMarked == Spec => []UnsavedIsDirty
<1>1. IInv => UnsavedIsDirty
  <2> SUFFICES ASSUME IInv, Runs
               PROVE  program.conf.m_dirty \/ program.saved = Content(program.conf)
    BY DEF UnsavedIsDirty
  <2>1. PICK w : w = World
    OBVIOUS
  <2>2. Good(w) /\ w.conf = program.conf /\ w.saved = program.saved
    BY <2>1, WorldIs
  <2> QED
    BY <2>2 DEF Good, Clean
<1> QED
  BY <1>1, GoodAlways, PTL

\* The log handlers, the storage manager and the audio DSP have what LogConfig
\* says: set_log_mode(), the sizes and flags of the handlers, and what
\* create_handler() made them with.
THEOREM HandlersAgree == Spec => []HandlersFollow
<1>1. IInv => HandlersFollow
  <2> SUFFICES ASSUME IInv, Runs
               PROVE  HandlersFollow
    BY DEF HandlersFollow
  <2>1. PICK w : w = World
    OBVIOUS
  <2>2. /\ Good(w) /\ w.conf = program.conf /\ w.pipes = program.pipes /\ w.modem = program.modem
        /\ w.dsp = program.dsp /\ w.permit = program.permit
    BY <2>1, WorldIs
  <2>3. ASSUME NEW t \in Types, Present(program, t)
        PROVE  LET h == program.pipes[t]
                   e == Find(program.conf.m_config, t)
               IN /\ h.log_mode = e.mode \/ e.mode = "LM_EVENT"
                  /\ h.m_internal_max_size = e.internal_limit
                  /\ UserBuild \/ h.m_external_max_size = e.external_limit
                  /\ h.m_max_log_file_size = e.file_size_limit
                  /\ h.overwrite = e.overwrite \/ (t = WanModem /\ program.modem.mix)
    <3>1. Present(w, t)
      BY <2>2, <2>3 DEF Present
    <3>2. Follows(w.pipes[t], Find(w.conf.m_config, t), t, w.modem)
      BY <2>2, <3>1, PresentIs
    <3> QED
      BY <2>2, <3>2 DEF Follows
  <2>4. program.permit = program.conf.ext_stor_active
    BY <2>2 DEF Good
  <2>5. ASSUME HasModem(program)
        PROVE  /\ program.modem.save_md = program.conf.m_enable_md
               /\ program.modem.md_to_int = program.conf.m_md_save_to_int
               /\ program.modem.save_wcdma_iq = WcdmaIqEnabled(program.conf, WanModem)
    <3>1. HasModem(w)
      BY <2>2, <2>5 DEF HasModem, Present
    <3>2. ModemFollows(w.modem, w.conf)
      BY <2>2, <3>1, ModemIs
    <3>3. program.modem.save_wcdma_iq <=> WcdmaIqEnabled(program.conf, WanModem)
      BY <2>2, <3>2 DEF ModemFollows
    <3>4. program.modem.save_wcdma_iq \in BOOLEAN
      BY <2>2, <3>2 DEF ModemFollows, FullModems
    <3>5. WcdmaIqEnabled(program.conf, WanModem) \in BOOLEAN
      <4>1. PICK c : c = program.conf
        OBVIOUS
      <4>2. ConfigInv(c)
        BY <2>2, <4>1 DEF Good
      <4>3. Has(c.m_iq_config, WanModem) => Find(c.m_iq_config, WanModem) \in Iqs
        BY <4>2, FindIs DEF ConfigInv, Configs
      <4>4. WcdmaIqEnabled(c, WanModem) \in BOOLEAN
        BY <4>3 DEF WcdmaIqEnabled, Iqs
      <4> QED
        BY <4>1, <4>4
    <3> QED
      BY <2>2, <3>2, <3>3, <3>4, <3>5 DEF ModemFollows
  <2>6. ASSUME Present(program, "CT_AGDSP"), program.dsp.heard
        PROVE  /\ program.dsp.dest = program.conf.agdsp_log_dest
               /\ program.dsp.pcm = program.conf.agdsp_pcm_dump
    BY <2>2, <2>6 DEF Present, Good, DspFollows
  <2> QED
    BY <2>3, <2>4, <2>5, <2>6 DEF HandlersFollow
<1> QED
  BY <1>1, GoodAlways, PTL

\* What ModemCmdController was asked to tell the MODEM it has written to the device,
\* or keeps, with the timer set, until try_open() finds it.
THEOREM CommandsArrive == Spec => []CommandsReachModem
<1>1. IInv => CommandsReachModem
  <2> SUFFICES ASSUME IInv, Runs, HasModem(program), program.modem.working, NEW x \in Cmd!Settings
               PROVE  \/ program.cmd.owed[x] = Cmd!Nothing
                      \/ x \in {"dest", "pcm"} /\ program.modem.restarted
                      \/ Cmd!Delivered(program.cmd, x)
    BY DEF CommandsReachModem
  <2>1. PICK w : w = World
    OBVIOUS
  <2>2. Good(w) /\ w.pipes = program.pipes /\ w.modem = program.modem /\ w.cmd = program.cmd
    BY <2>1, WorldIs
  <2>3. HasModem(w) /\ w.modem.working
    BY <2>2 DEF HasModem, Present
  <2>4. CmdInv(w.cmd, w.modem.working, w.modem.restarted)
    BY <2>2, <2>3 DEF HasModem, Present, Good
  <2>5. PICK c : c = w.cmd
    OBVIOUS
  <2>6. /\ c.opened \/ c.timer
        /\ ~c.opened => c.owed[x] = Cmd!Nothing \/ IsKept(c, x)
        /\ c.opened => Claim(c, x, w.modem.working, w.modem.restarted)
    BY <2>4, <2>5 DEF CmdInv, CmdDue
  <2>7. Reached(c, x) /\ c.opened => Cmd!Delivered(c, x)
    BY DEF Reached, Cmd!Delivered, Range, Cmd!Range
  <2>8. IsKept(c, x) /\ ~c.opened /\ c.timer => Cmd!Delivered(c, x)
    BY DEF IsKept, Cmd!Delivered
  <2> QED
    BY <2>2, <2>3, <2>5, <2>6, <2>7, <2>8 DEF Claim
<1> QED
  BY <1>1, GoodAlways, PTL

\* A restart reads from the shipped and the working file what the settings mean:
\* save() and read_config() of LogConfig.
THEOREM SettingsReadBack == Spec => []SettingsSurvive
<1>1. IInv => SettingsSurvive
  <2> SUFFICES ASSUME IInv, Runs, ~program.conf.m_dirty, ~work.torn, Readable(program.conf)
               PROVE  Meaning(ReadConfig(Initial, work, build = "cmcc")) = Meaning(program.conf)
    BY DEF SettingsSurvive
  <2>1. PICK w : w = World
    OBVIOUS
  <2>2. Good(w) /\ w.conf = program.conf /\ w.work = work
    BY <2>1, WorldIs
  <2>3. Survives(w.work, w.conf)
    BY <2>2 DEF Good, Clean
  <2> QED
    BY <2>2, <2>3 DEF Survives, Cmcc
<1> QED
  BY <1>1, GoodAlways, PTL

\* A request that trans_result_to_req_result() answers with an error, or that is
\* refused when it is parsed, has changed neither settings, file nor handlers.
THEOREM ErrorsAreHarmless == Spec => ErrorChangesNothing
<1>1. IInv /\ [Next]_vars => Harmless
  BY AnyStep
<1>2. Harmless => (answer' # <<>> /\ answer'[1] \in Errors
                     => work' = work /\ Kept(program') = Kept(program))
  BY DEF Harmless
<1> QED
  BY <1>1, <1>2, GoodAlways, PTL DEF Spec, ErrorChangesNothing
=============================================================================
