---------------------------- MODULE ModulesProofs ----------------------------
(* Proofs about Modules, for all files and texts. *)
EXTENDS Modules, SequenceTheorems, TLAPS

(* What Modules says of the files, of any texts t.                         *)
Refused(t, f, d) ==
    \E e \in 1 .. d - 1 :
        /\ t[f].decls[e].kind = "import" /\ t[f].decls[e].from \in Files
        /\ t[t[f].decls[e].from].bad
        /\ t[t[f].decls[e].from].decls = <<>>

Declared(t, f, d, k) == /\ t[f].decls[d].kind = "declare"
                        /\ t[f].decls[d].name = k

(* One reference: taken for the file's own if it was declared before, and  *)
(* astray only for the name of a file.                                     *)
Taking(t, c, r) ==
    /\ r.to = "own" <=>
          \E d \in c.done : d < r.at
                            /\ Declared(t, c.file, d, t[c.file].decls[r.at].name)
    /\ r.to = "stray" =>
          \E f \in Files : FileName[f] = t[c.file].decls[r.at].name

(* One compilation: what it has passed over, which names it has, and that  *)
(* an error can be left over only from before its first declaration.       *)
Sound(t, c) ==
    /\ c.cur <= Len(t[c.file].decls) + 1
    /\ c.flag => t[c.file].bad /\ c.cur = 1
    /\ c.done \subseteq 1 .. c.cur - 1
    /\ \A d \in 1 .. c.cur - 1 : d \in c.done \/ Refused(t, c.file, d)
    /\ \A k \in Ids : k \in c.names <=>
                        \E d \in c.done : Declared(t, c.file, d, k)
    /\ \A r \in c.refs : r.at \in c.done /\ Taking(t, c, r)

(* A compilation is at an import of the file behind it.                    *)
AtImport(t, c, f) == /\ c.cur <= Len(t[c.file].decls)
                     /\ t[c.file].decls[c.cur].kind = "import"
                     /\ t[c.file].decls[c.cur].from = f

ModulesInv ==
    /\ texts \in Texts
    /\ TypeOK
    /\ \A i \in 1 .. Last : Sound(texts, work[i])
    /\ \A i \in 1 .. Last - 1 : AtImport(texts, work[i], work[i + 1].file)
    /\ ScannerFollows

-----------------------------------------------------------------------------
(* Texts *)

Declarations ==
    [kind : {"use", "declare", "export"}, name : Ids]
    \cup [kind : {"import", "inner"}, from : Files \cup Absent]
    \cup [kind : {"other"}]

(* Only declarations with a name have one, only imports a path.            *)
LEMMA TextTypes ==
    ASSUME NEW t \in Texts, NEW f \in Files
    PROVE  /\ t[f].bad \in BOOLEAN
           /\ t[f].decls \in Seq(Declarations)
           /\ \A i \in 1 .. Len(t[f].decls) :
                 /\ t[f].decls[i].kind \in {"use", "declare", "export"} =>
                        t[f].decls[i].name \in Ids
                 /\ t[f].decls[i].kind = "import" =>
                        t[f].decls[i].from \in Files \cup Absent
  <1>1. t \in [Files -> Text]
    BY ModulesAssumption
  <1>2. t[f] \in Text
    BY <1>1
  <1>3. t[f].bad \in BOOLEAN /\ t[f].decls \in Seq(Declarations)
    BY <1>2 DEF Text, Declarations
  <1>4. ASSUME NEW i \in 1 .. Len(t[f].decls)
        PROVE  t[f].decls[i] \in Declarations
    BY <1>3
  <1>5. ASSUME NEW d \in Declarations
        PROVE  /\ d.kind \in {"use", "declare", "export"} => d.name \in Ids
               /\ d.kind = "import" => d.from \in Files \cup Absent
    BY DEF Declarations
  <1> QED
    BY <1>3, <1>4, <1>5

(* The declaration after the current one is compiled: names and references *)
(* may have been added by it.                                              *)
LEMMA PassedSound ==
    ASSUME NEW t \in Texts, NEW c \in Compilations, Sound(t, c),
           c.cur <= Len(t[c.file].decls),
           NEW N \in SUBSET Ids, NEW R \in SUBSET [at : Nat, to : Taken],
           \A k \in Ids : k \in N <=>
               k \in c.names \/ Declared(t, c.file, c.cur, k),
           \A r \in R : r \in c.refs \/ (r.at = c.cur /\ Taking(t, c, r))
    PROVE  LET p == Passed([c EXCEPT !.names = N, !.refs = R])
           IN  /\ p \in Compilations /\ p.file = c.file /\ p.cur = c.cur + 1
               /\ Sound(t, p)
  <1> DEFINE p == Passed([c EXCEPT !.names = N, !.refs = R])
  <1>1. /\ c.file \in Files /\ c.cur \in Nat \ {0} /\ c.done \in SUBSET Nat
        /\ c.cwd \in BOOLEAN
    BY DEF Compilations
  <1>2. p = [file |-> c.file, cwd |-> c.cwd, cur |-> c.cur + 1,
             flag |-> FALSE, names |-> N, done |-> c.done \cup {c.cur},
             refs |-> R]
    <2> DEFINE q == [c EXCEPT !.names = N, !.refs = R]
    <2>1. q = [file |-> c.file, cwd |-> c.cwd, cur |-> c.cur, flag |-> c.flag,
               names |-> N, done |-> c.done, refs |-> R]
      <3>1. c = [file |-> c.file, cwd |-> c.cwd, cur |-> c.cur,
                 flag |-> c.flag, names |-> c.names, done |-> c.done,
                 refs |-> c.refs]
        BY DEF Compilations
      <3> DEFINE e == [c EXCEPT !.names = N]
      <3>2. e = [file |-> c.file, cwd |-> c.cwd, cur |-> c.cur,
                 flag |-> c.flag, names |-> N, done |-> c.done,
                 refs |-> c.refs]
        BY <3>1
      <3>3. q = [e EXCEPT !.refs = R]
        OBVIOUS
      <3> HIDE DEF q, e
      <3> QED
        BY <3>2, <3>3
    <2> HIDE DEF q
    <2>2. Passed(q) = [q EXCEPT !.cur = q.cur + 1, !.flag = FALSE,
                                !.done = q.done \cup {q.cur}]
      BY DEF Passed
    <2>3. Passed(q) = [file |-> q.file, cwd |-> q.cwd, cur |-> q.cur + 1,
                       flag |-> FALSE, names |-> q.names,
                       done |-> q.done \cup {q.cur}, refs |-> q.refs]
      BY <2>1, <2>2
    <2> QED
      BY <2>1, <2>3 DEF q
  <1> HIDE DEF p
  <1>3. p \in Compilations
    BY <1>1, <1>2 DEF Compilations
  <1>4. Len(t[c.file].decls) \in Nat
    BY <1>1, TextTypes
  <1>5. p.done \subseteq 1 .. p.cur - 1
    BY <1>1, <1>2 DEF Sound
  <1>6. \A d \in 1 .. p.cur - 1 : d \in p.done \/ Refused(t, p.file, d)
    BY <1>1, <1>2 DEF Sound
  <1>7. \A k \in Ids : k \in p.names <=>
                         \E d \in p.done : Declared(t, p.file, d, k)
    BY <1>2 DEF Sound
  <1>8. ASSUME NEW r \in p.refs PROVE r.at \in p.done /\ Taking(t, p, r)
    <2>1. r.at \in p.done /\ Taking(t, c, r) /\ r.at \in Nat /\ r.at <= c.cur
      BY <1>1, <1>2 DEF Sound
    <2>2. \A d \in p.done : d < r.at => d \in c.done
      BY <1>1, <1>2, <2>1
    <2> QED
      BY <1>2, <2>1, <2>2 DEF Taking
  <1>9. p.cur <= Len(t[p.file].decls) + 1
    BY <1>1, <1>2, <1>4
  <1> QED
    BY <1>2, <1>3, <1>5, <1>6, <1>7, <1>8, <1>9 DEF Sound, p

LEMMA PassedPlain ==
    ASSUME NEW t \in Texts, NEW c \in Compilations, Sound(t, c),
           c.cur <= Len(t[c.file].decls),
           \A k \in Ids : ~Declared(t, c.file, c.cur, k)
    PROVE  /\ Passed(c) \in Compilations /\ Passed(c).file = c.file
           /\ Passed(c).cur = c.cur + 1 /\ Sound(t, Passed(c))
  <1>1. PICK N \in SUBSET Ids : N = c.names
    BY DEF Compilations
  <1>2. PICK R \in SUBSET [at : Nat, to : Taken] : R = c.refs
    BY DEF Compilations
  <1> DEFINE d == [c EXCEPT !.names = N, !.refs = R]
  <1>3. d = c
    BY <1>1, <1>2 DEF Compilations
  <1>4. /\ \A k \in Ids : k \in N <=>
               k \in c.names \/ Declared(t, c.file, c.cur, k)
        /\ \A r \in R : r \in c.refs \/ (r.at = c.cur /\ Taking(t, c, r))
    BY <1>1, <1>2
  <1>5. /\ Passed(d) \in Compilations /\ Passed(d).file = c.file
        /\ Passed(d).cur = c.cur + 1 /\ Sound(t, Passed(d))
    BY <1>4, PassedSound
  <1> HIDE DEF d
  <1> QED
    BY <1>3, <1>5

-----------------------------------------------------------------------------
(* Steps *)

LEMMA TopTypes ==
    ASSUME ModulesInv
    PROVE  /\ Last \in Nat \ {0} /\ Top \in Compilations
           /\ Sound(texts, Top) /\ Top.file \in Files
           /\ Top.cur \in Nat \ {0} /\ Len(Decls(Top.file)) \in Nat
  <1>1. Last \in Nat \ {0} /\ Top \in Compilations /\ Sound(texts, Top)
    BY ModulesAssumption DEF ModulesInv, TypeOK, Last, Top
  <1>2. Top.file \in Files /\ Top.cur \in Nat \ {0}
    BY <1>1 DEF Compilations
  <1> QED
    BY <1>1, <1>2, TextTypes DEF ModulesInv, Decls

(* The topmost compilation goes on.                                        *)
LEMMA TopStep ==
    ASSUME ModulesInv, NEW p \in Compilations, p.file = Top.file,
           Sound(texts, p), work' = [work EXCEPT ![Last] = p],
           texts' = texts
    PROVE  /\ texts' \in Texts
           /\ work' \in Seq(Compilations) /\ Len(work') \in 1 .. DEPTH
           /\ (\A i \in 1 .. Last : Sound(texts, work[i]))'
           /\ (\A i \in 1 .. Last - 1 :
                   AtImport(texts, work[i], work[i + 1].file))'
           /\ Top' = p
  <1>1. /\ work \in Seq(Compilations) /\ Len(work) \in 1 .. DEPTH
        /\ Last \in 1 .. Len(work)
    BY TopTypes DEF ModulesInv, TypeOK, Last
  <1>2. /\ work' \in Seq(Compilations) /\ Len(work') = Len(work)
        /\ \A i \in 1 .. Len(work) : work'[i] = IF i = Last THEN p ELSE work[i]
    BY <1>1
  <1>3. \A i \in 1 .. Len(work) : Sound(texts', work'[i])
    BY <1>1, <1>2 DEF ModulesInv, Last
  <1>4. ASSUME NEW i \in 1 .. Len(work) - 1
        PROVE  AtImport(texts', work'[i], work'[i + 1].file)
    <2>1. /\ i \in 1 .. Len(work) /\ i + 1 \in 1 .. Len(work) /\ i # Last
          /\ Len(work) = Last
      BY <1>1 DEF Last
    <2>2. work'[i] = work[i] /\ work'[i + 1].file = work[i + 1].file
      <3>1. CASE i + 1 = Last
        BY <1>2, <2>1, <3>1 DEF Top
      <3>2. CASE i + 1 # Last
        BY <1>2, <2>1, <3>2
      <3> QED
        BY <3>1, <3>2
    <2> QED
      BY <2>1, <2>2 DEF ModulesInv
  <1>5. Top' = p /\ texts' \in Texts
    BY <1>1, <1>2 DEF Top, Last, ModulesInv
  <1> QED
    BY <1>1, <1>2, <1>3, <1>4, <1>5 DEF Last

(* A declaration is compiled and the scanner is behind it.                 *)
LEMMA FinishStep ==
    ASSUME ModulesInv, NEW kind, AtDecl(kind),
           NEW N \in SUBSET Ids, NEW R \in SUBSET [at : Nat, to : Taken],
           \A k \in Ids : k \in N <=>
               k \in Top.names \/ Declared(texts, Top.file, Top.cur, k),
           \A r \in R : r \in Top.refs
                        \/ (r.at = Top.cur /\ Taking(texts, Top, r)),
           Finish([Top EXCEPT !.names = N, !.refs = R]),
           texts' = texts, phase' \in {"compile", "dead"},
           DOMAIN modules' \subseteq {FileName[f] : f \in Files},
           \A n \in DOMAIN modules' : modules'[n] \in Ids
    PROVE  ModulesInv'
  <1> DEFINE p == Passed([Top EXCEPT !.names = N, !.refs = R])
  <1>1. /\ Top \in Compilations /\ Sound(texts, Top)
        /\ Top.cur \in Nat /\ texts \in Texts
        /\ Top.cur <= Len(texts[Top.file].decls)
        /\ scan = [file |-> Top.file, at |-> Top.cur] /\ Top.file \in Files
    BY TopTypes DEF ModulesInv, AtDecl, InStep, Decls
  <1>2. /\ p \in Compilations /\ p.file = Top.file /\ p.cur = Top.cur + 1
        /\ Sound(texts, p)
    BY <1>1, PassedSound
  <1>3. work' = [work EXCEPT ![Last] = p]
    BY DEF Finish
  <1> HIDE DEF p
  <1>4. /\ texts' \in Texts
        /\ work' \in Seq(Compilations) /\ Len(work') \in 1 .. DEPTH
        /\ (\A i \in 1 .. Last : Sound(texts, work[i]))'
        /\ (\A i \in 1 .. Last - 1 :
                AtImport(texts, work[i], work[i + 1].file))'
        /\ Top' = p
    BY <1>2, <1>3, TopStep
  <1>5. scan' = [file |-> p.file, at |-> p.cur]
    BY <1>1, <1>2 DEF Finish
  <1>6. ScannerFollows'
    BY <1>4, <1>5 DEF ScannerFollows, InStep
  <1>7. TypeOK'
    BY <1>1, <1>2, <1>4, <1>5 DEF TypeOK, ModulesInv
  <1> QED
    BY <1>4, <1>6, <1>7 DEF ModulesInv

(* A declaration that is neither a use nor a declaration of a name.        *)
LEMMA PlainStep ==
    ASSUME ModulesInv, NEW kind, AtDecl(kind), kind \notin {"use", "declare"},
           Finish(Top), texts' = texts, phase' = phase,
           DOMAIN modules' \subseteq {FileName[f] : f \in Files},
           \A n \in DOMAIN modules' : modules'[n] \in Ids
    PROVE  ModulesInv'
  <1>1. /\ Top \in Compilations /\ phase = "compile"
        /\ texts[Top.file].decls[Top.cur].kind = kind
    BY TopTypes DEF AtDecl, Decl, Decls
  <1>2. Top = [Top EXCEPT !.names = Top.names, !.refs = Top.refs]
    BY <1>1 DEF Compilations
  <1>3. /\ Top.names \in SUBSET Ids /\ Top.refs \in SUBSET [at : Nat, to : Taken]
        /\ \A k : ~Declared(texts, Top.file, Top.cur, k)
    BY <1>1 DEF Compilations, Declared
  <1>4. Finish([Top EXCEPT !.names = Top.names, !.refs = Top.refs])
    BY <1>2
  <1> QED
    BY <1>1, <1>3, <1>4, FinishStep

LEMMA UseStep ==
    ASSUME ModulesInv, Use
    PROVE  ModulesInv'
  <1> DEFINE k == Decl.name
             r == [at |-> Top.cur, to |-> Resolved(Top, k)]
             R == Top.refs \cup {r}
  <1>1. /\ Top \in Compilations /\ Sound(texts, Top) /\ Top.file \in Files
        /\ Top.cur \in Nat \ {0} /\ phase = "compile" /\ AtDecl("use")
        /\ texts[Top.file].decls[Top.cur].kind = "use"
        /\ k = texts[Top.file].decls[Top.cur].name
        /\ Top.cur \in 1 .. Len(texts[Top.file].decls)
        /\ texts \in Texts
    BY TopTypes DEF Use, AtDecl, Decl, Decls, ModulesInv
  <1>2. k \in Ids
    BY <1>1, TextTypes
  <1>3. DOMAIN modules \subseteq {FileName[f] : f \in Files}
        /\ \A n \in DOMAIN modules : modules[n] \in Ids
    BY DEF ModulesInv, TypeOK
  <1>4. /\ Resolved(Top, k) \in Taken
        /\ Resolved(Top, k) = "own" <=> k \in Top.names
        /\ Resolved(Top, k) = "stray" => k \in DOMAIN modules
    BY DEF Resolved, Taken
  <1>5. Taking(texts, Top, r)
    <2>1. k \in Top.names <=>
             \E d \in Top.done : d < Top.cur /\ Declared(texts, Top.file, d, k)
      BY <1>1, <1>2 DEF Sound
    <2>2. r.at = Top.cur /\ r.to = Resolved(Top, k)
      OBVIOUS
    <2>3. r.to = "stray" => \E f \in Files : FileName[f] = k
      BY <1>3, <1>4, <2>2
    <2> HIDE DEF r
    <2> QED
      BY <1>1, <1>4, <2>1, <2>2, <2>3 DEF Taking
  <1>6. R \in SUBSET [at : Nat, to : Taken] /\ Top.names \in SUBSET Ids
    BY <1>1, <1>4 DEF Compilations
  <1>7. Top = [Top EXCEPT !.names = Top.names]
    BY <1>1 DEF Compilations
  <1>8. [Top EXCEPT !.refs = R]
          = [Top EXCEPT !.names = Top.names, !.refs = R]
    BY <1>7
  <1>9. Finish([Top EXCEPT !.refs = R])
    BY DEF Use
  <1>10. /\ Finish([Top EXCEPT !.names = Top.names, !.refs = R])
         /\ texts' = texts /\ UNCHANGED modules
         /\ phase' \in {"compile", "dead"}
    BY <1>1, <1>8, <1>9 DEF Use
  <1>11. \A j \in Ids : ~Declared(texts, Top.file, Top.cur, j)
    BY <1>1 DEF Declared
  <1>12. \A q \in R : q \in Top.refs \/ (q.at = Top.cur /\ Taking(texts, Top, q))
    BY <1>5
  <1> HIDE DEF R, r, k
  <1> QED
    BY <1>1, <1>3, <1>6, <1>10, <1>11, <1>12, FinishStep

LEMMA DeclareStep ==
    ASSUME ModulesInv, Declare
    PROVE  ModulesInv'
  <1>1. CASE Decl.name \in Top.names
    <2>1. /\ phase' = "exited"
          /\ UNCHANGED <<texts, work, scan, modules>>
      BY <1>1 DEF Declare
    <2> QED
      BY <2>1 DEF ModulesInv, TypeOK, ScannerFollows, Last
  <1>2. CASE Decl.name \notin Top.names
    <2> DEFINE N == Top.names \cup {Decl.name}
    <2>1. /\ Top \in Compilations /\ Top.file \in Files /\ texts \in Texts
          /\ Top.cur \in 1 .. Len(texts[Top.file].decls)
          /\ Decl = texts[Top.file].decls[Top.cur] /\ Decl.kind = "declare"
          /\ phase = "compile" /\ AtDecl("declare")
      BY TopTypes DEF Declare, AtDecl, Decl, Decls, ModulesInv
    <2>2. Decl.name \in Ids
      BY <2>1, TextTypes
    <2>3. /\ N \in SUBSET Ids /\ Top.refs \in SUBSET [at : Nat, to : Taken]
          /\ \A k \in Ids : k \in N <=> k \in Top.names
                                \/ Declared(texts, Top.file, Top.cur, k)
      BY <2>1, <2>2 DEF Compilations, Declared
    <2>4. [Top EXCEPT !.names = N]
            = [Top EXCEPT !.names = N, !.refs = Top.refs]
      BY <2>1 DEF Compilations
    <2>5. /\ Finish([Top EXCEPT !.names = N])
          /\ texts' = texts /\ UNCHANGED <<phase, modules>>
      BY <1>2 DEF Declare
    <2>6. Finish([Top EXCEPT !.names = N, !.refs = Top.refs])
      BY <2>4, <2>5
    <2>7. DOMAIN modules' \subseteq {FileName[f] : f \in Files}
          /\ \A n \in DOMAIN modules' : modules'[n] \in Ids
      BY <2>5 DEF ModulesInv, TypeOK
    <2> HIDE DEF N
    <2> QED
      BY <2>1, <2>3, <2>5, <2>6, <2>7, FinishStep
  <1> QED
    BY <1>1, <1>2

LEMMA ExportStep ==
    ASSUME ModulesInv, Export
    PROVE  ModulesInv'
  <1>1. /\ Top.file \in Files /\ texts \in Texts
        /\ Top.cur \in 1 .. Len(texts[Top.file].decls)
        /\ Decl = texts[Top.file].decls[Top.cur] /\ Decl.kind = "export"
        /\ AtDecl("export")
    BY TopTypes DEF Export, AtDecl, Decl, Decls, ModulesInv
  <1>2. Decl.name \in Ids
    BY <1>1, TextTypes
  <1>3. Exported(Top, Decl.name) \subseteq {FileName[f] : f \in Files}
    BY <1>1 DEF Exported
  <1>4. DOMAIN modules \subseteq {FileName[f] : f \in Files}
        /\ \A n \in DOMAIN modules : modules[n] \in Ids
    BY DEF ModulesInv, TypeOK
  <1>5. DOMAIN modules' \subseteq {FileName[f] : f \in Files}
        /\ \A n \in DOMAIN modules' : modules'[n] \in Ids
    BY <1>2, <1>3, <1>4 DEF Export
  <1>6. Finish(Top) /\ texts' = texts /\ phase' = phase
    BY DEF Export
  <1> QED
    BY <1>1, <1>5, <1>6, PlainStep

(* The file is compiled from its beginning, with a compilation of its own. *)
LEMMA StartSound ==
    ASSUME NEW t \in Texts, t = texts, NEW f \in Files, NEW repl \in BOOLEAN
    PROVE  LET c == Compilation(f, repl)
           IN  /\ c \in Compilations /\ c.file = f /\ c.cur = 1
               /\ Sound(t, c)
  <1> DEFINE c == Compilation(f, repl)
  <1>1. /\ c.file = f /\ c.cwd = ~repl /\ c.cur = 1 /\ c.flag = t[f].bad
        /\ c.names = {} /\ c.done = {} /\ c.refs = {}
    BY DEF Compilation
  <1>2. c \in Compilations
    BY TextTypes DEF Compilation, Compilations
  <1>3. Len(t[f].decls) \in Nat
    BY TextTypes
  <1> HIDE DEF c
  <1>4. Sound(t, c)
    BY <1>1, <1>3 DEF Sound
  <1> QED
    BY <1>1, <1>2, <1>4 DEF c

LEMMA ImportStep ==
    ASSUME ModulesInv, Import
    PROVE  ModulesInv'
  <1>1. CASE Last = DEPTH
    <2>1. phase' = "dead" /\ UNCHANGED <<texts, work, scan, modules>>
      BY <1>1 DEF Import
    <2> QED
      BY <2>1 DEF ModulesInv, TypeOK, ScannerFollows, Last
  <1>2. CASE Last # DEPTH
    <2> DEFINE c == Compilation(Decl.from, FALSE)
    <2>1. /\ Decl.from \in Files /\ texts \in Texts
          /\ Top.cur <= Len(texts[Top.file].decls)
          /\ texts[Top.file].decls[Top.cur].kind = "import"
          /\ texts[Top.file].decls[Top.cur].from = Decl.from
          /\ phase = "compile"
      BY DEF Import, AtDecl, Decl, Decls, ModulesInv
    <2>2. /\ c \in Compilations /\ c.file = Decl.from /\ c.cur = 1
          /\ Sound(texts, c)
      BY <2>1, StartSound
    <2>3. /\ work' = Append(work, c) /\ scan' = [file |-> Decl.from, at |-> 1]
          /\ UNCHANGED <<texts, modules, phase>>
      BY <1>2 DEF Import, Start
    <2> HIDE DEF c
    <2>4. /\ work \in Seq(Compilations) /\ Len(work) \in 1 .. DEPTH
          /\ Last = Len(work) /\ DEPTH \in Nat
      BY ModulesAssumption DEF ModulesInv, TypeOK, Last
    <2>5. /\ work' \in Seq(Compilations) /\ Len(work') = Len(work) + 1
          /\ \A i \in 1 .. Len(work) : work'[i] = work[i]
          /\ work'[Len(work) + 1] = c
      BY <2>2, <2>3, <2>4
    <2>6. Len(work') \in 1 .. DEPTH
      BY <1>2, <2>4, <2>5
    <2>7. \A i \in 1 .. Len(work') : Sound(texts', work'[i])
      <3> SUFFICES ASSUME NEW i \in 1 .. Len(work')
                   PROVE  Sound(texts, work'[i])
        BY <2>3
      <3>1. CASE i = Len(work) + 1
        BY <2>2, <2>5, <3>1
      <3>2. CASE i \in 1 .. Len(work)
        BY <2>5, <3>2 DEF ModulesInv, Last
      <3> QED
        BY <2>4, <2>5, <3>1, <3>2
    <2>8. ASSUME NEW i \in 1 .. Len(work') - 1
          PROVE  AtImport(texts', work'[i], work'[i + 1].file)
      <3>1. CASE i = Len(work)
        <4>1. work'[i] = Top /\ work'[i + 1].file = Decl.from
          BY <2>2, <2>4, <2>5, <3>1 DEF Top
        <4> QED
          BY <2>1, <2>3, <4>1 DEF AtImport
      <3>2. CASE i \in 1 .. Len(work) - 1
        <4>1. work'[i] = work[i] /\ work'[i + 1] = work[i + 1]
          BY <2>4, <2>5, <3>2
        <4> QED
          BY <2>3, <3>2, <4>1 DEF ModulesInv, Last
      <3> QED
        BY <2>4, <2>5, <3>1, <3>2
    <2>9. Top' = c
      BY <2>4, <2>5 DEF Top, Last
    <2>10. ScannerFollows'
      BY <2>2, <2>3, <2>9 DEF ScannerFollows, InStep
    <2>11. TypeOK'
      BY <2>1, <2>3, <2>5, <2>6 DEF TypeOK, ModulesInv
    <2> QED
      BY <2>1, <2>3, <2>7, <2>8, <2>10, <2>11 DEF ModulesInv, Last
  <1> QED
    BY <1>1, <1>2

(* What is passed over lies behind the declaration the scanner lost.       *)
LEMMA TruncatedStep ==
    ASSUME ModulesInv, Truncated
    PROVE  ModulesInv'
  <1> DEFINE n == Len(texts[Top.file].decls)
             p == [Top EXCEPT !.cur = n + 1, !.flag = FALSE]
  <1>1. /\ Top \in Compilations /\ Sound(texts, Top) /\ Top.file \in Files
        /\ Top.cur \in Nat \ {0} /\ n \in Nat /\ Top.cur <= n
        /\ phase = "compile" /\ ~InStep(Top)
    BY TopTypes DEF Truncated, Decls
  <1>2. \E e \in 1 .. Top.cur - 1 :
           /\ texts[Top.file].decls[e].kind = "import"
           /\ texts[Top.file].decls[e].from \in Files
           /\ texts[texts[Top.file].decls[e].from].bad
           /\ texts[texts[Top.file].decls[e].from].decls = <<>>
    BY <1>1 DEF ModulesInv, ScannerFollows, RefusedBefore, Decls
  <1>3. \A d \in Top.cur .. n : Refused(texts, Top.file, d)
    BY <1>1, <1>2 DEF Refused
  <1>4. work' = [work EXCEPT ![Last] = p]
        /\ UNCHANGED <<texts, scan, modules, phase>>
    <2>1. work' = [work EXCEPT ![Last] = [work[Last] EXCEPT
                      !.cur = Len(Decls(Top.file)) + 1, !.flag = FALSE]]
      BY DEF Truncated
    <2> QED
      BY <2>1 DEF Truncated, Top, Decls
  <1>5. /\ p \in Compilations /\ p.file = Top.file /\ p.cur = n + 1
        /\ p.flag = FALSE /\ p.names = Top.names /\ p.done = Top.done
        /\ p.refs = Top.refs
    <2>1. Top = [file |-> Top.file, cwd |-> Top.cwd, cur |-> Top.cur,
                 flag |-> Top.flag, names |-> Top.names, done |-> Top.done,
                 refs |-> Top.refs]
      BY <1>1 DEF Compilations
    <2>2. p = [file |-> Top.file, cwd |-> Top.cwd, cur |-> n + 1,
               flag |-> FALSE, names |-> Top.names, done |-> Top.done,
               refs |-> Top.refs]
      <3> DEFINE e == [Top EXCEPT !.cur = n + 1]
      <3>1. e = [file |-> Top.file, cwd |-> Top.cwd, cur |-> n + 1,
                 flag |-> Top.flag, names |-> Top.names, done |-> Top.done,
                 refs |-> Top.refs]
        BY <2>1
      <3>2. p = [e EXCEPT !.flag = FALSE]
        OBVIOUS
      <3> HIDE DEF p, e
      <3> QED
        BY <3>1, <3>2
    <2> HIDE DEF p, n
    <2>3. /\ Top.file \in Files /\ Top.cwd \in BOOLEAN
          /\ Top.names \in SUBSET Ids /\ Top.done \in SUBSET Nat
          /\ Top.refs \in SUBSET [at : Nat, to : Taken]
      BY <1>1 DEF Compilations
    <2>4. p \in Compilations
      BY <1>1, <2>2, <2>3 DEF Compilations
    <2> QED
      BY <2>2, <2>4
  <1> HIDE DEF p
  <1>6. Sound(texts, p)
    <2>1. \A r : Taking(texts, Top, r) <=> Taking(texts, p, r)
      BY <1>5 DEF Taking
    <2>2. p.done \subseteq 1 .. p.cur - 1
      BY <1>1, <1>5 DEF Sound
    <2>3. \A d \in 1 .. p.cur - 1 : d \in p.done \/ Refused(texts, p.file, d)
      BY <1>1, <1>3, <1>5 DEF Sound
    <2>4. \A k \in Ids : k \in p.names <=>
                           \E d \in p.done : Declared(texts, p.file, d, k)
      BY <1>1, <1>5 DEF Sound
    <2>5. \A r \in p.refs : r.at \in p.done /\ Taking(texts, p, r)
      BY <1>1, <1>5, <2>1 DEF Sound
    <2> QED
      BY <1>1, <1>5, <2>2, <2>3, <2>4, <2>5 DEF Sound
  <1>7. /\ texts' \in Texts
        /\ work' \in Seq(Compilations) /\ Len(work') \in 1 .. DEPTH
        /\ (\A i \in 1 .. Last : Sound(texts, work[i]))'
        /\ (\A i \in 1 .. Last - 1 :
                AtImport(texts, work[i], work[i + 1].file))'
        /\ Top' = p
    BY <1>4, <1>5, <1>6, TopStep
  <1>8. ScannerFollows'
    BY <1>1, <1>4, <1>5, <1>7 DEF ScannerFollows, Decls
  <1>9. TypeOK'
    BY <1>4, <1>7 DEF TypeOK, ModulesInv
  <1> QED
    BY <1>7, <1>8, <1>9 DEF ModulesInv

(* The importer goes on.  Only a text without declarations, before which   *)
(* nothing was a token, leaves the flag set.                               *)
LEMMA ResumeStep ==
    ASSUME ModulesInv, Resume
    PROVE  ModulesInv'
  <1> DEFINE c == work[Last - 1]
             p == Passed(c)
             q == SubSeq(work, 1, Last - 1)
  <1>1. /\ work \in Seq(Compilations) /\ Len(work) \in 1 .. DEPTH
        /\ Last = Len(work) /\ Last > 1 /\ Last \in Nat /\ DEPTH \in Nat
        /\ phase = "compile" /\ texts \in Texts
    BY ModulesAssumption DEF ModulesInv, TypeOK, Last, Resume, AtEnd
  <1>2. /\ c \in Compilations /\ Sound(texts, c)
        /\ AtImport(texts, c, Top.file)
    BY <1>1 DEF ModulesInv, Top, Last
  <1>3. /\ c.names \in SUBSET Ids /\ c.refs \in SUBSET [at : Nat, to : Taken]
        /\ c.file \in Files /\ c.cur \in Nat \ {0}
        /\ \A k : ~Declared(texts, c.file, c.cur, k)
        /\ c.cur <= Len(texts[c.file].decls)
    BY <1>2 DEF Compilations, AtImport, Declared
  <1>4. /\ p \in Compilations /\ p.file = c.file /\ p.cur = c.cur + 1
        /\ Sound(texts, p)
    <2> HIDE DEF c
    <2> QED
      BY <1>1, <1>2, <1>3, PassedPlain
  <1>5. /\ work' = [q EXCEPT ![Last - 1] = p]
        /\ scan' = IF Top.flag THEN scan ELSE [file |-> p.file, at |-> p.cur]
        /\ UNCHANGED <<texts, modules, phase>>
    BY DEF Resume, Restored
  <1>6. /\ q \in Seq(Compilations) /\ Len(q) = Last - 1
        /\ \A i \in 1 .. Last - 1 : q[i] = work[i]
    BY <1>1
  <1> HIDE DEF q, p
  <1>7. /\ work' \in Seq(Compilations) /\ Len(work') = Last - 1
        /\ \A i \in 1 .. Last - 1 :
               work'[i] = IF i = Last - 1 THEN p ELSE work[i]
    BY <1>1, <1>4, <1>5, <1>6
  <1>8. \A i \in 1 .. Len(work') : Sound(texts', work'[i])
    BY <1>1, <1>4, <1>5, <1>7 DEF ModulesInv, Last
  <1>9. ASSUME NEW i \in 1 .. Len(work') - 1
        PROVE  AtImport(texts', work'[i], work'[i + 1].file)
    <2>1. /\ i \in 1 .. Last - 2 /\ i \in 1 .. Last - 1 /\ i # Last - 1
          /\ i + 1 \in 1 .. Last - 1
      BY <1>1, <1>7
    <2>2. work'[i] = work[i] /\ work'[i + 1].file = work[i + 1].file
      <3>1. CASE i + 1 = Last - 1
        BY <1>4, <1>7, <2>1, <3>1
      <3>2. CASE i + 1 # Last - 1
        BY <1>7, <2>1, <3>2
      <3> QED
        BY <3>1, <3>2
    <2> QED
      BY <1>5, <2>1, <2>2 DEF ModulesInv
  <1>10. Top' = p
    BY <1>1, <1>7 DEF Top, Last
  <1>11. ScannerFollows'
    <2>1. CASE Top.flag
      <3>1. /\ Sound(texts, Top) /\ Top.file \in Files
            /\ Top.cur > Len(Decls(Top.file))
            /\ Len(Decls(Top.file)) \in Nat
        BY TopTypes DEF Resume, AtEnd
      <3>2. texts[Top.file].bad /\ Len(texts[Top.file].decls) = 0
        BY <2>1, <3>1 DEF Sound, Decls
      <3>3. texts[Top.file].decls = <<>>
        BY <1>1, <3>1, <3>2, TextTypes
      <3>4. \E e \in 1 .. p.cur - 1 :
               /\ texts[p.file].decls[e].kind = "import"
               /\ texts[p.file].decls[e].from \in Files
               /\ texts[texts[p.file].decls[e].from].bad
               /\ texts[texts[p.file].decls[e].from].decls = <<>>
        <4>1. c.cur \in 1 .. p.cur - 1
          BY <1>3, <1>4
        <4>2. /\ texts[p.file].decls[c.cur].kind = "import"
              /\ texts[p.file].decls[c.cur].from = Top.file
          BY <1>2, <1>4 DEF AtImport
        <4> QED
          BY <3>1, <3>2, <3>3, <4>1, <4>2
      <3>5. RefusedBefore(Top.file, Top.cur)'
        BY <1>5, <1>10, <3>4 DEF RefusedBefore, Decls
      <3> QED
        BY <3>5 DEF ScannerFollows
    <2>2. CASE ~Top.flag
      BY <1>5, <1>10, <2>2 DEF ScannerFollows, InStep
    <2> QED
      BY <2>1, <2>2
  <1>12. TypeOK'
    <2>1. scan' \in [file : Files, at : Nat]
      BY <1>3, <1>4, <1>5 DEF ModulesInv, TypeOK
    <2> QED
      BY <1>1, <1>5, <1>7, <2>1 DEF TypeOK, ModulesInv
  <1> QED
    BY <1>1, <1>5, <1>8, <1>9, <1>11, <1>12 DEF ModulesInv, Last

LEMMA ModulesInit == Init => ModulesInv
  <1> SUFFICES ASSUME Init PROVE ModulesInv
    OBVIOUS
  <1> PICK f \in Mains, repl \in BOOLEAN :
         /\ work = <<Compilation(f, repl)>>
         /\ scan = Start(f)
    BY DEF Init
  <1> DEFINE c == Compilation(f, repl)
  <1>1. f \in Files /\ DEPTH \in Nat \ {0} /\ texts \in Texts
    BY ModulesAssumption DEF Init
  <1>2. c \in Compilations /\ c.file = f /\ c.cur = 1 /\ Sound(texts, c)
    BY <1>1, StartSound
  <1> HIDE DEF c
  <1>3. work = <<c>>
    BY DEF c
  <1>4. /\ work \in Seq(Compilations) /\ Len(work) = 1 /\ work[1] = c
        /\ Last = 1 /\ Top = c
    BY <1>2, <1>3 DEF Last, Top
  <1>5. TypeOK
    BY <1>1, <1>4 DEF Init, TypeOK, Start
  <1>6. \A i \in 1 .. Last : Sound(texts, work[i])
    BY <1>2, <1>4
  <1>7. \A i \in 1 .. Last - 1 : AtImport(texts, work[i], work[i + 1].file)
    BY <1>4
  <1>8. ScannerFollows
    BY <1>2, <1>4 DEF ScannerFollows, InStep, Start
  <1> QED
    BY <1>1, <1>5, <1>6, <1>7, <1>8 DEF ModulesInv

LEMMA ModulesNext == ModulesInv /\ [Next]_vars => ModulesInv'
  <1> SUFFICES ASSUME ModulesInv, [Next]_vars PROVE ModulesInv'
    OBVIOUS
  <1>1. /\ DOMAIN modules \subseteq {FileName[f] : f \in Files}
        /\ \A n \in DOMAIN modules : modules[n] \in Ids
    BY DEF ModulesInv, TypeOK
  <1>2. CASE Other
    BY <1>1, <1>2, PlainStep DEF Other
  <1>3. CASE Use
    BY <1>3, UseStep
  <1>4. CASE Declare
    BY <1>4, DeclareStep
  <1>5. CASE Export
    BY <1>5, ExportStep
  <1>6. CASE Inner
    BY <1>1, <1>6, PlainStep DEF Inner
  <1>7. CASE ImportNothing
    BY <1>1, <1>7, PlainStep DEF ImportNothing
  <1>8. CASE Import
    BY <1>8, ImportStep
  <1>9. CASE NoPath
    BY <1>9 DEF NoPath, ModulesInv, TypeOK, ScannerFollows, Last
  <1>10. CASE Truncated
    BY <1>10, TruncatedStep
  <1>11. CASE Resume
    BY <1>11, ResumeStep
  <1>12. CASE Done
    <2>1. /\ phase' \in {"refused", "compiled"}
          /\ UNCHANGED <<texts, work, scan, modules>>
      BY <1>12 DEF Done
    <2> QED
      BY <2>1 DEF ModulesInv, TypeOK, ScannerFollows, Last
  <1>13. CASE UNCHANGED vars
    BY <1>13 DEF vars, ModulesInv, TypeOK, ScannerFollows, Last, Top, InStep,
                 RefusedBefore, Decls
  <1> QED
    BY <1>2, <1>3, <1>4, <1>5, <1>6, <1>7, <1>8, <1>9, <1>10, <1>11, <1>12,
       <1>13 DEF Next

(* What the invariant says of a compilation is what the properties say.    *)
LEMMA InvImplies ==
    ModulesInv => LostBehindRefused /\ ScannerFollows /\ NamesPrivate
  <1> SUFFICES ASSUME ModulesInv
               PROVE  LostBehindRefused /\ ScannerFollows /\ NamesPrivate
    OBVIOUS
  <1>1. LostBehindRefused
    BY DEF ModulesInv, LostBehindRefused, Sound, Refused, RefusedBefore, Decls
  <1>2. ASSUME NEW i \in 1 .. Last, NEW r \in work[i].refs
        PROVE  Taking(texts, work[i], r)
    BY <1>2 DEF ModulesInv, Sound
  <1>3. NamesPrivate
    BY <1>2 DEF NamesPrivate, Taking, Declared, Declares, Decls
  <1> QED
    BY <1>1, <1>3 DEF ModulesInv

(* Whatever files import one another, and however: types are kept.         *)
THEOREM ModulesTypes == Spec => []TypeOK
  <1>1. ModulesInv => TypeOK
    BY DEF ModulesInv
  <1> QED
    BY <1>1, ModulesInit, ModulesNext, PTL DEF Spec

(* Whatever files import one another, and however: nothing of a file is    *)
(* passed over but behind an import of a text without any token, which the *)
(* compiler takes for the end of the importing file.                       *)
THEOREM ModulesRefuse == Spec => []LostBehindRefused
  BY ModulesInit, ModulesNext, InvImplies, PTL DEF Spec

(* The one scanner is where the compilation that runs believes it to be,   *)
(* at every depth of importing.                                            *)
THEOREM ModulesFollow == Spec => []ScannerFollows
  BY ModulesInit, ModulesNext, InvImplies, PTL DEF Spec

(* A name that a file takes for its own is one it declared before, and     *)
(* every such name is taken so: importing adds none and takes none away.   *)
(* That holds of exported names too, against what ExportsSeen states.      *)
THEOREM ModulesPrivate == Spec => []NamesPrivate
  BY ModulesInit, ModulesNext, InvImplies, PTL DEF Spec
=============================================================================
