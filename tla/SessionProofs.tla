---------------------------- MODULE SessionProofs ----------------------------
(***************************************************************************)
(* That a name stands for what was declared under it (UsesMeant), and what *)
(* a file or session can die of (Survives), for all texts, natives, limits *)
(* and numbers of lines.                                                   *)
(***************************************************************************)
EXTENDS Session, TLAPS

Bodies == Functions_ \cup {Script}
Instrs == [op : {"set", "call", "var", "if"}, num : Int,
           name : Names \cup Keywords \cup Vars \cup {Junk}, to : Vars \cup {Junk}]
Blocks == [op : {"function", "if"}, into : Bodies, i : Nat]
Resumes == [at : Bodies, next : Nat \ {0}]

(* What an instruction does to a name, or where it may jump.               *)
SetsAt(b, i, n) == i \in DOMAIN code[b] /\ code[b][i].op = "set" /\ code[b][i].name = n
UsesAt(b, i, n) == /\ i \in DOMAIN code[b] /\ code[b][i].op \in {"call", "var"}
                   /\ code[b][i].num >= 0 /\ code[b][i].name = n
JumpsAt(b, i, t) == i \in DOMAIN code[b] /\ code[b][i].op = "if" /\ code[b][i].num = t

(* Types, as far as the argument needs them.                               *)
Types ==
    /\ mode \in {"file", "session"}
    /\ text \in Seq(Statement)
    /\ Keywords \subseteq DOMAIN names /\ DOMAIN names \subseteq Names \cup Keywords
    /\ \A n \in DOMAIN names : names[n].num \in Nat
    /\ nested \subseteq DOMAIN names
    /\ code \in [Bodies -> Seq(Instrs)]
    /\ \A b \in Bodies : \A i, t : JumpsAt(b, i, t) => t \in Nat \ {0}
    /\ obj = [size |-> obj.size, len |-> obj.len, cells |-> obj.cells]
    /\ obj.size \in Nat /\ obj.len \in Nat \ {0}
    /\ native \in Nat /\ count \in Nat /\ next \in Nat \ {0}
    /\ at \in Bodies /\ calls \in Seq(Resumes)
    /\ gen \in Nat \ {0}
    /\ stored \in [Names \cup Keywords -> 0 .. gen]
    /\ \A n \in DOMAIN stored : stored[n] # 0 => n \in DOMAIN names

(* A block writes to a function that has a name, and its jump is there.    *)
Opened ==
    /\ open \in Seq(Blocks)
    /\ \A k \in DOMAIN open : \A b, i : open[k].into = b /\ open[k].i = i =>
          /\ open[k].op = "function" => b \in Functions_ \cap DOMAIN names
          /\ open[k].op = "if" => \E t : JumpsAt(b, i, t)

(* An object that the conditions leave alone is where its number says.     *)
Placed ==
    \A n \in DOMAIN names :
        Lost(n) \/ Shared(n) \/ Outside(n)
        \/ /\ names[n].num \in DOMAIN obj.cells
           /\ obj.cells[names[n].num] = n

CodeRefers ==
    \A b \in Bodies : \A i, n :
        SetsAt(b, i, n) \/ UsesAt(b, i, n) =>
            n \in DOMAIN names /\ names[n].num = code[b][i].num

Active == phase \in {"compile", "run"}

Unused == phase = "compile" => used = None

-----------------------------------------------------------------------------
(* In a file numbers are distinct, and grow from name to name.             *)
FileNames ==
    /\ \A k \in Keywords : names[k].num < First /\ Natives[names[k].num + 1] = k
    /\ \A n \in DOMAIN names \ Keywords : names[n].num \in First .. count - 1
    /\ \A m, n \in DOMAIN names : names[m].num = names[n].num => m = n
    /\ count >= First

(* The names that are declared in no body and no block, and those of them  *)
(* that are not declared behind f.                                         *)
Tops == DOMAIN names \ (Keywords \cup nested)
Before(n, f) == n \in Tops /\ names[n].num <= names[f].num

(* What is declared while a function or a block is open is nested.         *)
Enclosing ==
    \A k \in DOMAIN open : \A b, i : open[k].into = b /\ open[k].i = i =>
        /\ b # Script => b \in DOMAIN names /\ \A n \in Tops : Before(n, b)
        /\ open[k].op = "function" /\ k # 1 => b \in nested
        /\ open[1].op = "function" => b # Script
        /\ open[k].op = "if" /\ b = Script =>
              \A j \in Nat : \A n : SetsAt(Script, j, n) /\ j > i => n \in nested

(* A function's code knows what is declared at the top before it.          *)
Bodied ==
    \A b \in Functions_ : \A i, n :
        /\ UsesAt(b, i, n) /\ n \in Tops => b \in DOMAIN names /\ Before(n, b)
        /\ SetsAt(b, i, n) =>
              /\ b \in DOMAIN names /\ n \in nested
              /\ \A m : Before(m, n) => Before(m, b)

(* The script puts every name of the top into the array, in their order,   *)
(* before it uses them, and no block has that in it.                       *)
Ending(n) == open # <<>> /\ open[1].op = "function" /\ open[1].into = n
Scripted ==
    /\ \A n \in Tops : Ending(n) \/ \E j \in Nat : SetsAt(Script, j, n)
    /\ \A i \in Nat : \A f, n : SetsAt(Script, i, f) /\ Before(n, f) =>
          \E j \in Nat : j <= i /\ SetsAt(Script, j, n)
    /\ \A i \in Nat : \A n \in Tops : UsesAt(Script, i, n) =>
          \E j \in Nat : j < i /\ SetsAt(Script, j, n)
    /\ \A i, j \in Nat : \A t, n :
          JumpsAt(Script, i, t) /\ SetsAt(Script, j, n) /\ i < j /\ j < t => n \in nested
    /\ \A i \in Nat : \A t : JumpsAt(Script, i, t) =>
          t = 1 \/ t - 1 \in DOMAIN code[Script]

FileCode == FileNames /\ Enclosing /\ Bodied /\ Scripted

FileCompile == /\ \A n \in DOMAIN stored \ Keywords : stored[n] = 0
               /\ DOMAIN globals = {}

(* How far the script has come.                                            *)
Position == IF calls = <<>> THEN next ELSE calls[1].next

(* A function that can be called was put into the array.                   *)
Live(v) == v \in Functions_ => v \in DOMAIN names /\ stored[v] = gen
Held ==
    /\ \A i \in DOMAIN obj.cells : Live(obj.cells[i])
    /\ \A v \in DOMAIN globals : Live(globals[v])
    /\ Live(at) /\ \A k \in DOMAIN calls : Live(calls[k].at)
    /\ at = Script <=> calls = <<>>
    /\ \A k \in DOMAIN calls : calls[k].at = Script <=> k = 1

FileRun ==
    /\ open = <<>> /\ obj.size = count
    /\ \A k \in Keywords : stored[k] = gen
    /\ \A n \in DOMAIN stored : stored[n] \in {0, gen}
    /\ \A j \in Nat : \A n \in Tops :
          SetsAt(Script, j, n) /\ j < Position => stored[n] = gen
    /\ \A f \in DOMAIN names \ Keywords : \A n :
          stored[f] = gen /\ Before(n, f) => stored[n] = gen

File == mode = "file" => /\ phase # "idle"
                         /\ Active => FileCode
                         /\ phase = "compile" => FileCompile
                         /\ phase = "run" => FileRun /\ Held

SessionInv == /\ Types /\ Placed /\ CodeRefers /\ Unused /\ UsesMeant /\ File
              /\ phase = "compile" => Opened

-----------------------------------------------------------------------------

LEMMA FirstPositive == First \in Nat \ {0} /\ DOMAIN Natives = 1 .. First
BY SessionAssumption DEF First

LEMMA ScriptApart == Script \notin Functions_ /\ Script \in Bodies
BY SessionAssumption DEF Names, Bodies

(* A keyword's number is its position.                                     *)
LEMMA KeywordAt ==
    ASSUME NEW k \in Keywords
    PROVE  /\ KeywordNames[k].num \in 0 .. First - 1
           /\ Natives[KeywordNames[k].num + 1] = k
<1>1. \E i \in 1 .. First : Natives[i] = k
  BY FirstPositive DEF Keywords, Range
<1>2. PICK i : i = (CHOOSE j \in 1 .. First : Natives[j] = k)
  OBVIOUS
<1>3. i \in 1 .. First /\ Natives[i] = k
  BY <1>1, <1>2
<1>4. KeywordNames[k].num = i - 1
  BY <1>2 DEF KeywordNames
<1> QED
  BY <1>3, <1>4, FirstPositive

LEMMA StatementNames ==
    ASSUME NEW s \in Statement
    PROVE  /\ s.op = "var" => s.to \in Vars
           /\ s.op \in {"call", "var"} => s.name \in Names \cup Vars
           /\ s.op = "function" => s.name \in Functions_
           /\ s.op = "class" => s.name \in Classes
           /\ s.op = "native" => s.name \in Keywords
<1>1. CASE s \in [op : {"function"}, name : Functions_]
  BY <1>1
<1>2. CASE s \in [op : {"class"}, name : Classes]
  BY <1>2
<1>3. CASE s \in [op : {"native"}, name : Keywords]
  BY <1>3
<1>4. CASE s \in [op : {"call"}, name : Functions_ \cup Classes \cup Hosted \cup Vars]
  BY <1>4 DEF Names
<1>5. CASE s \in [op : {"var"}, to : Vars, name : Functions_ \cup Classes \cup Vars]
  BY <1>5 DEF Names
<1>6. CASE s \in [op : {"if", "end"}]
  BY <1>6
<1>7. \/ s \in [op : {"function"}, name : Functions_]
      \/ s \in [op : {"class"}, name : Classes]
      \/ s \in [op : {"native"}, name : Keywords]
      \/ s \in [op : {"call"}, name : Functions_ \cup Classes \cup Hosted \cup Vars]
      \/ s \in [op : {"var"}, to : Vars, name : Functions_ \cup Classes \cup Vars]
      \/ s \in [op : {"if", "end"}]
  BY Zenon DEF Statement
<1> QED
  BY <1>1, <1>2, <1>3, <1>4, <1>5, <1>6, <1>7, Zenon

(* In the empty code there is nothing.                                     *)
LEMMA EmptyCode ==
    ASSUME NEW b, code[b] = <<>>
    PROVE  \A i, n : ~ SetsAt(b, i, n) /\ ~ UsesAt(b, i, n) /\ ~ JumpsAt(b, i, n)
BY DEF SetsAt, UsesAt, JumpsAt

LEMMA InitInv == Init => SessionInv
<1> SUFFICES ASSUME Init PROVE SessionInv
  OBVIOUS
<1> USE FirstPositive
<1>1. DOMAIN KeywordNames = Keywords
  BY DEF KeywordNames
<1>c. code = [f \in Bodies |-> <<>>]
  BY DEF Init, Bodies
<1>e. \A b \in Bodies : code[b] = <<>>
  BY <1>c
<1>n. \A b \in Bodies : \A i, n : ~ SetsAt(b, i, n) /\ ~ UsesAt(b, i, n) /\ ~ JumpsAt(b, i, n)
  BY <1>e, EmptyCode, Zenon
<1>2. Types
  <2>1. text \in Seq(Statement)
    <3>1. text = <<>> \/ text \in Texts
      BY DEF Init
    <3>2. <<>> \in Seq(Statement)
      OBVIOUS
    <3>3. Texts \subseteq Seq(Statement)
      BY SessionAssumption
    <3> QED
      BY <3>1, <3>2, <3>3, Zenon
  <2>2. \A n \in DOMAIN names : names[n].num \in Nat
    BY <1>1, KeywordAt DEF Init
  <2>3. stored \in [Names \cup Keywords -> 0 .. gen]
        /\ \A n \in DOMAIN stored : stored[n] # 0 => n \in DOMAIN names
    BY <1>1 DEF Init
  <2>4. code \in [Bodies -> Seq(Instrs)]
    BY <1>c
  <2>5. at \in Bodies /\ calls \in Seq(Resumes)
    BY ScriptApart DEF Init
  <2>6. \A b \in Bodies : \A i, t : JumpsAt(b, i, t) => t \in Nat \ {0}
    BY <1>n, Zenon
  <2> QED
    BY <1>1, <2>1, <2>2, <2>3, <2>4, <2>5, <2>6 DEF Init, Types, NewArray
<1>3. Placed
  BY <1>1, KeywordAt DEF Init, Placed, NewArray
<1>4. FileNames
  <2>1. \A m, n \in Keywords :
           KeywordNames[m].num = KeywordNames[n].num => m = n
    BY KeywordAt
  <2> QED
    BY <1>1, <2>1, KeywordAt DEF Init, FileNames
<1>5. CodeRefers
  BY <1>n, Zenon DEF CodeRefers
<1>6. FileCode
  <2>1. Tops = {} /\ DOMAIN open = {}
    BY <1>1 DEF Init, Tops
  <2>2. Functions_ \subseteq Bodies /\ Script \in Bodies
    BY DEF Bodies
  <2>3. Enclosing
    BY <2>1 DEF Enclosing
  <2>4. Bodied
    BY <1>n, <2>2, Zenon DEF Bodied
  <2>5. Scripted
    BY <1>n, <2>1, <2>2, Zenon DEF Scripted
  <2> QED
    BY <1>4, <2>3, <2>4, <2>5 DEF FileCode
<1>7. File
  BY <1>6 DEF Init, File, FileCompile
<1>8. Opened
  BY DEF Init, Opened
<1> QED
  BY <1>2, <1>3, <1>5, <1>7, <1>8 DEF Init, SessionInv, Unused, UsesMeant, None

-----------------------------------------------------------------------------
(* What no action of the compiler or the machine changes.                  *)
LEMMA PlacedKept ==
    ASSUME Placed, UNCHANGED <<names, obj, gen, stored>>
    PROVE  Placed'
BY DEF Placed, Lost, Shared, Outside

LEMMA UsesKept ==
    ASSUME UsesMeant, UNCHANGED <<names, nested, obj, gen, stored, mode, used>>
    PROVE  UsesMeant'
BY DEF UsesMeant, Lost, Shared, Outside, Unwritten

LEMMA NoneMeant ==
    ASSUME used' = None
    PROVE  UsesMeant'
BY DEF UsesMeant, None

LEMMA CodeKept ==
    ASSUME CodeRefers, UNCHANGED <<names, code>>
    PROVE  CodeRefers'
BY DEF CodeRefers, SetsAt, UsesAt

LEMMA FileCodeKept ==
    ASSUME FileCode, UNCHANGED <<names, nested, open, code, count>>
    PROVE  FileCode'
BY DEF FileCode, FileNames, Enclosing, Bodied, Scripted, Tops, Before, Ending,
       SetsAt, UsesAt, JumpsAt

LEMMA TypesKept ==
    ASSUME Types,
           UNCHANGED <<mode, text, names, nested, code, obj, native, count, next, at,
                       calls, gen, stored>>
    PROVE  Types'
BY DEF Types, JumpsAt

LEMMA LineStep == SessionInv /\ Line => SessionInv'
<1> SUFFICES ASSUME SessionInv, Line PROVE SessionInv'
  OBVIOUS
<1> USE FirstPositive
<1>1. mode = "session" /\ mode' = mode
  BY DEF SessionInv, File, Types, Line
<1>2. /\ code' = [code EXCEPT ![Script] = <<>>] /\ open' = <<>>
      /\ names' = names /\ used' = None /\ next' = 1 /\ count' = First
      /\ text' \in Texts
      /\ UNCHANGED <<obj, native, at, calls, gen, stored, nested>>
  BY DEF Line, Begin, machine
<1>3. /\ code' \in [Bodies -> Seq(Instrs)] /\ code'[Script] = <<>>
      /\ \A b \in Bodies : b # Script => code'[b] = code[b]
  <2>1. code \in [Bodies -> Seq(Instrs)] /\ <<>> \in Seq(Instrs)
    BY DEF SessionInv, Types
  <2> QED
    BY <1>2, <2>1, ScriptApart
<1>4. \A b \in Bodies : \A i, n :
         /\ SetsAt(b, i, n)' => b # Script /\ SetsAt(b, i, n)
         /\ UsesAt(b, i, n)' => b # Script /\ UsesAt(b, i, n)
         /\ JumpsAt(b, i, n)' => b # Script /\ JumpsAt(b, i, n)
  BY <1>3 DEF SetsAt, UsesAt, JumpsAt
<1>5. Types'
  <2>1. text' \in Seq(Statement)
    <3>1. Texts \subseteq Seq(Statement)
      BY SessionAssumption
    <3> QED
      BY <1>2, <3>1, Zenon
  <2>2. \A b \in Bodies : \A i, t : JumpsAt(b, i, t)' => t \in Nat \ {0}
    BY <1>4, Zenon DEF SessionInv, Types
  <2> QED
    BY <1>1, <1>2, <1>3, <2>1, <2>2 DEF SessionInv, Types
<1>6. CodeRefers'
  <2> SUFFICES ASSUME NEW b \in Bodies, NEW i, NEW n, SetsAt(b, i, n)' \/ UsesAt(b, i, n)'
               PROVE  (n \in DOMAIN names /\ names[n].num = code[b][i].num)'
    BY DEF CodeRefers
  <2>1. b # Script /\ (SetsAt(b, i, n) \/ UsesAt(b, i, n))
    BY <1>4
  <2>2. n \in DOMAIN names /\ names[n].num = code[b][i].num
    BY <2>1 DEF SessionInv, CodeRefers
  <2> QED
    BY <1>2, <1>3, <2>1, <2>2
<1>7. Placed' /\ UsesMeant'
  BY <1>2, PlacedKept, NoneMeant DEF SessionInv
<1>8. Opened'
  BY <1>2 DEF Opened
<1> QED
  BY <1>1, <1>2, <1>5, <1>6, <1>7, <1>8 DEF SessionInv, File, Unused

LEMMA ReuseStep == SessionInv /\ Reuse => SessionInv'
<1> SUFFICES ASSUME SessionInv, Reuse PROVE SessionInv'
  OBVIOUS
<1> USE DEF Reuse, compiler, machine
<1>1. Types' /\ CodeRefers'
  BY TypesKept, CodeKept DEF SessionInv
<1>2. Placed' /\ UsesMeant'
  BY PlacedKept, UsesKept DEF SessionInv
<1> QED
  BY <1>1, <1>2 DEF SessionInv, File, Unused, Active

-----------------------------------------------------------------------------
(* An instruction is written behind the others of a function.              *)
LEMMA EmitEffect ==
    ASSUME Types, NEW b \in Bodies, NEW x \in Instrs, code' = Emitted(b, x),
           x.op = "if" => x.num \in Nat \ {0}
    PROVE  /\ code' \in [Bodies -> Seq(Instrs)]
           /\ Len(code[b]) + 1 \in Nat \ {0} /\ code'[b][Len(code[b]) + 1] = x
           /\ \A c \in Bodies : \A i \in DOMAIN code[c] :
                 i \in DOMAIN code'[c] /\ code'[c][i] = code[c][i]
           /\ \A c \in Bodies : \A i : i \in DOMAIN code'[c] =>
                 \/ i \in DOMAIN code[c]
                 \/ c = b /\ i = Len(code[b]) + 1
           /\ Len(code[b]) + 1 \in DOMAIN code'[b]
           /\ \A i \in DOMAIN code[b] : i < Len(code[b]) + 1
           /\ \A c \in Bodies : DOMAIN code[c] \subseteq Nat \ {0}
           /\ \A c \in Bodies : \A i, t : JumpsAt(c, i, t)' => t \in Nat \ {0}
<1>1. code \in [Bodies -> Seq(Instrs)]
  BY DEF Types
<1>2. \A c \in Bodies : code[c] \in Seq(Instrs)
  BY <1>1
<1>3. code' = [code EXCEPT ![b] = Append(code[b], x)]
  BY DEF Emitted
<1>4. Append(code[b], x) \in Seq(Instrs)
  BY <1>2
<1>5. code' \in [Bodies -> Seq(Instrs)]
  BY <1>1, <1>3, <1>4
<1>6. PICK s, r : s = code[b] /\ s \in Seq(Instrs) /\ r = Append(code[b], x)
  BY <1>2
<1>7. PICK q : q = Len(s) + 1 /\ q = Len(code[b]) + 1
  BY <1>6
<1>8. code'[b] = r /\ \A c \in Bodies : c # b => code'[c] = code[c]
  BY <1>1, <1>3, <1>6
<1>9. /\ q \in Nat \ {0} /\ DOMAIN s = 1 .. q - 1 /\ DOMAIN r = 1 .. q /\ r[q] = x
      /\ \A i \in DOMAIN s : r[i] = s[i]
  <2>1. r = Append(s, x)
    BY <1>6
  <2> QED
    BY <1>6, <1>7, <2>1
<1>10. /\ \A c \in Bodies : \A i \in DOMAIN code[c] :
             i \in DOMAIN code'[c] /\ code'[c][i] = code[c][i]
       /\ \A c \in Bodies : \A i : i \in DOMAIN code'[c] =>
             i \in DOMAIN code[c] \/ (c = b /\ i = q)
       /\ q \in DOMAIN code'[b] /\ code'[b][q] = x
       /\ \A i \in DOMAIN code[b] : i < q
  <2>1. DOMAIN s \subseteq DOMAIN r /\ (\A i \in DOMAIN r : i \in DOMAIN s \/ i = q)
        /\ q \in DOMAIN r /\ \A i \in DOMAIN s : i < q
    BY <1>9
  <2>2. s = code[b]
    BY <1>6
  <2> QED
    BY <1>8, <1>9, <2>1, <2>2, Zenon
<1>11. \A c \in Bodies : DOMAIN code[c] \subseteq Nat \ {0}
  BY <1>2
<1>13. \A c \in Bodies : \A i, t : JumpsAt(c, i, t)' => t \in Nat \ {0}
  <2> SUFFICES ASSUME NEW c \in Bodies, NEW i, NEW t, JumpsAt(c, i, t)'
               PROVE  t \in Nat \ {0}
    OBVIOUS
  <2>1. i \in DOMAIN code'[c] /\ code'[c][i].op = "if" /\ code'[c][i].num = t
    BY DEF JumpsAt
  <2>2. CASE i \in DOMAIN code[c]
    <3>1. JumpsAt(c, i, t)
      BY <1>10, <2>1, <2>2 DEF JumpsAt
    <3> QED
      BY <3>1 DEF Types
  <2>3. CASE c = b /\ i = q
    BY <1>10, <2>1, <2>3
  <2> QED
    BY <1>10, <2>1, <2>2, <2>3
<1> QED
  BY <1>5, <1>7, <1>9, <1>10, <1>11, <1>13

(* What was there stays, and what is new is the instruction.               *)
LEMMA EmitMeans ==
    ASSUME Types, NEW b \in Bodies, NEW x \in Instrs, code' = Emitted(b, x),
           x.op = "if" => x.num \in Nat \ {0},
           NEW p, p = Len(code[b]) + 1
    PROVE  /\ p \in Nat \ {0}
           /\ \A c \in Bodies : \A i, n : SetsAt(c, i, n) => SetsAt(c, i, n)'
           /\ \A c \in Bodies : \A i, n : SetsAt(c, i, n)' =>
                 SetsAt(c, i, n) \/ (c = b /\ i = p /\ x.op = "set" /\ x.name = n)
           /\ \A c \in Bodies : \A i, n : UsesAt(c, i, n)' =>
                 \/ UsesAt(c, i, n)
                 \/ c = b /\ i = p /\ x.op \in {"call", "var"} /\ x.num >= 0 /\ x.name = n
           /\ \A c \in Bodies : \A i, n : JumpsAt(c, i, n) => JumpsAt(c, i, n)'
           /\ \A c \in Bodies : \A i, n : JumpsAt(c, i, n)' =>
                 JumpsAt(c, i, n) \/ (c = b /\ i = p /\ x.op = "if" /\ x.num = n)
           /\ \A c \in Bodies : \A i, n : SetsAt(c, i, n) \/ UsesAt(c, i, n) \/ JumpsAt(c, i, n) =>
                 i \in Nat \ {0} /\ (c = b => i < p)
           /\ x.op = "set" => SetsAt(b, p, x.name)'
           /\ x.op = "if" => JumpsAt(b, p, x.num)'
           /\ \A c \in Bodies : DOMAIN code[c] \subseteq DOMAIN code'[c]
           /\ \A i \in DOMAIN code[b] : i \in Nat /\ i < p
<1>1. /\ p \in Nat \ {0} /\ code'[b][p] = x
      /\ \A c \in Bodies : \A i \in DOMAIN code[c] :
            i \in DOMAIN code'[c] /\ code'[c][i] = code[c][i]
      /\ \A c \in Bodies : \A i : i \in DOMAIN code'[c] =>
            i \in DOMAIN code[c] \/ (c = b /\ i = p)
      /\ p \in DOMAIN code'[b]
      /\ \A i \in DOMAIN code[b] : i < p
      /\ \A c \in Bodies : DOMAIN code[c] \subseteq Nat \ {0}
  BY EmitEffect
<1>2. \A c \in Bodies : \A i, n : SetsAt(c, i, n) => SetsAt(c, i, n)'
  BY <1>1 DEF SetsAt
<1>3. \A c \in Bodies : \A i, n : SetsAt(c, i, n)' =>
         SetsAt(c, i, n) \/ (c = b /\ i = p /\ x.op = "set" /\ x.name = n)
  BY <1>1 DEF SetsAt
<1>4. \A c \in Bodies : \A i, n : UsesAt(c, i, n)' =>
         \/ UsesAt(c, i, n)
         \/ c = b /\ i = p /\ x.op \in {"call", "var"} /\ x.num >= 0 /\ x.name = n
  BY <1>1 DEF UsesAt
<1>5. \A c \in Bodies : \A i, n : JumpsAt(c, i, n) => JumpsAt(c, i, n)'
  BY <1>1 DEF JumpsAt
<1>6. \A c \in Bodies : \A i, n : JumpsAt(c, i, n)' =>
         JumpsAt(c, i, n) \/ (c = b /\ i = p /\ x.op = "if" /\ x.num = n)
  BY <1>1 DEF JumpsAt
<1>7. \A c \in Bodies : \A i, n : SetsAt(c, i, n) \/ UsesAt(c, i, n) \/ JumpsAt(c, i, n) =>
         i \in Nat \ {0} /\ (c = b => i < p)
  BY <1>1 DEF SetsAt, UsesAt, JumpsAt
<1>8. (x.op = "set" => SetsAt(b, p, x.name)') /\ (x.op = "if" => JumpsAt(b, p, x.num)')
  BY <1>1 DEF SetsAt, JumpsAt
<1>9. /\ \A c \in Bodies : DOMAIN code[c] \subseteq DOMAIN code'[c]
      /\ \A i \in DOMAIN code[b] : i \in Nat /\ i < p
  BY <1>1
<1> QED
  BY <1>1, <1>2, <1>3, <1>4, <1>5, <1>6, <1>7, <1>8, <1>9

(* The code that is written to is some function's, or the script.          *)
LEMMA IntoBodies ==
    ASSUME NEW blocks \in Seq(Blocks)
    PROVE  /\ Into(blocks) \in Bodies
           /\ Into(blocks) # Script => blocks # <<>> /\ Len(blocks) \in DOMAIN blocks
                                       /\ blocks[Len(blocks)].into = Into(blocks)
           /\ blocks # <<>> => Len(blocks) \in DOMAIN blocks
                               /\ Into(blocks) = blocks[Len(blocks)].into
<1>1. CASE blocks = <<>>
  BY <1>1, ScriptApart DEF Into
<1>2. CASE blocks # <<>>
  <2>1. Len(blocks) \in DOMAIN blocks /\ blocks[Len(blocks)] \in Blocks
    BY <1>2
  <2>2. blocks[Len(blocks)].into \in Bodies
    BY <2>1 DEF Blocks
  <2> QED
    BY <1>2, <2>1, <2>2 DEF Into
<1> QED
  BY <1>1, <1>2

(* A block is pushed.                                                      *)
LEMMA PushedBlock ==
    ASSUME NEW blocks \in Seq(Blocks), NEW x \in Blocks, NEW pushed,
           pushed = Append(blocks, x)
    PROVE  /\ pushed \in Seq(Blocks)
           /\ \A k \in DOMAIN blocks : k \in DOMAIN pushed /\ pushed[k] = blocks[k]
           /\ \A k \in DOMAIN pushed : k \in DOMAIN blocks \/ (k = Len(blocks) + 1 /\ pushed[k] = x)
           /\ 1 \in DOMAIN pushed
           /\ pushed[1] = IF blocks = <<>> THEN x ELSE blocks[1]
           /\ blocks # <<>> => 1 \in DOMAIN blocks
           /\ blocks = <<>> => \A k \in DOMAIN pushed : k = 1
           /\ Len(blocks) + 1 = 1 => blocks = <<>>
OBVIOUS

(* What a new name does to the others.                                     *)
LEMMA DeclareNames ==
    ASSUME Types, NEW n \in Names, n \notin Keywords, n \notin DOMAIN names, NEW type,
           names' = With(names, n, [type |-> type, num |-> count]),
           count' = count + 1,
           nested' = IF open = <<>> THEN nested ELSE nested \cup {n}
    PROVE  /\ DOMAIN names' = DOMAIN names \cup {n} /\ names'[n].num = count
           /\ \A m \in DOMAIN names : m # n /\ names'[m] = names[m]
           /\ nested' \subseteq DOMAIN names' /\ nested \subseteq nested'
           /\ \A m \in DOMAIN names : m \in Tops' <=> m \in Tops
           /\ n \in Tops' <=> open = <<>>
           /\ FileNames => /\ FileNames'
                           /\ \A m : m \in Tops' => Before(m, n)'
                           /\ \A f \in DOMAIN names : \A m : Before(m, f)' => Before(m, f)
                           /\ \A f \in DOMAIN names : \A m : Before(m, f) => Before(m, f)'
<1>1. \A m \in DOMAIN names : m # n
  OBVIOUS
<1>2. DOMAIN names' = DOMAIN names \cup {n}
  BY DEF With
<1>3. names'[n] = [type |-> type, num |-> count]
  BY DEF With
<1>4. \A m \in DOMAIN names : names'[m] = names[m]
  BY <1>1 DEF With
<1>5. names'[n].num = count /\ \A m \in DOMAIN names : names'[m].num = names[m].num
  BY <1>3, <1>4
<1>6. nested' \subseteq DOMAIN names' /\ nested \subseteq nested'
  BY <1>2 DEF Types
<1>7. \A m \in DOMAIN names : m \in nested' <=> m \in nested
  BY <1>1
<1>8. \A m \in DOMAIN names : m \in Tops' <=> m \in Tops
  BY <1>2, <1>7 DEF Tops
<1>9. n \in Tops' <=> open = <<>>
  <2>1. n \notin nested
    BY DEF Types
  <2>2. n \in nested' <=> open # <<>>
    BY <2>1
  <2> QED
    BY <1>2, <2>2 DEF Tops
<1>10. ASSUME FileNames
       PROVE  /\ FileNames'
              /\ \A m : m \in Tops' => Before(m, n)'
              /\ \A f \in DOMAIN names : \A m : Before(m, f)' => Before(m, f)
              /\ \A f \in DOMAIN names : \A m : Before(m, f) => Before(m, f)'
  <2>1. /\ \A m \in DOMAIN names : names[m].num \in Nat /\ names[m].num < count
        /\ count \in Nat /\ First \in Nat /\ count >= First
    BY <1>10, FirstPositive DEF FileNames, Types
  <2>2. \A m, k \in DOMAIN names' : names'[m].num = names'[k].num => m = k
    <3> SUFFICES ASSUME NEW m \in DOMAIN names', NEW k \in DOMAIN names',
                        names'[m].num = names'[k].num
                 PROVE  m = k
      OBVIOUS
    <3>1. m \in DOMAIN names /\ k \in DOMAIN names => m = k
      BY <1>5, <1>10 DEF FileNames
    <3> QED
      BY <1>2, <1>5, <2>1, <3>1
  <2>3. \A m \in DOMAIN names' \ Keywords : names'[m].num \in First .. count' - 1
    <3> SUFFICES ASSUME NEW m \in DOMAIN names' \ Keywords
                 PROVE  names'[m].num \in First .. count' - 1
      OBVIOUS
    <3>1. CASE m = n
      BY <1>5, <2>1, <3>1
    <3>2. CASE m \in DOMAIN names
      BY <1>5, <1>10, <2>1, <3>2 DEF FileNames
    <3> QED
      BY <1>2, <3>1, <3>2
  <2>4. \A k \in Keywords : names'[k].num < First /\ Natives[names'[k].num + 1] = k
    BY <1>5, <1>10 DEF FileNames, Types
  <2>5. count' >= First
    BY <2>1
  <2>6. ASSUME NEW m, m \in Tops' PROVE Before(m, n)'
    <3>1. m \in DOMAIN names'
      BY <2>6 DEF Tops
    <3>2. names'[m].num <= names'[n].num
      BY <1>2, <1>5, <2>1, <3>1
    <3> QED
      BY <2>6, <3>2 DEF Before
  <2>7. ASSUME NEW f \in DOMAIN names, NEW m, Before(m, f)' PROVE Before(m, f)
    <3>1. m \in DOMAIN names' /\ m \in Tops' /\ names'[m].num <= names'[f].num
      BY <2>7 DEF Tops, Before
    <3>2. m # n
      BY <1>5, <2>1, <3>1
    <3>3. m \in DOMAIN names
      BY <1>2, <3>1, <3>2
    <3> QED
      BY <1>5, <1>8, <3>1, <3>3 DEF Before
  <2>8. ASSUME NEW f \in DOMAIN names, NEW m, Before(m, f) PROVE Before(m, f)'
    <3>1. m \in DOMAIN names
      BY <2>8 DEF Tops, Before
    <3> QED
      BY <1>5, <1>8, <2>8, <3>1 DEF Before
  <2> QED
    BY <2>2, <2>3, <2>4, <2>5, <2>6, <2>7, <2>8 DEF FileNames
<1> QED
  BY <1>1, <1>2, <1>4, <1>5, <1>6, <1>8, <1>9, <1>10

(* The statement that is compiled.                                         *)
LEMMA DeclaredName ==
    ASSUME SessionInv, NEW type \in {"function", "class"}, InText(type)
    PROVE  /\ Name \in Names /\ Name \notin Keywords
           /\ type = "function" => Name \in Functions_
<1>1. text[next] \in Statement /\ text[next].op = type
  BY DEF InText, SessionInv, Types
<1>2. (type = "function" => Name \in Functions_) /\ (type = "class" => Name \in Classes)
  BY <1>1, StatementNames DEF Name
<1> QED
  BY <1>2, NamesAssumption DEF Names

LEMMA DeclareRefused ==
    ASSUME SessionInv, NEW type, NEW blocks, NEW emitted, Declare(type, blocks, emitted),
           phase' # "compile"
    PROVE  SessionInv'
<1>1. /\ UNCHANGED <<names, text, count, classes, open, code, nested, next>>
      /\ UNCHANGED <<obj, native, globals, at, calls, gen, stored, used, mode>>
      /\ phase' \in {"exited", "dead"}
  BY DEF Declare, InText, compiler, machine
<1>2. Types' /\ Placed' /\ UsesMeant' /\ CodeRefers'
  BY <1>1, TypesKept, CodeKept, PlacedKept, UsesKept DEF SessionInv
<1> QED
  BY <1>1, <1>2 DEF SessionInv, File, Unused, Active

(* What a declaration does beside what it writes.                          *)
LEMMA DeclareStep ==
    ASSUME SessionInv, NEW type \in {"function", "class"}, NEW blocks, NEW emitted,
           Declare(type, blocks, emitted), phase' = "compile",
           code' \in [Bodies -> Seq(Instrs)], CodeRefers',
           \A b \in Bodies : \A i, t : JumpsAt(b, i, t)' => t \in Nat \ {0},
           Opened', mode = "file" => FileCode'
    PROVE  SessionInv'
<1> DEFINE n == Name
<1>1. /\ n \notin DOMAIN names /\ phase = "compile"
      /\ names' = With(names, n, [type |-> type, num |-> count])
      /\ next' = next + 1 /\ count' = count + 1
      /\ nested' = (IF open = <<>> THEN nested ELSE nested \cup {n})
      /\ UNCHANGED <<mode, text, phase, obj, native, globals, at, calls, gen, stored, used>>
  BY DEF Declare, InText, Numbered, machine
<1>2. n \in Names /\ n \notin Keywords
  BY DeclaredName DEF Declare
<1> HIDE DEF n
<1>3. Types
  BY DEF SessionInv
<1>4. /\ DOMAIN names' = DOMAIN names \cup {n} /\ names'[n].num = count
      /\ \A m \in DOMAIN names : m # n /\ names'[m] = names[m]
      /\ nested' \subseteq DOMAIN names'
  BY <1>1, <1>2, <1>3, DeclareNames
<1>5. Types'
  <2>1. \A m \in DOMAIN names' : names'[m].num \in Nat
    BY <1>3, <1>4 DEF Types
  <2>2. Keywords \subseteq DOMAIN names' /\ DOMAIN names' \subseteq Names \cup Keywords
    BY <1>2, <1>3, <1>4 DEF Types
  <2>3. count' \in Nat /\ next' \in Nat \ {0}
    BY <1>1, <1>3 DEF Types
  <2>4. \A m \in DOMAIN stored' : stored'[m] # 0 => m \in DOMAIN names'
    BY <1>1, <1>3, <1>4 DEF Types
  <2> QED
    BY <1>1, <1>3, <1>4, <2>1, <2>2, <2>3, <2>4 DEF Types
<1>6. stored[n] = 0 /\ gen # 0
  BY <1>1, <1>2, <1>3 DEF Types
<1>7. Placed'
  <2> SUFFICES ASSUME NEW m \in (DOMAIN names)', ~Lost(m)', ~Shared(m)', ~Outside(m)'
               PROVE  (/\ names[m].num \in DOMAIN obj.cells
                       /\ obj.cells[names[m].num] = m)'
    BY DEF Placed
  <2>1. m # n
    BY <1>1, <1>6 DEF Lost
  <2>2. m \in DOMAIN names /\ names'[m] = names[m]
    BY <1>4, <2>1
  <2>3. ~Lost(m) /\ ~Outside(m)
    BY <1>1, <2>2 DEF Lost, Outside
  <2>4. ~Shared(m)
    BY <1>4, <2>2 DEF Shared
  <2> QED
    BY <1>1, <2>2, <2>3, <2>4 DEF SessionInv, Placed
<1>8. used' = None
  BY <1>1 DEF SessionInv, Unused
<1>9. File'
  BY <1>1 DEF SessionInv, File, FileCompile, Active
<1> QED
  BY <1>5, <1>7, <1>8, <1>9, NoneMeant DEF SessionInv, Unused

LEMMA DeclareFunctionStep == SessionInv /\ DeclareFunction => SessionInv'
<1> SUFFICES ASSUME SessionInv, DeclareFunction PROVE SessionInv'
  OBVIOUS
<1> DEFINE x == Block("function", Name, 0)
<1>0. Declare("function", Append(open, x), code)
  BY DEF DeclareFunction
<1> SUFFICES ASSUME phase' = "compile" PROVE SessionInv'
  BY <1>0, DeclareRefused
<1>t. Types /\ Opened
  BY <1>0 DEF SessionInv, Declare, InText
<1>1. PICK n : n = Name
  OBVIOUS
<1>2. /\ phase = "compile" /\ n \notin DOMAIN names
      /\ names' = With(names, n, [type |-> "function", num |-> count])
      /\ code' = code /\ open' = Append(open, x) /\ count' = count + 1
      /\ nested' = IF open = <<>> THEN nested ELSE nested \cup {n}
  BY <1>0, <1>1 DEF Declare, InText, Numbered
<1>3. n \in Functions_ /\ n \in Names /\ n \notin Keywords /\ n # Script
  BY <1>0, <1>1, DeclaredName, ScriptApart DEF Declare
<1>4. x \in Blocks /\ x.op = "function" /\ x.into = n
  BY <1>1, <1>3 DEF Block, Blocks, Bodies
<1> HIDE DEF x
<1>5. /\ DOMAIN names' = DOMAIN names \cup {n}
      /\ \A m \in DOMAIN names : m # n /\ names'[m] = names[m]
      /\ nested \subseteq nested'
      /\ \A m \in DOMAIN names : m \in Tops' <=> m \in Tops
      /\ n \in Tops' <=> open = <<>>
      /\ FileNames => /\ FileNames'
                      /\ \A m : m \in Tops' => Before(m, n)'
                      /\ \A f \in DOMAIN names : \A m : Before(m, f)' => Before(m, f)
                      /\ \A f \in DOMAIN names : \A m : Before(m, f) => Before(m, f)'
  BY <1>2, <1>3, <1>t, DeclareNames
<1>6. /\ open \in Seq(Blocks) /\ open' \in Seq(Blocks)
      /\ \A k \in DOMAIN open : k \in DOMAIN open' /\ open'[k] = open[k]
      /\ \A k \in DOMAIN open' : k \in DOMAIN open \/ (k = Len(open) + 1 /\ open'[k] = x)
      /\ open'[1] = IF open = <<>> THEN x ELSE open[1]
      /\ open # <<>> => 1 \in DOMAIN open
      /\ 1 \in DOMAIN open'
      /\ Len(open) + 1 = 1 => open = <<>>
      /\ open = <<>> => \A k \in DOMAIN open' : k = 1
  BY <1>2, <1>4, <1>t, PushedBlock DEF Opened
<1>7. \A b, i, m : /\ SetsAt(b, i, m)' <=> SetsAt(b, i, m)
                   /\ UsesAt(b, i, m)' <=> UsesAt(b, i, m)
                   /\ JumpsAt(b, i, m)' <=> JumpsAt(b, i, m)
  BY <1>2 DEF SetsAt, UsesAt, JumpsAt
<1>8. CodeRefers'
  BY <1>2, <1>5, <1>7 DEF SessionInv, CodeRefers
<1>9. Opened'
  <2>1. ASSUME NEW k \in DOMAIN open', NEW b, NEW i, open'[k].into = b, open'[k].i = i
        PROVE  /\ open'[k].op = "function" => b \in Functions_ \cap DOMAIN names'
               /\ open'[k].op = "if" => \E t : JumpsAt(b, i, t)'
    <3>1. CASE k \in DOMAIN open
      BY <1>5, <1>6, <1>7, <1>t, <2>1, <3>1 DEF Opened
    <3>2. CASE open'[k] = x
      BY <1>3, <1>4, <1>5, <2>1, <3>2
    <3> QED
      BY <1>6, <2>1, <3>1, <3>2
  <2> QED
    BY <1>6, <2>1 DEF Opened
<1>10. ASSUME mode = "file" PROVE FileCode'
  <2>1. FileNames /\ Enclosing /\ Bodied /\ Scripted
    BY <1>2, <1>10 DEF SessionInv, File, Active, FileCode
  <2>2. \A b \in Bodies : \A i, m : SetsAt(b, i, m) \/ UsesAt(b, i, m) => m \in DOMAIN names
    BY DEF SessionInv, CodeRefers
  <2>3. Enclosing'
    <3> SUFFICES ASSUME NEW k \in DOMAIN open', NEW b, NEW i,
                        open'[k].into = b, open'[k].i = i
                 PROVE  /\ b # Script =>
                              b \in DOMAIN names' /\ \A m : m \in Tops' => Before(m, b)'
                        /\ open'[k].op = "function" /\ k # 1 => b \in nested'
                        /\ open'[1].op = "function" => b # Script
                        /\ open'[k].op = "if" /\ b = Script =>
                              \A j \in Nat : \A m : SetsAt(Script, j, m)' /\ j > i => m \in nested'
      BY DEF Enclosing
    <3>1. CASE k \in DOMAIN open
      <4>1. open'[k] = open[k] /\ open # <<>> /\ open'[1] = open[1]
        BY <1>6, <3>1
      <4>2. \A m : m \in Tops' => m \in Tops
        BY <1>5, <4>1 DEF Tops
      <4> QED
        BY <1>5, <1>7, <2>1, <3>1, <4>1, <4>2 DEF Enclosing
    <3>2. CASE k = Len(open) + 1 /\ open'[k] = x
      <4>1. k # 1 => n \in nested'
        BY <1>2, <1>6, <3>2
      <4> QED
        BY <1>3, <1>4, <1>5, <2>1, <3>2, <4>1
    <3> QED
      BY <1>6, <3>1, <3>2
  <2>4. Bodied'
    <3> SUFFICES ASSUME NEW b \in Functions_, NEW i, NEW m
                 PROVE  /\ UsesAt(b, i, m)' /\ m \in Tops' => b \in DOMAIN names' /\ Before(m, b)'
                        /\ SetsAt(b, i, m)' =>
                              /\ b \in DOMAIN names' /\ m \in nested'
                              /\ \A l : Before(l, m)' => Before(l, b)'
      BY DEF Bodied
    <3>1. b \in Bodies
      BY DEF Bodies
    <3>2. ASSUME UsesAt(b, i, m)', m \in Tops' PROVE b \in DOMAIN names' /\ Before(m, b)'
      <4>1. UsesAt(b, i, m) /\ m \in DOMAIN names /\ m \in Tops
        BY <1>5, <1>7, <2>2, <3>1, <3>2
      <4> QED
        BY <1>5, <2>1, <4>1 DEF Bodied
    <3>3. ASSUME SetsAt(b, i, m)'
          PROVE  b \in DOMAIN names' /\ m \in nested' /\ \A l : Before(l, m)' => Before(l, b)'
      <4>1. SetsAt(b, i, m) /\ m \in DOMAIN names
        BY <1>7, <2>2, <3>1, <3>3
      <4> QED
        BY <1>5, <2>1, <4>1 DEF Bodied
    <3> QED
      BY <3>2, <3>3
  <2>5. Scripted'
    <3>1. ASSUME NEW m, m \in Tops' PROVE Ending(m)' \/ \E j \in Nat : SetsAt(Script, j, m)'
      <4>1. CASE m = n
        <5>1. open = <<>>
          BY <1>5, <3>1, <4>1
        <5>2. open'[1] = x /\ open' # <<>>
          BY <1>6, <5>1
        <5> QED
          BY <1>4, <4>1, <5>2 DEF Ending
      <4>2. CASE m # n
        <5>1. m \in Tops
          BY <1>5, <3>1, <4>2 DEF Tops
        <5>2. Ending(m) => Ending(m)'
          BY <1>6 DEF Ending
        <5> QED
          BY <1>7, <2>1, <5>1, <5>2 DEF Scripted
      <4> QED
        BY <4>1, <4>2
    <3>2. ASSUME NEW i \in Nat, NEW f, NEW m, SetsAt(Script, i, f)', Before(m, f)'
          PROVE  \E j \in Nat : j <= i /\ SetsAt(Script, j, m)'
      <4>1. SetsAt(Script, i, f) /\ f \in DOMAIN names
        BY <1>7, <2>2, <3>2, ScriptApart
      <4>2. Before(m, f)
        BY <1>5, <2>1, <3>2, <4>1
      <4> QED
        BY <1>7, <2>1, <4>1, <4>2 DEF Scripted
    <3>3. ASSUME NEW i \in Nat, NEW m, m \in Tops', UsesAt(Script, i, m)'
          PROVE  \E j \in Nat : j < i /\ SetsAt(Script, j, m)'
      <4>1. UsesAt(Script, i, m) /\ m \in DOMAIN names
        BY <1>7, <2>2, <3>3, ScriptApart
      <4>2. m \in Tops
        BY <1>5, <3>3, <4>1
      <4> QED
        BY <1>7, <2>1, <4>1, <4>2 DEF Scripted
    <3>4. ASSUME NEW i \in Nat, NEW j \in Nat, NEW t, NEW m,
                 JumpsAt(Script, i, t)', SetsAt(Script, j, m)', i < j, j < t
          PROVE  m \in nested'
      BY <1>5, <1>7, <2>1, <3>4 DEF Scripted
    <3>5. ASSUME NEW i \in Nat, NEW t, JumpsAt(Script, i, t)'
          PROVE  t = 1 \/ t - 1 \in DOMAIN code'[Script]
      BY <1>2, <1>7, <2>1, <3>5 DEF Scripted
    <3> QED
      BY <3>1, <3>2, <3>3, <3>4, <3>5 DEF Scripted
  <2> QED
    BY <1>5, <2>1, <2>3, <2>4, <2>5 DEF FileCode
<1>11. code' \in [Bodies -> Seq(Instrs)]
       /\ \A b \in Bodies : \A i, t : JumpsAt(b, i, t)' => t \in Nat \ {0}
  BY <1>2, <1>7, <1>t DEF Types
<1> QED
  BY <1>0, <1>8, <1>9, <1>10, <1>11, DeclareStep

(* What the compiler knows of the function it writes to.                   *)
LEMMA TargetKnows ==
    ASSUME Types, Enclosing, Scripted, NEW blocks \in Seq(Blocks), open \in Seq(Blocks),
           blocks = <<>> \/ \E k \in DOMAIN open : /\ blocks[Len(blocks)] = open[k]
                                                  /\ blocks # <<>>,
           NEW b, b = Into(blocks)
    PROVE  /\ b # Script => /\ b \in DOMAIN names /\ blocks # <<>>
                            /\ \A n \in Tops : Before(n, b)
           /\ b = Script /\ blocks # <<>> => open[1].op # "function"
<1>1. CASE blocks = <<>>
  BY <1>1 DEF Into
<1>2. CASE blocks # <<>>
  <2>1. PICK k \in DOMAIN open : blocks[Len(blocks)] = open[k]
    BY <1>2
  <2>2. open[k].into = b
    BY <1>2, <2>1 DEF Into
  <2>3. PICK i : open[k].i = i
    OBVIOUS
  <2> QED
    BY <1>2, <2>2, <2>3 DEF Enclosing
<1> QED
  BY <1>1, <1>2

LEMMA DeclareClassStep == SessionInv /\ DeclareClass => SessionInv'
<1> SUFFICES ASSUME SessionInv, DeclareClass PROVE SessionInv'
  OBVIOUS
<1> DEFINE x == Setting(Name, count)
<1>0. Declare("class", open, Emitted(Target, x))
  BY DEF DeclareClass
<1> SUFFICES ASSUME phase' = "compile" PROVE SessionInv'
  BY <1>0, DeclareRefused
<1>t. Types /\ Opened /\ open \in Seq(Blocks)
  BY <1>0 DEF SessionInv, Declare, InText, Opened
<1>1. PICK n, b, p : n = Name /\ b = Target /\ p = Len(code[b]) + 1
  OBVIOUS
<1>2. /\ phase = "compile" /\ n \notin DOMAIN names
      /\ names' = With(names, n, [type |-> "class", num |-> count])
      /\ code' = Emitted(b, x) /\ open' = open /\ count' = count + 1
      /\ nested' = IF open = <<>> THEN nested ELSE nested \cup {n}
  BY <1>0, <1>1 DEF Declare, InText, Numbered
<1>3. n \in Names /\ n \notin Keywords
  BY <1>0, <1>1, DeclaredName DEF Declare
<1>4. x \in Instrs /\ x.op = "set" /\ x.name = n /\ x.num = count
  BY <1>1, <1>3, <1>t DEF Setting, Instrs, Types
<1>5. b \in Bodies /\ (open = <<>> => b = Script)
  BY <1>1, <1>t, IntoBodies DEF Target, Into
<1> HIDE DEF x
<1>6. /\ DOMAIN names' = DOMAIN names \cup {n} /\ names'[n].num = count
      /\ \A m \in DOMAIN names : m # n /\ names'[m] = names[m]
      /\ nested \subseteq nested'
      /\ \A m \in DOMAIN names : m \in Tops' <=> m \in Tops
      /\ n \in Tops' <=> open = <<>>
      /\ FileNames => /\ FileNames'
                      /\ \A m : m \in Tops' => Before(m, n)'
                      /\ \A f \in DOMAIN names : \A m : Before(m, f)' => Before(m, f)
                      /\ \A f \in DOMAIN names : \A m : Before(m, f) => Before(m, f)'
  BY <1>2, <1>3, <1>t, DeclareNames
<1>7. /\ p \in Nat \ {0}
      /\ \A c \in Bodies : \A i, m : SetsAt(c, i, m) => SetsAt(c, i, m)'
      /\ \A c \in Bodies : \A i, m : SetsAt(c, i, m)' =>
            SetsAt(c, i, m) \/ (c = b /\ i = p /\ m = n)
      /\ \A c \in Bodies : \A i, m : UsesAt(c, i, m)' => UsesAt(c, i, m)
      /\ \A c \in Bodies : \A i, t : JumpsAt(c, i, t)' <=> JumpsAt(c, i, t)
      /\ \A c \in Bodies : \A i, m : SetsAt(c, i, m) \/ UsesAt(c, i, m) \/ JumpsAt(c, i, m) =>
                 i \in Nat \ {0} /\ (c = b => i < p)
      /\ SetsAt(b, p, n)'
      /\ \A c \in Bodies : DOMAIN code[c] \subseteq DOMAIN code'[c]
      /\ \A i \in DOMAIN code[b] : i \in Nat /\ i < p
  BY <1>1, <1>2, <1>4, <1>5, <1>t, EmitMeans
<1>8. /\ code' \in [Bodies -> Seq(Instrs)] /\ code'[b][p] = x
      /\ \A c \in Bodies : \A i \in DOMAIN code[c] : code'[c][i] = code[c][i]
      /\ \A c \in Bodies : \A i, t : JumpsAt(c, i, t)' => t \in Nat \ {0}
  BY <1>1, <1>2, <1>4, <1>5, <1>t, EmitEffect
<1>9. CodeRefers'
  <2> SUFFICES ASSUME NEW c \in Bodies, NEW i, NEW m, SetsAt(c, i, m)' \/ UsesAt(c, i, m)'
               PROVE  m \in DOMAIN names' /\ names'[m].num = code'[c][i].num
    BY DEF CodeRefers
  <2>1. CASE SetsAt(c, i, m) \/ UsesAt(c, i, m)
    <3>1. m \in DOMAIN names /\ names[m].num = code[c][i].num
      BY <2>1 DEF SessionInv, CodeRefers
    <3>2. i \in DOMAIN code[c]
      BY <2>1 DEF SetsAt, UsesAt
    <3> QED
      BY <1>6, <1>8, <3>1, <3>2
  <2>2. CASE c = b /\ i = p /\ m = n
    BY <1>4, <1>6, <1>8, <2>2
  <2> QED
    BY <1>7, <2>1, <2>2
<1>10. Opened'
  <2> SUFFICES ASSUME NEW k \in DOMAIN open, NEW c, NEW i, open[k].into = c, open[k].i = i
               PROVE  /\ open[k].op = "function" => c \in Functions_ \cap DOMAIN names'
                      /\ open[k].op = "if" => \E t : JumpsAt(c, i, t)'
    BY <1>2, <1>t DEF Opened
  <2>1. c \in Bodies
    <3>1. open[k] \in Blocks
      BY <1>t
    <3> QED
      BY <3>1 DEF Blocks
  <2> QED
    BY <1>6, <1>7, <1>t, <2>1 DEF Opened
<1>11. ASSUME mode = "file" PROVE FileCode'
  <2>1. FileNames /\ Enclosing /\ Bodied /\ Scripted
    BY <1>2, <1>11 DEF SessionInv, File, Active, FileCode
  <2>2. \A c \in Bodies : \A i, m : SetsAt(c, i, m) \/ UsesAt(c, i, m) => m \in DOMAIN names
    BY DEF SessionInv, CodeRefers
  <2>t. /\ b # Script => b \in DOMAIN names /\ open # <<>> /\ \A m \in Tops : Before(m, b)
        /\ b = Script /\ open # <<>> => open[1].op # "function"
    <3>1. open = <<>> \/ \E k \in DOMAIN open : open[Len(open)] = open[k] /\ open # <<>>
      BY <1>t
    <3> QED
      BY <1>1, <1>t, <2>1, <3>1, TargetKnows DEF Target
  <2>n. open # <<>> => n \in nested'
    BY <1>2
  <2>s. \A m : m \in Tops' => m = n \/ (m \in DOMAIN names /\ m \in Tops)
    BY <1>6 DEF Tops
  <2>3. Enclosing'
    <3> SUFFICES ASSUME NEW k \in DOMAIN open, NEW c, NEW i, open[k].into = c, open[k].i = i
                 PROVE  /\ c # Script =>
                              c \in DOMAIN names' /\ \A m : m \in Tops' => Before(m, c)'
                        /\ open[k].op = "function" /\ k # 1 => c \in nested'
                        /\ open[1].op = "function" => c # Script
                        /\ open[k].op = "if" /\ c = Script =>
                              \A j \in Nat : \A m : SetsAt(Script, j, m)' /\ j > i => m \in nested'
      BY <1>2 DEF Enclosing
    <3>1. open # <<>>
      OBVIOUS
    <3>2. \A m : m \in Tops' => m \in Tops
      BY <1>6, <2>s, <3>1
    <3>3. \A j \in Nat : \A m : SetsAt(Script, j, m)' => SetsAt(Script, j, m) \/ m \in nested'
      BY <1>7, <2>n, <3>1, ScriptApart
    <3> QED
      BY <1>6, <2>1, <3>2, <3>3 DEF Enclosing
  <2>4. Bodied'
    <3> SUFFICES ASSUME NEW c \in Functions_, NEW i, NEW m
                 PROVE  /\ UsesAt(c, i, m)' /\ m \in Tops' => c \in DOMAIN names' /\ Before(m, c)'
                        /\ SetsAt(c, i, m)' =>
                              /\ c \in DOMAIN names' /\ m \in nested'
                              /\ \A l : Before(l, m)' => Before(l, c)'
      BY DEF Bodied
    <3>1. c \in Bodies
      BY DEF Bodies
    <3>2. ASSUME UsesAt(c, i, m)', m \in Tops' PROVE c \in DOMAIN names' /\ Before(m, c)'
      <4>1. UsesAt(c, i, m) /\ m \in DOMAIN names /\ m \in Tops
        BY <1>6, <1>7, <2>2, <3>1, <3>2
      <4> QED
        BY <1>6, <2>1, <4>1 DEF Bodied
    <3>3. ASSUME SetsAt(c, i, m)'
          PROVE  c \in DOMAIN names' /\ m \in nested' /\ \A l : Before(l, m)' => Before(l, c)'
      <4>1. CASE SetsAt(c, i, m)
        <5>1. m \in DOMAIN names
          BY <2>2, <3>1, <4>1
        <5> QED
          BY <1>6, <2>1, <4>1, <5>1 DEF Bodied
      <4>2. CASE c = b /\ m = n
        <5>1. c # Script
          BY ScriptApart
        <5>2. c \in DOMAIN names /\ open # <<>> /\ n \in nested' /\ \A l \in Tops : Before(l, c)
          BY <2>n, <2>t, <4>2, <5>1
        <5>3. ASSUME NEW l, Before(l, n)' PROVE Before(l, c)'
          <6>1. l \in Tops' /\ l # n
            BY <1>6, <5>2, <5>3 DEF Before
          <6>2. l \in Tops
            BY <2>s, <6>1
          <6> QED
            BY <1>6, <2>1, <5>2, <6>2
        <5> QED
          BY <1>6, <4>2, <5>2, <5>3
      <4> QED
        BY <1>7, <3>1, <3>3, <4>1, <4>2
    <3> QED
      BY <3>2, <3>3
  <2>5. Scripted'
    <3>0. Script \in Bodies
      BY ScriptApart
    <3>1. ASSUME NEW m, m \in Tops' PROVE Ending(m)' \/ \E j \in Nat : SetsAt(Script, j, m)'
      <4>1. CASE m = n
        <5>1. b = Script
          BY <1>5, <1>6, <3>1, <4>1
        <5> QED
          BY <1>7, <4>1, <5>1
      <4>2. CASE m \in Tops
        <5>1. Ending(m) => Ending(m)'
          BY <1>2 DEF Ending
        <5> QED
          BY <1>7, <2>1, <3>0, <4>2, <5>1 DEF Scripted
      <4> QED
        BY <2>s, <3>1, <4>1, <4>2
    <3>2. ASSUME NEW i \in Nat, NEW f, NEW m, SetsAt(Script, i, f)', Before(m, f)'
          PROVE  \E j \in Nat : j <= i /\ SetsAt(Script, j, m)'
      <4>1. CASE SetsAt(Script, i, f)
        <5>1. f \in DOMAIN names
          BY <2>2, <3>0, <4>1
        <5>2. Before(m, f)
          BY <1>6, <2>1, <3>2, <5>1
        <5> QED
          BY <1>7, <2>1, <3>0, <4>1, <5>2 DEF Scripted
      <4>2. CASE Script = b /\ i = p /\ f = n
        <5>1. CASE m = n
          BY <1>7, <4>2, <5>1
        <5>2. CASE m \in Tops
          <6>1. ~ Ending(m)
            BY <2>t, <4>2 DEF Ending
          <6>2. PICK j \in Nat : SetsAt(Script, j, m)
            BY <2>1, <5>2, <6>1 DEF Scripted
          <6>3. j < p
            BY <1>7, <3>0, <4>2, <6>2
          <6> QED
            BY <1>7, <3>0, <4>2, <6>2, <6>3
        <5>3. m \in Tops'
          BY <3>2 DEF Before
        <5> QED
          BY <2>s, <5>1, <5>2, <5>3
      <4> QED
        BY <1>7, <3>0, <3>2, <4>1, <4>2
    <3>3. ASSUME NEW i \in Nat, NEW m, m \in Tops', UsesAt(Script, i, m)'
          PROVE  \E j \in Nat : j < i /\ SetsAt(Script, j, m)'
      <4>1. UsesAt(Script, i, m) /\ m \in DOMAIN names
        BY <1>7, <2>2, <3>0, <3>3
      <4>2. m \in Tops
        BY <1>6, <3>3, <4>1
      <4> QED
        BY <1>7, <2>1, <3>0, <4>1, <4>2 DEF Scripted
    <3>4. ASSUME NEW i \in Nat, NEW j \in Nat, NEW t, NEW m,
                 JumpsAt(Script, i, t)', SetsAt(Script, j, m)', i < j, j < t
          PROVE  m \in nested'
      <4>1. JumpsAt(Script, i, t) /\ t \in Nat
        BY <1>7, <1>8, <3>0, <3>4
      <4>2. CASE SetsAt(Script, j, m)
        BY <1>6, <2>1, <3>4, <4>1, <4>2 DEF Scripted
      <4>3. CASE Script = b /\ j = p
        <5>1. t = 1 \/ t - 1 \in DOMAIN code[Script]
          BY <2>1, <4>1 DEF Scripted
        <5>2. t = 1 \/ t - 1 < p
          BY <1>7, <4>3, <5>1
        <5> QED
          BY <1>7, <3>4, <4>1, <4>3, <5>2
      <4> QED
        BY <1>7, <3>0, <3>4, <4>2, <4>3
    <3>5. ASSUME NEW i \in Nat, NEW t, JumpsAt(Script, i, t)'
          PROVE  t = 1 \/ t - 1 \in DOMAIN code'[Script]
      BY <1>7, <2>1, <3>0, <3>5 DEF Scripted
    <3> QED
      BY <3>1, <3>2, <3>3, <3>4, <3>5 DEF Scripted
  <2> QED
    BY <1>6, <2>1, <2>3, <2>4, <2>5 DEF FileCode
<1> QED
  BY <1>0, <1>8, <1>9, <1>10, <1>11, DeclareStep

(* What the compiler writes when it declares nothing.                      *)
LEMMA GoesStep ==
    ASSUME SessionInv, phase = "compile", phase' \in {"compile", "lost"},
           UNCHANGED <<mode, names, text, count, nested, obj, native, globals, at, calls,
                       gen, stored, used>>,
           next' = next + 1,
           code' \in [Bodies -> Seq(Instrs)], CodeRefers', Opened',
           \A b \in Bodies : \A i, t : JumpsAt(b, i, t)' => t \in Nat \ {0},
           mode = "file" => FileCode'
    PROVE  SessionInv'
<1>1. Types'
  <2>1. next' \in Nat \ {0}
    BY DEF SessionInv, Types
  <2> QED
    BY <2>1 DEF SessionInv, Types
<1>2. Placed' /\ used' = None
  BY PlacedKept DEF SessionInv, Unused
<1>3. File'
  BY DEF SessionInv, File, FileCompile, Active
<1> QED
  BY <1>1, <1>2, <1>3, NoneMeant DEF SessionInv, Unused

(* The names are what they were, and so is their order.                    *)
LEMMA SameNames ==
    ASSUME UNCHANGED <<names, nested>>
    PROVE  /\ Tops' = Tops
           /\ \A m, f : Before(m, f)' <=> Before(m, f)
           /\ FileNames /\ count' = count => FileNames'
BY DEF Tops, Before, FileNames

(* A block ends.                                                           *)
LEMMA PoppedBlock ==
    ASSUME NEW blocks \in Seq(Blocks), blocks # <<>>, NEW popped,
           popped = SubSeq(blocks, 1, Len(blocks) - 1)
    PROVE  /\ popped \in Seq(Blocks)
           /\ \A k \in DOMAIN popped : k \in DOMAIN blocks /\ popped[k] = blocks[k]
           /\ popped # <<>> => 1 \in DOMAIN popped /\ popped[1] = blocks[1]
                               /\ Len(popped) \in DOMAIN popped /\ Len(blocks) # 1
           /\ popped = <<>> => Len(blocks) = 1
           /\ Len(blocks) \in DOMAIN blocks
<1>1. PICK l : l = Len(blocks)
  OBVIOUS
<1>2. l \in Nat \ {0} /\ DOMAIN blocks = 1 .. l
  BY <1>1
<1>3. popped = [k \in 1 .. l - 1 |-> blocks[k]]
  BY <1>1, <1>2
<1>4. popped \in Seq(Blocks) /\ Len(popped) = l - 1 /\ DOMAIN popped = 1 .. l - 1
  BY <1>1, <1>2, <1>3
<1>5. \A k \in DOMAIN popped : k \in DOMAIN blocks /\ popped[k] = blocks[k]
  BY <1>2, <1>3, <1>4
<1>6. popped # <<>> => l - 1 >= 1
  <2>1. Len(popped) = 0 => popped = <<>>
    BY <1>4
  <2> QED
    BY <1>2, <1>4, <2>1
<1>7. popped = <<>> => l = 1
  <2>1. popped = <<>> => Len(popped) = 0
    OBVIOUS
  <2> QED
    BY <1>2, <1>4, <2>1
<1> QED
  BY <1>1, <1>2, <1>4, <1>5, <1>6, <1>7

LEMMA EndFunctionStep == SessionInv /\ EndFunction => SessionInv'
<1> SUFFICES ASSUME SessionInv, EndFunction PROVE SessionInv'
  OBVIOUS
<1>t. /\ Types /\ Opened /\ open \in Seq(Blocks) /\ open # <<>> /\ phase = "compile"
      /\ CodeRefers
  BY DEF EndFunction, SessionInv, InText, Opened
<1>1. PICK f, b, p, last, inner : /\ f = Inner.into /\ b = Into(Outer) /\ p = Len(code[b]) + 1
                                  /\ last = Len(open) /\ inner = open[last].i
  OBVIOUS
<1> DEFINE x == Setting(f, names[f].num)
<1>2. /\ phase' = phase /\ next' = next + 1 /\ open' = Outer /\ code' = Emitted(b, x)
      /\ UNCHANGED <<mode, names, text, count, nested, obj, native, globals, at, calls,
                     gen, stored, used>>
      /\ open[last].op = "function" /\ open[last].into = f /\ open[last].i = inner
  BY <1>1 DEF EndFunction, Goes, machine, histories, Inner
<1>3. /\ open' \in Seq(Blocks)
      /\ \A k \in DOMAIN open' : k \in DOMAIN open /\ open'[k] = open[k]
      /\ open' # <<>> => /\ 1 \in DOMAIN open' /\ open'[1] = open[1]
                         /\ Len(open') \in DOMAIN open' /\ last # 1
      /\ open' = <<>> => last = 1
      /\ last \in DOMAIN open
  BY <1>1, <1>2, <1>t, PoppedBlock DEF Outer
<1>4. f \in Functions_ /\ f \in DOMAIN names /\ names[f].num \in Nat
  BY <1>2, <1>3, <1>t DEF Opened, Types
<1>5. x \in Instrs /\ x.op = "set" /\ x.name = f /\ x.num = names[f].num
  BY <1>4 DEF Setting, Instrs, Names
<1>6. b \in Bodies
  BY <1>1, <1>2, <1>3, IntoBodies
<1> HIDE DEF x
<1>7. /\ p \in Nat \ {0}
      /\ \A c \in Bodies : \A i, m : SetsAt(c, i, m) => SetsAt(c, i, m)'
      /\ \A c \in Bodies : \A i, m : SetsAt(c, i, m)' =>
            SetsAt(c, i, m) \/ (c = b /\ i = p /\ m = f)
      /\ \A c \in Bodies : \A i, m : UsesAt(c, i, m)' => UsesAt(c, i, m)
      /\ \A c \in Bodies : \A i, t : JumpsAt(c, i, t)' <=> JumpsAt(c, i, t)
      /\ \A c \in Bodies : \A i, m : SetsAt(c, i, m) \/ UsesAt(c, i, m) \/ JumpsAt(c, i, m) =>
                 i \in Nat \ {0} /\ (c = b => i < p)
      /\ SetsAt(b, p, f)'
      /\ \A c \in Bodies : DOMAIN code[c] \subseteq DOMAIN code'[c]
      /\ \A i \in DOMAIN code[b] : i \in Nat /\ i < p
  BY <1>1, <1>2, <1>5, <1>6, <1>t, EmitMeans
<1>8. /\ code' \in [Bodies -> Seq(Instrs)] /\ code'[b][p] = x
      /\ \A c \in Bodies : \A i \in DOMAIN code[c] : code'[c][i] = code[c][i]
      /\ \A c \in Bodies : \A i, t : JumpsAt(c, i, t)' => t \in Nat \ {0}
  BY <1>1, <1>2, <1>5, <1>6, <1>t, EmitEffect
<1>9. CodeRefers'
  <2> SUFFICES ASSUME NEW c \in Bodies, NEW i, NEW m, SetsAt(c, i, m)' \/ UsesAt(c, i, m)'
               PROVE  m \in DOMAIN names' /\ names'[m].num = code'[c][i].num
    BY DEF CodeRefers
  <2>1. CASE SetsAt(c, i, m) \/ UsesAt(c, i, m)
    <3>1. m \in DOMAIN names /\ names[m].num = code[c][i].num
      BY <1>t, <2>1 DEF CodeRefers
    <3>2. i \in DOMAIN code[c]
      BY <2>1 DEF SetsAt, UsesAt
    <3> QED
      BY <1>2, <1>8, <3>1, <3>2
  <2>2. CASE c = b /\ i = p /\ m = f
    BY <1>2, <1>4, <1>5, <1>8, <2>2
  <2> QED
    BY <1>7, <2>1, <2>2
<1>10. Opened'
  <2> SUFFICES ASSUME NEW k \in DOMAIN open', NEW c, NEW i, open'[k].into = c, open'[k].i = i
               PROVE  /\ open'[k].op = "function" => c \in Functions_ \cap DOMAIN names'
                      /\ open'[k].op = "if" => \E t : JumpsAt(c, i, t)'
    BY <1>3 DEF Opened
  <2>1. k \in DOMAIN open /\ open'[k] = open[k]
    BY <1>3
  <2>2. c \in Bodies
    <3>1. open[k] \in Blocks
      BY <1>t, <2>1
    <3> QED
      BY <2>1, <3>1 DEF Blocks
  <2> QED
    BY <1>2, <1>7, <1>t, <2>1, <2>2 DEF Opened
<1>11. ASSUME mode = "file" PROVE FileCode'
  <2>1. FileNames /\ Enclosing /\ Bodied /\ Scripted
    BY <1>11, <1>t DEF SessionInv, File, Active, FileCode
  <2>2. Tops' = Tops /\ FileNames' /\ \A m, c : Before(m, c)' <=> Before(m, c)
    BY <1>2, <2>1, SameNames
  <2>t. /\ b # Script => b \in DOMAIN names /\ open' # <<>> /\ \A m \in Tops : Before(m, b)
        /\ b = Script /\ open' # <<>> => open[1].op # "function"
    <3>1. open' = <<>> \/ \E k \in DOMAIN open : open'[Len(open')] = open[k] /\ open' # <<>>
      BY <1>3
    <3> QED
      BY <1>1, <1>2, <1>3, <1>t, <2>1, <3>1, TargetKnows
  <2>n. open' # <<>> => f \in nested
    BY <1>2, <1>3, <2>1 DEF Enclosing
  <2>3. Enclosing'
    <3> SUFFICES ASSUME NEW k \in DOMAIN open', NEW c, NEW i,
                        open'[k].into = c, open'[k].i = i
                 PROVE  /\ c # Script =>
                              c \in DOMAIN names' /\ \A m : m \in Tops' => Before(m, c)'
                        /\ open'[k].op = "function" /\ k # 1 => c \in nested'
                        /\ open'[1].op = "function" => c # Script
                        /\ open'[k].op = "if" /\ c = Script =>
                              \A j \in Nat : \A m : SetsAt(Script, j, m)' /\ j > i => m \in nested'
      BY DEF Enclosing
    <3>1. open' # <<>>
      OBVIOUS
    <3>2. k \in DOMAIN open /\ open'[k] = open[k] /\ open'[1] = open[1]
      BY <1>3, <3>1
    <3>3. \A j \in Nat : \A m : SetsAt(Script, j, m)' => SetsAt(Script, j, m) \/ m \in nested
      BY <1>7, <2>n, <3>1, ScriptApart
    <3> QED
      BY <1>2, <2>1, <2>2, <3>2, <3>3 DEF Enclosing
  <2>4. Bodied'
    <3> SUFFICES ASSUME NEW c \in Functions_, NEW i, NEW m
                 PROVE  /\ UsesAt(c, i, m)' /\ m \in Tops' => c \in DOMAIN names' /\ Before(m, c)'
                        /\ SetsAt(c, i, m)' =>
                              /\ c \in DOMAIN names' /\ m \in nested'
                              /\ \A l : Before(l, m)' => Before(l, c)'
      BY DEF Bodied
    <3>1. c \in Bodies
      BY DEF Bodies
    <3>2. ASSUME UsesAt(c, i, m)', m \in Tops' PROVE c \in DOMAIN names' /\ Before(m, c)'
      BY <1>2, <1>7, <2>1, <2>2, <3>1, <3>2 DEF Bodied
    <3>3. ASSUME SetsAt(c, i, m)'
          PROVE  c \in DOMAIN names' /\ m \in nested' /\ \A l : Before(l, m)' => Before(l, c)'
      <4>1. CASE SetsAt(c, i, m)
        BY <1>2, <2>1, <2>2, <4>1 DEF Bodied
      <4>2. CASE c = b /\ m = f
        <5>1. c # Script
          BY ScriptApart
        <5>2. c \in DOMAIN names /\ f \in nested /\ \A l \in Tops : Before(l, c)
          BY <2>n, <2>t, <4>2, <5>1
        <5>3. \A l : Before(l, f) => l \in Tops
          BY DEF Before
        <5> QED
          BY <1>2, <2>2, <4>2, <5>2, <5>3
      <4> QED
        BY <1>7, <3>1, <3>3, <4>1, <4>2
    <3> QED
      BY <3>2, <3>3
  <2>5. Scripted'
    <3>0. Script \in Bodies
      BY ScriptApart
    <3>1. ASSUME NEW m, m \in Tops' PROVE Ending(m)' \/ \E j \in Nat : SetsAt(Script, j, m)'
      <4>1. CASE Ending(m)
        <5>1. open' # <<>> => Ending(m)'
          BY <1>3, <4>1 DEF Ending
        <5>2. ASSUME open' = <<>> PROVE SetsAt(Script, p, m)'
          <6>1. m = f
            BY <1>2, <1>3, <4>1, <5>2 DEF Ending
          <6>2. b = Script
            BY <2>t, <5>2
          <6> QED
            BY <1>7, <6>1, <6>2
        <5> QED
          BY <1>7, <5>1, <5>2
      <4>2. CASE \E j \in Nat : SetsAt(Script, j, m)
        BY <1>7, <3>0, <4>2
      <4> QED
        BY <2>1, <2>2, <3>1, <4>1, <4>2 DEF Scripted
    <3>2. ASSUME NEW i \in Nat, NEW g, NEW m, SetsAt(Script, i, g)', Before(m, g)'
          PROVE  \E j \in Nat : j <= i /\ SetsAt(Script, j, m)'
      <4>1. CASE SetsAt(Script, i, g)
        BY <1>7, <2>1, <2>2, <3>0, <3>2, <4>1 DEF Scripted
      <4>2. CASE Script = b /\ i = p /\ g = f
        <5>1. CASE Ending(m)
          <6>1. open' = <<>>
            BY <2>t, <4>2, <5>1 DEF Ending
          <6>2. m = f
            BY <1>2, <1>3, <5>1, <6>1 DEF Ending
          <6> QED
            BY <1>7, <4>2, <6>2
        <5>2. CASE \E j \in Nat : SetsAt(Script, j, m)
          <6>1. PICK j \in Nat : SetsAt(Script, j, m)
            BY <5>2
          <6>2. j < p
            BY <1>7, <3>0, <4>2, <6>1
          <6> QED
            BY <1>7, <3>0, <4>2, <6>1, <6>2
        <5>3. m \in Tops
          BY <2>2, <3>2 DEF Before
        <5> QED
          BY <2>1, <5>1, <5>2, <5>3 DEF Scripted
      <4> QED
        BY <1>7, <3>0, <3>2, <4>1, <4>2
    <3>3. ASSUME NEW i \in Nat, NEW m, m \in Tops', UsesAt(Script, i, m)'
          PROVE  \E j \in Nat : j < i /\ SetsAt(Script, j, m)'
      BY <1>7, <2>1, <2>2, <3>0, <3>3 DEF Scripted
    <3>4. ASSUME NEW i \in Nat, NEW j \in Nat, NEW t, NEW m,
                 JumpsAt(Script, i, t)', SetsAt(Script, j, m)', i < j, j < t
          PROVE  m \in nested'
      <4>1. JumpsAt(Script, i, t) /\ t \in Nat
        BY <1>7, <1>8, <3>0, <3>4
      <4>2. CASE SetsAt(Script, j, m)
        BY <1>2, <2>1, <3>4, <4>1, <4>2 DEF Scripted
      <4>3. CASE Script = b /\ j = p
        <5>1. t = 1 \/ t - 1 \in DOMAIN code[Script]
          BY <2>1, <4>1 DEF Scripted
        <5>2. t = 1 \/ t - 1 < p
          BY <1>7, <4>3, <5>1
        <5> QED
          BY <1>7, <3>4, <4>1, <4>3, <5>2
      <4> QED
        BY <1>7, <3>0, <3>4, <4>2, <4>3
    <3>5. ASSUME NEW i \in Nat, NEW t, JumpsAt(Script, i, t)'
          PROVE  t = 1 \/ t - 1 \in DOMAIN code'[Script]
      BY <1>7, <2>1, <3>0, <3>5 DEF Scripted
    <3> QED
      BY <3>1, <3>2, <3>3, <3>4, <3>5 DEF Scripted
  <2> QED
    BY <2>2, <2>3, <2>4, <2>5 DEF FileCode
<1> QED
  BY <1>2, <1>8, <1>9, <1>10, <1>11, <1>t, GoesStep

LEMMA IfStep == SessionInv /\ If => SessionInv'
<1> SUFFICES ASSUME SessionInv, If PROVE SessionInv'
  OBVIOUS
<1>t. /\ Types /\ Opened /\ open \in Seq(Blocks) /\ phase = "compile" /\ CodeRefers
  BY DEF If, SessionInv, InText, Opened
<1>1. PICK b, p : b = Target /\ p = Len(code[b]) + 1
  OBVIOUS
<1> DEFINE x == Jump(1)
           y == Block("if", b, p)
<1>2. /\ phase' = phase /\ next' = next + 1 /\ open' = Append(open, y)
      /\ code' = Emitted(b, x)
      /\ UNCHANGED <<mode, names, text, count, nested, obj, native, globals, at, calls,
                     gen, stored, used>>
  BY <1>1 DEF If, Goes, machine, histories
<1>3. x \in Instrs /\ x.op = "if" /\ x.num = 1
  BY DEF Jump, Instrs
<1>4. b \in Bodies /\ (open = <<>> => b = Script)
  BY <1>1, <1>t, IntoBodies DEF Target, Into
<1> HIDE DEF x
<1>7. /\ p \in Nat \ {0}
      /\ \A c \in Bodies : \A i, m : SetsAt(c, i, m)' <=> SetsAt(c, i, m)
      /\ \A c \in Bodies : \A i, m : UsesAt(c, i, m)' => UsesAt(c, i, m)
      /\ \A c \in Bodies : \A i, t : JumpsAt(c, i, t) => JumpsAt(c, i, t)'
      /\ \A c \in Bodies : \A i, t : JumpsAt(c, i, t)' =>
            JumpsAt(c, i, t) \/ (c = b /\ i = p /\ t = 1)
      /\ \A c \in Bodies : \A i, m : SetsAt(c, i, m) \/ UsesAt(c, i, m) \/ JumpsAt(c, i, m) =>
                 i \in Nat \ {0} /\ (c = b => i < p)
      /\ JumpsAt(b, p, 1)'
      /\ \A c \in Bodies : DOMAIN code[c] \subseteq DOMAIN code'[c]
  BY <1>1, <1>2, <1>3, <1>4, <1>t, EmitMeans
<1>8. /\ code' \in [Bodies -> Seq(Instrs)]
      /\ \A c \in Bodies : \A i \in DOMAIN code[c] : code'[c][i] = code[c][i]
      /\ \A c \in Bodies : \A i, t : JumpsAt(c, i, t)' => t \in Nat \ {0}
  BY <1>1, <1>2, <1>3, <1>4, <1>t, EmitEffect
<1>5. y \in Blocks /\ y.op = "if" /\ y.into = b /\ y.i = p
  BY <1>4, <1>7 DEF Block, Blocks
<1> HIDE DEF y
<1>6. /\ open' \in Seq(Blocks)
      /\ \A k \in DOMAIN open : k \in DOMAIN open' /\ open'[k] = open[k]
      /\ \A k \in DOMAIN open' : k \in DOMAIN open \/ (k = Len(open) + 1 /\ open'[k] = y)
      /\ open'[1] = IF open = <<>> THEN y ELSE open[1]
      /\ open # <<>> => 1 \in DOMAIN open
      /\ 1 \in DOMAIN open'
  BY <1>2, <1>5, <1>t, PushedBlock
<1>9. CodeRefers'
  <2> SUFFICES ASSUME NEW c \in Bodies, NEW i, NEW m, SetsAt(c, i, m)' \/ UsesAt(c, i, m)'
               PROVE  m \in DOMAIN names' /\ names'[m].num = code'[c][i].num
    BY DEF CodeRefers
  <2>1. SetsAt(c, i, m) \/ UsesAt(c, i, m)
    BY <1>7
  <2>2. m \in DOMAIN names /\ names[m].num = code[c][i].num
    BY <1>t, <2>1 DEF CodeRefers
  <2>3. i \in DOMAIN code[c]
    BY <2>1 DEF SetsAt, UsesAt
  <2> QED
    BY <1>2, <1>8, <2>2, <2>3
<1>10. Opened'
  <2> SUFFICES ASSUME NEW k \in DOMAIN open', NEW c, NEW i, open'[k].into = c, open'[k].i = i
               PROVE  /\ open'[k].op = "function" => c \in Functions_ \cap DOMAIN names'
                      /\ open'[k].op = "if" => \E t : JumpsAt(c, i, t)'
    BY <1>6 DEF Opened
  <2>1. CASE k \in DOMAIN open
    <3>1. open'[k] = open[k] /\ open[k] \in Blocks
      BY <1>6, <1>t, <2>1
    <3>2. c \in Bodies
      BY <3>1 DEF Blocks
    <3> QED
      BY <1>2, <1>7, <1>t, <2>1, <3>1, <3>2 DEF Opened
  <2>2. CASE open'[k] = y
    BY <1>5, <1>7, <2>2
  <2> QED
    BY <1>6, <2>1, <2>2
<1>11. ASSUME mode = "file" PROVE FileCode'
  <2>1. FileNames /\ Enclosing /\ Bodied /\ Scripted
    BY <1>11, <1>t DEF SessionInv, File, Active, FileCode
  <2>2. Tops' = Tops /\ FileNames' /\ \A m, c : Before(m, c)' <=> Before(m, c)
    BY <1>2, <2>1, SameNames
  <2>t. /\ b # Script => b \in DOMAIN names /\ open # <<>> /\ \A m \in Tops : Before(m, b)
        /\ b = Script /\ open # <<>> => open[1].op # "function"
    <3>1. open = <<>> \/ \E k \in DOMAIN open : open[Len(open)] = open[k] /\ open # <<>>
      BY <1>t
    <3> QED
      BY <1>1, <1>t, <2>1, <3>1, TargetKnows DEF Target
  <2>0. Script \in Bodies
    BY ScriptApart
  <2>3. Enclosing'
    <3> SUFFICES ASSUME NEW k \in DOMAIN open', NEW c, NEW i,
                        open'[k].into = c, open'[k].i = i
                 PROVE  /\ c # Script =>
                              c \in DOMAIN names' /\ \A m : m \in Tops' => Before(m, c)'
                        /\ open'[k].op = "function" /\ k # 1 => c \in nested'
                        /\ open'[1].op = "function" => c # Script
                        /\ open'[k].op = "if" /\ c = Script =>
                              \A j \in Nat : \A m : SetsAt(Script, j, m)' /\ j > i => m \in nested'
      BY DEF Enclosing
    <3>1. CASE k \in DOMAIN open
      <4>1. open'[k] = open[k] /\ open # <<>> /\ open'[1] = open[1]
        BY <1>6, <3>1
      <4> QED
        BY <1>2, <1>7, <2>0, <2>1, <2>2, <3>1, <4>1 DEF Enclosing
    <3>2. CASE open'[k] = y
      <4>1. c = b /\ i = p /\ open'[k].op = "if"
        BY <1>5, <3>2
      <4>2. open'[1].op = "function" => c # Script
        BY <1>5, <1>6, <2>t, <4>1
      <4>3. \A j \in Nat : \A m : c = Script /\ SetsAt(Script, j, m)' => ~ (j > i)
        BY <1>7, <2>0, <4>1
      <4> QED
        BY <1>2, <2>2, <2>t, <4>1, <4>2, <4>3
    <3> QED
      BY <1>6, <3>1, <3>2
  <2>4. Bodied'
    <3>1. Functions_ \subseteq Bodies
      BY DEF Bodies
    <3> QED
      BY <1>2, <1>7, <2>1, <2>2, <3>1 DEF Bodied
  <2>5. Scripted'
    <3>1. ASSUME NEW m, m \in Tops' PROVE Ending(m)' \/ \E j \in Nat : SetsAt(Script, j, m)'
      <4>1. Ending(m) => Ending(m)'
        BY <1>6 DEF Ending
      <4> QED
        BY <1>7, <2>0, <2>1, <2>2, <3>1, <4>1 DEF Scripted
    <3>2. ASSUME NEW i \in Nat, NEW g, NEW m, SetsAt(Script, i, g)', Before(m, g)'
          PROVE  \E j \in Nat : j <= i /\ SetsAt(Script, j, m)'
      BY <1>7, <2>0, <2>1, <2>2, <3>2 DEF Scripted
    <3>3. ASSUME NEW i \in Nat, NEW m, m \in Tops', UsesAt(Script, i, m)'
          PROVE  \E j \in Nat : j < i /\ SetsAt(Script, j, m)'
      BY <1>7, <2>0, <2>1, <2>2, <3>3 DEF Scripted
    <3>4. ASSUME NEW i \in Nat, NEW j \in Nat, NEW t, NEW m,
                 JumpsAt(Script, i, t)', SetsAt(Script, j, m)', i < j, j < t
          PROVE  m \in nested'
      <4>1. t # 1
        BY <3>4
      <4>2. JumpsAt(Script, i, t) /\ SetsAt(Script, j, m)
        BY <1>7, <2>0, <3>4, <4>1
      <4> QED
        BY <1>2, <2>1, <3>4, <4>2 DEF Scripted
    <3>5. ASSUME NEW i \in Nat, NEW t, JumpsAt(Script, i, t)'
          PROVE  t = 1 \/ t - 1 \in DOMAIN code'[Script]
      BY <1>7, <2>0, <2>1, <3>5 DEF Scripted
    <3> QED
      BY <3>1, <3>2, <3>3, <3>4, <3>5 DEF Scripted
  <2> QED
    BY <2>2, <2>3, <2>4, <2>5 DEF FileCode
<1> QED
  BY <1>2, <1>8, <1>9, <1>10, <1>11, <1>t, GoesStep

LEMMA EndIfStep == SessionInv /\ EndIf => SessionInv'
<1> SUFFICES ASSUME SessionInv, EndIf PROVE SessionInv'
  OBVIOUS
<1>t. /\ Types /\ Opened /\ open \in Seq(Blocks) /\ open # <<>> /\ phase = "compile"
      /\ CodeRefers
  BY DEF EndIf, SessionInv, InText, Opened
<1>1. PICK b, i, q, last : /\ b = Target /\ i = Inner.i /\ q = Len(code[b]) + 1
                           /\ last = Len(open)
  OBVIOUS
<1>2. /\ phase' = phase /\ next' = next + 1 /\ open' = Outer
      /\ code' = [code EXCEPT ![b] = [@ EXCEPT ![i] = Jump(q)]]
      /\ UNCHANGED <<mode, names, text, count, nested, obj, native, globals, at, calls,
                     gen, stored, used>>
      /\ open[last].op = "if" /\ open[last].i = i
  BY <1>1 DEF EndIf, Goes, machine, histories, Inner
<1>3. /\ open' \in Seq(Blocks)
      /\ \A k \in DOMAIN open' : k \in DOMAIN open /\ open'[k] = open[k]
      /\ open' # <<>> => 1 \in DOMAIN open' /\ open'[1] = open[1]
      /\ open' = <<>> => last = 1
      /\ last \in DOMAIN open
  BY <1>1, <1>2, <1>t, PoppedBlock DEF Outer
<1>4. b \in Bodies /\ open[last].into = b
  BY <1>1, <1>t, IntoBodies DEF Target
<1>5. PICK u : JumpsAt(b, i, u)
  BY <1>2, <1>3, <1>4, <1>t DEF Opened
<1>6. PICK s, r : s = code[b] /\ r = [s EXCEPT ![i] = Jump(q)]
  OBVIOUS
<1>7. /\ s \in Seq(Instrs) /\ i \in DOMAIN s /\ s[i].op = "if"
      /\ q \in Nat \ {0} /\ Len(s) = q - 1 /\ DOMAIN s = 1 .. q - 1
  <2>1. s \in Seq(Instrs)
    BY <1>4, <1>6, <1>t DEF Types
  <2>2. q = Len(s) + 1
    BY <1>1, <1>6
  <2> QED
    BY <1>5, <1>6, <2>1, <2>2 DEF JumpsAt
<1>8. /\ Jump(q) \in Instrs /\ Jump(q).op = "if" /\ Jump(q).num = q
  BY <1>7 DEF Jump, Instrs
<1>9. /\ r \in Seq(Instrs) /\ DOMAIN r = DOMAIN s /\ r[i] = Jump(q)
      /\ \A j \in DOMAIN s : j # i => r[j] = s[j]
  BY <1>6, <1>7, <1>8
<1>10. /\ code' \in [Bodies -> Seq(Instrs)] /\ code'[b] = r
       /\ \A c \in Bodies : c # b => code'[c] = code[c]
  <2>1. code' = [code EXCEPT ![b] = r]
    BY <1>2, <1>6
  <2> QED
    BY <1>4, <1>9, <1>t, <2>1 DEF Types
<1>11. /\ \A c \in Bodies : DOMAIN code'[c] = DOMAIN code[c]
       /\ \A c \in Bodies : \A j \in DOMAIN code[c] :
             (c = b /\ j = i) \/ code'[c][j] = code[c][j]
       /\ code[b][i].op = "if" /\ code'[b][i] = Jump(q)
  BY <1>6, <1>7, <1>9, <1>10
<1>12. /\ \A c \in Bodies : \A j, m : SetsAt(c, j, m)' <=> SetsAt(c, j, m)
       /\ \A c \in Bodies : \A j, m : UsesAt(c, j, m)' <=> UsesAt(c, j, m)
  <2>1. Jump(q).op = "if"
    BY <1>8
  <2> QED
    BY <1>11, <2>1 DEF SetsAt, UsesAt
<1>13. /\ \A c \in Bodies : \A j, t : JumpsAt(c, j, t)' =>
             JumpsAt(c, j, t) \/ (c = b /\ j = i /\ t = q)
       /\ \A c \in Bodies : \A j, t : JumpsAt(c, j, t) => \E v : JumpsAt(c, j, v)'
  <2>1. Jump(q).op = "if" /\ Jump(q).num = q
    BY <1>8
  <2>2. JumpsAt(b, i, q)'
    BY <1>5, <1>11, <2>1, <1>4 DEF JumpsAt
  <2> QED
    BY <1>11, <2>1, <2>2 DEF JumpsAt
<1>14. CodeRefers'
  <2> SUFFICES ASSUME NEW c \in Bodies, NEW j, NEW m, SetsAt(c, j, m)' \/ UsesAt(c, j, m)'
               PROVE  m \in DOMAIN names' /\ names'[m].num = code'[c][j].num
    BY DEF CodeRefers
  <2>1. SetsAt(c, j, m) \/ UsesAt(c, j, m)
    BY <1>12
  <2>2. m \in DOMAIN names /\ names[m].num = code[c][j].num
    BY <1>t, <2>1 DEF CodeRefers
  <2>3. j \in DOMAIN code[c] /\ code[c][j].op # "if"
    BY <2>1 DEF SetsAt, UsesAt
  <2> QED
    BY <1>2, <1>11, <2>2, <2>3
<1>15. Opened'
  <2> SUFFICES ASSUME NEW k \in DOMAIN open', NEW c, NEW j, open'[k].into = c, open'[k].i = j
               PROVE  /\ open'[k].op = "function" => c \in Functions_ \cap DOMAIN names'
                      /\ open'[k].op = "if" => \E t : JumpsAt(c, j, t)'
    BY <1>3 DEF Opened
  <2>1. k \in DOMAIN open /\ open'[k] = open[k]
    BY <1>3
  <2>2. c \in Bodies
    <3>1. open[k] \in Blocks
      BY <1>t, <2>1
    <3> QED
      BY <2>1, <3>1 DEF Blocks
  <2>3. open[k].op = "if" => \E t : JumpsAt(c, j, t)'
    <3>1. open[k].op = "if" => \E t : JumpsAt(c, j, t)
      BY <1>t, <2>1 DEF Opened
    <3> QED
      BY <1>13, <2>2, <3>1
  <2> QED
    BY <1>2, <1>t, <2>1, <2>3 DEF Opened
<1>16. \A c \in Bodies : \A j, t : JumpsAt(c, j, t)' => t \in Nat \ {0}
  BY <1>7, <1>13, <1>t DEF Types
<1>17. ASSUME mode = "file" PROVE FileCode'
  <2>1. FileNames /\ Enclosing /\ Bodied /\ Scripted
    BY <1>17, <1>t DEF SessionInv, File, Active, FileCode
  <2>2. Tops' = Tops /\ FileNames' /\ \A m, c : Before(m, c)' <=> Before(m, c)
    BY <1>2, <2>1, SameNames
  <2>0. Script \in Bodies /\ Functions_ \subseteq Bodies
    BY ScriptApart DEF Bodies
  <2>3. Enclosing'
    <3> SUFFICES ASSUME NEW k \in DOMAIN open', NEW c, NEW j,
                        open'[k].into = c, open'[k].i = j
                 PROVE  /\ c # Script =>
                              c \in DOMAIN names' /\ \A m : m \in Tops' => Before(m, c)'
                        /\ open'[k].op = "function" /\ k # 1 => c \in nested'
                        /\ open'[1].op = "function" => c # Script
                        /\ open'[k].op = "if" /\ c = Script =>
                              \A l \in Nat : \A m : SetsAt(Script, l, m)' /\ l > j => m \in nested'
      BY DEF Enclosing
    <3>1. k \in DOMAIN open /\ open'[k] = open[k] /\ open'[1] = open[1]
      BY <1>3
    <3> QED
      BY <1>2, <1>12, <2>0, <2>1, <2>2, <3>1 DEF Enclosing
  <2>4. Bodied'
    BY <1>2, <1>12, <2>0, <2>1, <2>2 DEF Bodied
  <2>5. Scripted'
    <3>1. ASSUME NEW m, m \in Tops' PROVE Ending(m)' \/ \E j \in Nat : SetsAt(Script, j, m)'
      <4>1. Ending(m) => Ending(m)'
        <5>1. open' = <<>> => open[1].op # "function"
          BY <1>2, <1>3
        <5> QED
          BY <1>3, <5>1 DEF Ending
      <4> QED
        BY <1>12, <2>0, <2>1, <2>2, <3>1, <4>1 DEF Scripted
    <3>2. ASSUME NEW j \in Nat, NEW g, NEW m, SetsAt(Script, j, g)', Before(m, g)'
          PROVE  \E l \in Nat : l <= j /\ SetsAt(Script, l, m)'
      BY <1>12, <2>0, <2>1, <2>2, <3>2 DEF Scripted
    <3>3. ASSUME NEW j \in Nat, NEW m, m \in Tops', UsesAt(Script, j, m)'
          PROVE  \E l \in Nat : l < j /\ SetsAt(Script, l, m)'
      BY <1>12, <2>0, <2>1, <2>2, <3>3 DEF Scripted
    <3>4. ASSUME NEW j \in Nat, NEW l \in Nat, NEW t, NEW m,
                 JumpsAt(Script, j, t)', SetsAt(Script, l, m)', j < l, l < t
          PROVE  m \in nested'
      <4>1. SetsAt(Script, l, m)
        BY <1>12, <2>0, <3>4
      <4>2. CASE JumpsAt(Script, j, t)
        BY <1>2, <2>1, <3>4, <4>1, <4>2 DEF Scripted
      <4>3. CASE Script = b /\ j = i
        BY <1>2, <1>3, <1>4, <2>1, <3>4, <4>1, <4>3 DEF Enclosing
      <4> QED
        BY <1>13, <2>0, <3>4, <4>2, <4>3
    <3>5. ASSUME NEW j \in Nat, NEW t, JumpsAt(Script, j, t)'
          PROVE  t = 1 \/ t - 1 \in DOMAIN code'[Script]
      <4>1. CASE JumpsAt(Script, j, t)
        BY <1>11, <2>0, <2>1, <4>1 DEF Scripted
      <4>2. CASE Script = b /\ t = q
        BY <1>6, <1>7, <1>11, <2>0, <4>2
      <4> QED
        BY <1>13, <2>0, <3>5, <4>1, <4>2
    <3> QED
      BY <3>1, <3>2, <3>3, <3>4, <3>5 DEF Scripted
  <2> QED
    BY <2>2, <2>3, <2>4, <2>5 DEF FileCode
<1> QED
  BY <1>2, <1>10, <1>14, <1>15, <1>16, <1>17, <1>t, GoesStep

(* A use is compiled: an instruction that is no declaration.               *)
LEMMA EmitStep ==
    ASSUME SessionInv, phase = "compile", phase' \in {"compile", "lost"},
           NEW x \in Instrs, x.op \in {"call", "var"},
           x.num >= 0 => x.name \in DOMAIN names /\ names[x.name].num = x.num,
           Compiled(x),
           UNCHANGED <<mode, names, freed, text, count, classes, open, machine, lines,
                       histories>>
    PROVE  SessionInv'
<1> USE DEF machine, histories
<1>t. /\ Types /\ Opened /\ open \in Seq(Blocks) /\ CodeRefers
  BY DEF SessionInv, Opened
<1>1. PICK b, p : b = Target /\ p = Len(code[b]) + 1
  OBVIOUS
<1>2. code' = Emitted(b, x) /\ next' = next + 1
  BY <1>1 DEF Compiled
<1>4. b \in Bodies
  BY <1>1, <1>t, IntoBodies DEF Target
<1>5. x.op # "set" /\ x.op # "if" /\ x.num \in Int
  BY DEF Instrs
<1>7. /\ p \in Nat \ {0}
      /\ \A c \in Bodies : \A i, m : SetsAt(c, i, m)' <=> SetsAt(c, i, m)
      /\ \A c \in Bodies : \A i, m : UsesAt(c, i, m)' =>
            UsesAt(c, i, m) \/ (c = b /\ i = p /\ x.num >= 0 /\ m = x.name)
      /\ \A c \in Bodies : \A i, t : JumpsAt(c, i, t)' <=> JumpsAt(c, i, t)
      /\ \A c \in Bodies : \A i, m : SetsAt(c, i, m) \/ UsesAt(c, i, m) \/ JumpsAt(c, i, m) =>
                 i \in Nat \ {0} /\ (c = b => i < p)
      /\ \A c \in Bodies : DOMAIN code[c] \subseteq DOMAIN code'[c]
  BY <1>1, <1>2, <1>4, <1>5, <1>t, EmitMeans
<1>8. /\ code' \in [Bodies -> Seq(Instrs)] /\ code'[b][p] = x
      /\ \A c \in Bodies : \A i \in DOMAIN code[c] : code'[c][i] = code[c][i]
      /\ \A c \in Bodies : \A i, t : JumpsAt(c, i, t)' => t \in Nat \ {0}
  BY <1>1, <1>2, <1>4, <1>5, <1>t, EmitEffect
<1>9. CodeRefers'
  <2> SUFFICES ASSUME NEW c \in Bodies, NEW i, NEW m, SetsAt(c, i, m)' \/ UsesAt(c, i, m)'
               PROVE  m \in DOMAIN names' /\ names'[m].num = code'[c][i].num
    BY DEF CodeRefers
  <2>1. CASE SetsAt(c, i, m) \/ UsesAt(c, i, m)
    <3>1. m \in DOMAIN names /\ names[m].num = code[c][i].num
      BY <1>t, <2>1 DEF CodeRefers
    <3>2. i \in DOMAIN code[c]
      BY <2>1 DEF SetsAt, UsesAt
    <3> QED
      BY <1>8, <3>1, <3>2
  <2>2. CASE c = b /\ i = p /\ x.num >= 0 /\ m = x.name
    BY <1>8, <2>2
  <2> QED
    BY <1>7, <2>1, <2>2
<1>10. Opened'
  <2> SUFFICES ASSUME NEW k \in DOMAIN open, NEW c, NEW i, open[k].into = c, open[k].i = i
               PROVE  /\ open[k].op = "function" => c \in Functions_ \cap DOMAIN names
                      /\ open[k].op = "if" => \E t : JumpsAt(c, i, t)'
    BY <1>t DEF Opened
  <2>1. c \in Bodies
    <3>1. open[k] \in Blocks
      BY <1>t
    <3> QED
      BY <3>1 DEF Blocks
  <2> QED
    BY <1>7, <1>t, <2>1 DEF Opened
<1>11. ASSUME mode = "file" PROVE FileCode'
  <2>1. FileNames /\ Enclosing /\ Bodied /\ Scripted
    BY <1>11 DEF SessionInv, File, Active, FileCode
  <2>2. Tops' = Tops /\ FileNames' /\ \A m, c : Before(m, c)' <=> Before(m, c)
    BY <2>1, SameNames
  <2>t. /\ b # Script => b \in DOMAIN names /\ open # <<>> /\ \A m \in Tops : Before(m, b)
        /\ b = Script /\ open # <<>> => open[1].op # "function"
    <3>1. open = <<>> \/ \E k \in DOMAIN open : open[Len(open)] = open[k] /\ open # <<>>
      BY <1>t
    <3> QED
      BY <1>1, <1>t, <2>1, <3>1, TargetKnows DEF Target
  <2>0. Script \in Bodies /\ Functions_ \subseteq Bodies
    BY ScriptApart DEF Bodies
  <2>3. Enclosing'
    <3> SUFFICES ASSUME NEW k \in DOMAIN open, NEW c, NEW i, open[k].into = c, open[k].i = i
                 PROVE  /\ c # Script =>
                              c \in DOMAIN names /\ \A m : m \in Tops' => Before(m, c)'
                        /\ open[k].op = "function" /\ k # 1 => c \in nested
                        /\ open[1].op = "function" => c # Script
                        /\ open[k].op = "if" /\ c = Script =>
                              \A j \in Nat : \A m : SetsAt(Script, j, m)' /\ j > i => m \in nested
      BY DEF Enclosing
    <3> QED
      BY <1>7, <2>0, <2>1, <2>2 DEF Enclosing
  <2>4. Bodied'
    <3> SUFFICES ASSUME NEW c \in Functions_, NEW i, NEW m
                 PROVE  /\ UsesAt(c, i, m)' /\ m \in Tops' => c \in DOMAIN names /\ Before(m, c)'
                        /\ SetsAt(c, i, m)' =>
                              /\ c \in DOMAIN names /\ m \in nested
                              /\ \A l : Before(l, m)' => Before(l, c)'
      BY DEF Bodied
    <3>1. c # Script
      BY ScriptApart
    <3> QED
      BY <1>7, <2>0, <2>1, <2>2, <2>t, <3>1 DEF Bodied
  <2>5. Scripted'
    <3>1. ASSUME NEW m, m \in Tops' PROVE Ending(m)' \/ \E j \in Nat : SetsAt(Script, j, m)'
      <4>1. Ending(m) => Ending(m)'
        BY DEF Ending
      <4> QED
        BY <1>7, <2>0, <2>1, <2>2, <3>1, <4>1 DEF Scripted
    <3>2. ASSUME NEW i \in Nat, NEW g, NEW m, SetsAt(Script, i, g)', Before(m, g)'
          PROVE  \E j \in Nat : j <= i /\ SetsAt(Script, j, m)'
      BY <1>7, <2>0, <2>1, <2>2, <3>2 DEF Scripted
    <3>3. ASSUME NEW i \in Nat, NEW m, m \in Tops', UsesAt(Script, i, m)'
          PROVE  \E j \in Nat : j < i /\ SetsAt(Script, j, m)'
      <4>1. CASE UsesAt(Script, i, m)
        BY <1>7, <2>0, <2>1, <2>2, <3>3, <4>1 DEF Scripted
      <4>2. CASE Script = b /\ i = p
        <5>1. ~ Ending(m)
          BY <2>t, <4>2 DEF Ending
        <5>2. PICK j \in Nat : SetsAt(Script, j, m)
          BY <2>1, <2>2, <3>3, <5>1 DEF Scripted
        <5>3. j < p
          BY <1>7, <2>0, <4>2, <5>2
        <5> QED
          BY <1>7, <2>0, <4>2, <5>2, <5>3
      <4> QED
        BY <1>7, <2>0, <3>3, <4>1, <4>2
    <3>4. ASSUME NEW i \in Nat, NEW j \in Nat, NEW t, NEW m,
                 JumpsAt(Script, i, t)', SetsAt(Script, j, m)', i < j, j < t
          PROVE  m \in nested
      BY <1>7, <2>0, <2>1, <3>4 DEF Scripted
    <3>5. ASSUME NEW i \in Nat, NEW t, JumpsAt(Script, i, t)'
          PROVE  t = 1 \/ t - 1 \in DOMAIN code'[Script]
      BY <1>7, <2>0, <2>1, <3>5 DEF Scripted
    <3> QED
      BY <3>1, <3>2, <3>3, <3>4, <3>5 DEF Scripted
  <2> QED
    BY <2>2, <2>3, <2>4, <2>5 DEF FileCode
<1> QED
  BY <1>2, <1>8, <1>9, <1>10, <1>11, GoesStep

LEMMA ReferStep ==
    ASSUME SessionInv, NEW op \in {"call", "var"}, NEW to \in Vars \cup {Junk},
           InText(op), Refer(op, to)
    PROVE  SessionInv'
<1> DEFINE x == [op |-> op, num |-> Resolved(Name), name |-> Name, to |-> to]
<1>1. text[next] \in Statement /\ text[next].op = op
  BY DEF InText, SessionInv, Types
<1>2. Name \in Names \cup Vars
  BY <1>1, StatementNames DEF Name
<1>3. Resolved(Name) \in Int
      /\ (Resolved(Name) >= 0 => /\ Name \in DOMAIN names
                                 /\ names[Name].num = Resolved(Name))
  BY DEF Resolved, Declared, SessionInv, Types
<1>4. x \in Instrs
  BY <1>2, <1>3 DEF Instrs
<1>5. phase = "compile" /\ phase' \in {"compile", "lost"}
  BY DEF InText, Refer
<1>6. Compiled(x)
  BY DEF Refer
<1> QED
  BY <1>3, <1>4, <1>5, <1>6, EmitStep DEF Refer

LEMMA CompileNativeStep == SessionInv /\ CompileNative => SessionInv'
<1> SUFFICES ASSUME SessionInv, CompileNative PROVE SessionInv'
  OBVIOUS
<1> DEFINE x == [op |-> "call", num |-> names[Name].num, name |-> Name, to |-> Junk]
<1>1. text[next] \in Statement /\ text[next].op = "native" /\ phase = "compile"
  BY DEF CompileNative, InText, SessionInv, Types
<1>2. Name \in Keywords
  BY <1>1, StatementNames DEF Name
<1>3. Name \in DOMAIN names /\ names[Name].num \in Nat
  BY <1>2 DEF SessionInv, Types
<1>4. x \in Instrs
  BY <1>2, <1>3 DEF Instrs
<1>5. Compiled(x) /\ phase' = phase
  BY DEF CompileNative
<1> QED
  BY <1>1, <1>3, <1>4, <1>5, EmitStep DEF CompileNative

-----------------------------------------------------------------------------

LEMMA StartStep == SessionInv /\ Start => SessionInv'
<1> SUFFICES ASSUME SessionInv, Start PROVE SessionInv'
  OBVIOUS
<1> USE FirstPositive
<1> USE DEF compiler
<1>1. phase = "compile" /\ used = None /\ next' = 1 /\ at' = Script /\ calls' = <<>>
      /\ open = <<>>
      /\ UNCHANGED <<mode, names, text, count, classes, open, code, nested, native,
                     globals, used>>
  BY DEF Start, SessionInv, Unused
<1>c. CodeRefers' /\ (FileCode => FileCode')
  BY <1>1, CodeKept, FileCodeKept DEF SessionInv
<1>t. Types /\ at' \in Bodies /\ calls' \in Seq(Resumes) /\ next' \in Nat \ {0}
      /\ \A b \in Bodies : \A i, t : JumpsAt(b, i, t)' => t \in Nat \ {0}
  BY <1>1, ScriptApart DEF SessionInv, Types, JumpsAt
<1>2. CASE frames = FRAMES
  <2>1. phase' = "dead" /\ UNCHANGED <<obj, gen, stored>>
    BY <1>2 DEF Start
  <2>2. Types'
    BY <1>1, <1>t, <2>1 DEF Types
  <2>3. Placed' /\ UsesMeant'
    BY <1>1, <2>1, PlacedKept, UsesKept DEF SessionInv
  <2> QED
    BY <1>c, <2>1, <2>2, <2>3 DEF SessionInv, Active, Unused, File
<1> SUFFICES ASSUME frames # FRAMES PROVE SessionInv'
  BY <1>2
<1>3. /\ phase' = "run"
      /\ gen' = IF obj'.len = obj.len THEN gen ELSE gen + 1
      /\ gen \in Nat \ {0}
  BY DEF Start, SessionInv, Types
<1>5. CASE mode = "session"
  <2>1. PICK y \in Strays : obj' = Regrown(native + y)
    BY <1>5 DEF Start
  <2>2. native + y \in Nat /\ obj.len \in Nat \ {0}
    <3>1. y \in Nat
      BY SessionAssumption, Zenon
    <3> QED
      BY <1>t, <3>1 DEF Types
  <2>3. stored' = stored
    BY <1>5, <1>t DEF Start, Types
  <2>4. CASE native + y = obj.len
    <3>1. obj' = obj /\ gen' = gen
      BY <1>3, <2>1, <2>4 DEF Regrown
    <3>2. Types' /\ Placed'
      BY <1>1, <1>t, <2>3, <3>1, PlacedKept DEF SessionInv, Types
    <3> QED
      BY <1>1, <1>3, <1>c, <1>5, <3>2, NoneMeant DEF SessionInv, Unused, File
  <2>5. CASE native + y # obj.len
    <3>1. obj' = [size |-> native + y, len |-> 2 * obj.len,
                  cells |-> [i \in {} |-> Junk]]
      BY <2>1, <2>5 DEF Regrown
    <3>2. gen' = gen + 1
      BY <1>3, <2>2, <3>1
    <3>3. Types'
      BY <1>1, <1>t, <1>3, <2>2, <2>3, <3>1, <3>2 DEF Types
    <3>4. \A n \in DOMAIN names : stored'[n] # gen'
      BY <1>t, <2>3, <3>2 DEF Types
    <3>5. Placed'
      BY <1>1, <3>4 DEF Placed, Lost
    <3> QED
      BY <1>1, <1>3, <1>c, <1>5, <3>3, <3>5, NoneMeant DEF SessionInv, Unused, File
  <2> QED
    BY <2>4, <2>5
<1>6. CASE mode = "file"
  <2>1. FileCode /\ FileNames /\ FileCompile /\ count \in Nat /\ count >= First
    BY <1>1, <1>6, <1>t DEF SessionInv, File, Active, Types, FileCode, FileNames
  <2>2. obj' = NewArray(count)
    BY <1>6 DEF Start
  <2>3. stored' = [n \in DOMAIN stored |-> IF n \in Keywords THEN gen' ELSE stored[n]]
    BY <1>6 DEF Start
  <2>4. gen' \in {gen, gen + 1}
    BY <1>3
  <2>s. /\ \A n \in DOMAIN stored' : stored'[n] = IF n \in Keywords THEN gen' ELSE 0
        /\ DOMAIN stored' = DOMAIN stored /\ DOMAIN stored = Names \cup Keywords
    BY <1>t, <2>1, <2>3 DEF FileCompile, Types
  <2>o. /\ obj' = [size |-> obj'.size, len |-> obj'.len, cells |-> obj'.cells]
        /\ obj'.size = count /\ obj'.len = count
        /\ obj'.cells = [i \in 0 .. First - 1 |-> Natives[i + 1]]
    BY <2>2 DEF NewArray
  <2>5. Types'
    <3>1. stored' \in [Names \cup Keywords -> 0 .. gen']
      BY <1>3, <1>t, <2>3, <2>4 DEF Types
    <3>2. \A n \in DOMAIN stored' : stored'[n] # 0 => n \in DOMAIN names
      BY <1>t, <2>s DEF Types
    <3>3. obj'.size \in Nat /\ obj'.len \in Nat \ {0}
      BY <2>1, <2>o
    <3>4. gen' \in Nat \ {0}
      BY <1>3, <2>4
    <3> QED
      BY <1>1, <1>t, <2>o, <3>1, <3>2, <3>3, <3>4 DEF Types
  <2>6. Placed'
    <3> SUFFICES ASSUME NEW n \in DOMAIN names, stored'[n] = gen'
                 PROVE  /\ names[n].num \in DOMAIN obj'.cells
                        /\ obj'.cells[names[n].num] = n
      BY <1>1 DEF Placed, Lost
    <3>1. n \in Keywords
      BY <1>3, <1>t, <2>4, <2>s DEF Types
    <3>2. names[n].num \in 0 .. First - 1
      BY <1>t, <2>1, <3>1 DEF FileNames, Types
    <3>3. Natives[names[n].num + 1] = n
      BY <2>1, <3>1 DEF FileNames
    <3> QED
      BY <2>o, <3>2, <3>3
  <2>7. FileRun'
    <3>1. open' = <<>> /\ obj'.size = count'
      BY <1>1, <2>o
    <3>2. (\A k \in Keywords : stored'[k] = gen')
          /\ \A n \in DOMAIN stored' : stored'[n] \in {0, gen'}
      BY <2>s
    <3>3. \A j \in Nat : \A n : SetsAt(Script, j, n)' => ~ (j < Position')
      <4>1. Position' = 1
        BY <1>1 DEF Position
      <4>2. \A j, n : SetsAt(Script, j, n)' => j \in Nat \ {0}
        <5>1. code'[Script] \in Seq(Instrs)
          BY <1>1, <1>t, ScriptApart DEF Types
        <5>2. DOMAIN code'[Script] \subseteq Nat \ {0}
          BY <5>1
        <5> QED
          BY <5>2 DEF SetsAt
      <4> QED
        BY <4>1, <4>2
    <3>4. \A f \in DOMAIN names' \ Keywords : stored'[f] # gen'
      BY <1>1, <1>3, <1>t, <2>4, <2>s DEF Types
    <3> QED
      BY <3>1, <3>2, <3>3, <3>4 DEF FileRun
  <2>8. Held'
    <3>1. \A i \in DOMAIN obj'.cells : obj'.cells[i] \notin Functions_
      <4>1. \A i \in 1 .. First : Natives[i] \in Keywords
        BY DEF Keywords, Range
      <4> QED
        BY <2>o, <4>1, NamesAssumption
    <3>2. DOMAIN globals' = {} /\ at' \notin Functions_ /\ DOMAIN calls' = {}
      BY <1>1, <2>1, ScriptApart DEF FileCompile
    <3> QED
      BY <1>1, <3>1, <3>2 DEF Held, Live
  <2> QED
    BY <1>1, <1>3, <1>c, <1>6, <2>1, <2>5, <2>6, <2>7, <2>8, NoneMeant
       DEF SessionInv, Unused, File
<1> QED
  BY <1>5, <1>6, <1>t DEF Types

-----------------------------------------------------------------------------
(* Execution.  What leaves the names, the code and the array alone.        *)
LEMMA QuietRun ==
    ASSUME SessionInv, phase = "run",
           UNCHANGED <<mode, names, nested, text, count, open, code, obj, native, gen,
                       stored>>,
           next' \in Nat \ {0}, at' \in Bodies, calls' \in Seq(Resumes), UsesMeant',
           phase' \in {"run", "idle", "exited", "ended", "dead"},
           mode = "file" => phase' # "idle",
           mode = "file" /\ phase' = "run" => FileRun' /\ Held'
    PROVE  SessionInv'
<1>1. Types' /\ Placed' /\ CodeRefers' /\ (FileCode => FileCode')
  BY PlacedKept, CodeKept, FileCodeKept DEF SessionInv, Types, JumpsAt
<1> QED
  BY <1>1 DEF SessionInv, File, Unused, Active

(* The script has not gone behind a declaration of the top that has not    *)
(* run.                                                                    *)
LEMMA FurtherRun ==
    ASSUME FileRun, UNCHANGED <<names, nested, code, open, obj, count, gen, stored>>,
           \A j \in Nat : \A n \in Tops :
              SetsAt(Script, j, n) /\ j < Position' => j < Position \/ stored[n] = gen
    PROVE  FileRun'
<1>1. Tops' = Tops /\ \A m, f : Before(m, f)' <=> Before(m, f)
  BY SameNames
<1>2. \A j, n : SetsAt(Script, j, n)' <=> SetsAt(Script, j, n)
  BY DEF SetsAt
<1> QED
  BY <1>1, <1>2 DEF FileRun

(* The instruction that is next.                                           *)
LEMMA InstrFacts ==
    ASSUME SessionInv, phase = "run", next <= Len(code[at]),
           NEW n, n = Instr.name, NEW i, i = Instr.num, NEW b, b = at, NEW p, p = next
    PROVE  /\ b \in Bodies /\ p \in DOMAIN code[b] /\ code[b] \in Seq(Instrs)
           /\ Instr \in Instrs /\ i \in Int
           /\ p \in Nat \ {0}
           /\ Instr.op = "set" => SetsAt(b, p, n)
           /\ Instr.op \in {"call", "var"} /\ i >= 0 => UsesAt(b, p, n)
           /\ Instr.op = "if" => JumpsAt(b, p, i) /\ i \in Nat \ {0}
           /\ Instr.op \in {"call", "var", "if"} => \A m : ~ SetsAt(b, p, m)
           /\ Instr.op = "set" \/ (Instr.op \in {"call", "var"} /\ i >= 0) =>
                 n \in DOMAIN names /\ names[n].num = i
<1>1. Types /\ CodeRefers
  BY DEF SessionInv
<1>2. b \in Bodies /\ code[b] \in Seq(Instrs) /\ p \in Nat \ {0} /\ p <= Len(code[b])
  BY <1>1 DEF Types
<1>3. PICK s : s = code[b] /\ s \in Seq(Instrs) /\ p <= Len(s)
  BY <1>2
<1>4. p \in DOMAIN s /\ s[p] \in Instrs
  BY <1>2, <1>3
<1>5. Instr = s[p]
  BY <1>3 DEF Instr
<1>6. Instr \in Instrs /\ i \in Int /\ code[b][p] = Instr /\ p \in DOMAIN code[b]
  BY <1>3, <1>4, <1>5 DEF Instrs
<1>7. /\ Instr.op = "set" => SetsAt(b, p, n)
      /\ Instr.op \in {"call", "var"} /\ i >= 0 => UsesAt(b, p, n)
      /\ Instr.op = "if" => JumpsAt(b, p, i)
      /\ Instr.op \in {"call", "var", "if"} => \A m : ~ SetsAt(b, p, m)
  BY <1>6 DEF SetsAt, UsesAt, JumpsAt
<1>8. Instr.op = "if" => i \in Nat \ {0}
  BY <1>1, <1>2, <1>7 DEF Types
<1>9. SetsAt(b, p, n) \/ UsesAt(b, p, n) => n \in DOMAIN names /\ names[n].num = i
  BY <1>1, <1>2, <1>6 DEF CodeRefers
<1> QED
  BY <1>2, <1>6, <1>7, <1>8, <1>9

LEMMA SetStep == SessionInv /\ Set => SessionInv'
<1> SUFFICES ASSUME SessionInv, Set PROVE SessionInv'
  OBVIOUS
<1> USE DEF compiler
<1>0. PICK n, i, b, p : n = Instr.name /\ i = Instr.num /\ b = at /\ p = next
  OBVIOUS
<1>1. /\ phase = "run" /\ phase' \in {"run", "dead"}
      /\ Instr.op = "set" /\ next <= Len(code[at])
      /\ obj' = Put(i, n) /\ next' = next + 1
      /\ stored' = [stored EXCEPT ![n] = gen]
      /\ used' = None
      /\ UNCHANGED <<mode, names, nested, text, count, open, code, native, globals, at,
                     calls, gen>>
  BY <1>0 DEF Set, Running, Go
<1>t. Types /\ CodeRefers
  BY DEF SessionInv
<1>2. /\ b \in Bodies /\ p \in Nat \ {0} /\ i \in Int /\ SetsAt(b, p, n)
      /\ n \in DOMAIN names /\ names[n].num = i
  BY <1>0, <1>1, InstrFacts
<1>3. /\ obj' = [size |-> obj'.size, len |-> obj'.len, cells |-> obj'.cells]
      /\ obj'.size = obj.size /\ obj'.len = obj.len
      /\ DOMAIN obj'.cells = DOMAIN obj.cells \cup {i}
      /\ obj'.cells[i] = n
      /\ \A j \in DOMAIN obj.cells : j # i => obj'.cells[j] = obj.cells[j]
  <2>1. obj = [size |-> obj.size, len |-> obj.len, cells |-> obj.cells]
    BY <1>t DEF Types
  <2>2. obj' = [size |-> obj.size, len |-> obj.len,
                cells |-> [j \in DOMAIN obj.cells \cup {i} |->
                              IF j = i THEN n ELSE obj.cells[j]]]
    BY <1>1, <2>1 DEF Put
  <2> QED
    BY <2>2
<1>4. /\ stored' \in [Names \cup Keywords -> 0 .. gen]
      /\ stored'[n] = gen
      /\ \A m \in DOMAIN stored : m # n => stored'[m] = stored[m]
      /\ DOMAIN stored' = DOMAIN stored /\ DOMAIN stored = Names \cup Keywords
      /\ n \in DOMAIN stored
  BY <1>1, <1>2, <1>t DEF Types
<1>5. Types' /\ CodeRefers'
  <2>1. \A c \in Bodies : \A j, t : JumpsAt(c, j, t)' => t \in Nat \ {0}
    BY <1>1, <1>t DEF Types, JumpsAt
  <2>2. \A m \in DOMAIN stored' : stored'[m] # 0 => m \in DOMAIN names'
    BY <1>1, <1>2, <1>4, <1>t DEF Types
  <2> QED
    BY <1>1, <1>3, <1>4, <1>t, <2>1, <2>2, CodeKept DEF Types
<1>6. Placed'
  <2> SUFFICES ASSUME NEW m \in DOMAIN names, ~Lost(m)', ~Shared(m)', ~Outside(m)'
               PROVE  /\ names[m].num \in DOMAIN obj'.cells
                      /\ obj'.cells[names[m].num] = m
    BY <1>1 DEF Placed
  <2>1. CASE m = n
    BY <1>2, <1>3, <2>1
  <2>2. CASE m # n
    <3>1. names[m].num # i
      BY <1>1, <1>2, <2>2 DEF Shared
    <3>2. m \in DOMAIN stored
      BY <1>t DEF Types
    <3>3. ~Lost(m) /\ ~Shared(m) /\ ~Outside(m)
      BY <1>1, <1>3, <1>4, <2>2, <3>2 DEF Lost, Shared, Outside
    <3> QED
      BY <1>3, <3>1, <3>3 DEF SessionInv, Placed
  <2> QED
    BY <2>1, <2>2
<1>8. ASSUME mode = "file" PROVE FileCode' /\ FileRun' /\ Held'
  <2>1. FileCode /\ FileRun /\ Held
    BY <1>1, <1>8 DEF SessionInv, File, Active
  <2>2. FileCode' /\ Tops' = Tops /\ (\A m, f : Before(m, f)' <=> Before(m, f))
        /\ \A j, m : SetsAt(Script, j, m)' <=> SetsAt(Script, j, m)
    BY <1>1, <2>1, FileCodeKept, SameNames DEF SetsAt
  <2>3. \A m \in DOMAIN stored : stored[m] = gen => stored'[m] = gen
    BY <1>4
  <2>s. Keywords \subseteq DOMAIN stored /\ Tops \subseteq DOMAIN stored
        /\ DOMAIN names \subseteq DOMAIN stored
    BY <1>4, <1>t DEF Types, Tops
  <2>4. Position' = IF at = Script THEN p + 1 ELSE Position
    BY <1>0, <1>1, <2>1 DEF Position, Held
  <2>5. Position \in Nat \ {0} /\ (at = Script => Position = p)
    <3>1. CASE calls = <<>>
      BY <1>0, <1>2, <2>1, <3>1 DEF Position, Held
    <3>2. CASE calls # <<>>
      <4>1. 1 \in DOMAIN calls /\ calls[1] \in Resumes
        BY <1>t, <3>2 DEF Types
      <4> QED
        BY <2>1, <3>2, <4>1 DEF Position, Held, Resumes
    <3> QED
      BY <3>1, <3>2
  <2>6. ASSUME NEW j \in Nat, NEW m \in Tops, SetsAt(Script, j, m), j < Position'
        PROVE  stored'[m] = gen
    <3>1. CASE j < Position
      BY <2>1, <2>3, <2>6, <2>s, <3>1 DEF FileRun
    <3>2. CASE at = Script /\ j = p
      <4>1. m = n
        BY <1>0, <1>2, <2>6, <3>2 DEF SetsAt
      <4> QED
        BY <1>4, <4>1
    <3> QED
      BY <1>2, <2>4, <2>5, <2>6, <3>1, <3>2
  <2>7. ASSUME NEW m, Before(m, n) PROVE stored'[m] = gen
    <3>0. m \in Tops
      BY <2>7 DEF Before
    <3>1. CASE at = Script
      <4>1. PICK j \in Nat : j <= p /\ SetsAt(Script, j, m)
        BY <1>0, <1>2, <2>1, <2>7, <3>1 DEF FileCode, Scripted
      <4>2. j < Position'
        BY <1>2, <2>4, <3>1, <4>1
      <4> QED
        BY <2>6, <3>0, <4>1, <4>2
    <3>2. CASE at # Script
      <4>1. b \in Functions_ /\ b \in DOMAIN names /\ Before(m, b)
        BY <1>0, <1>2, <2>1, <2>7, <3>2 DEF FileCode, Bodied, Bodies
      <4>2. stored[b] = gen
        BY <1>0, <2>1, <4>1 DEF Held, Live
      <4>3. b \notin Keywords
        BY <4>1, NamesAssumption
      <4>4. stored[m] = gen
        BY <2>1, <4>1, <4>2, <4>3 DEF FileRun
      <4> QED
        BY <2>3, <2>s, <3>0, <4>4
    <3> QED
      BY <3>1, <3>2
  <2>8. ASSUME NEW f \in DOMAIN names \ Keywords, NEW m, stored'[f] = gen, Before(m, f)
        PROVE  stored'[m] = gen
    <3>1. CASE f = n
      BY <2>7, <2>8, <3>1
    <3>2. CASE f # n
      <4>1. stored[f] = gen
        BY <1>4, <2>8, <2>s, <3>2
      <4>2. stored[m] = gen /\ m \in Tops
        BY <2>1, <2>8, <4>1 DEF FileRun, Before
      <4> QED
        BY <2>3, <2>s, <4>2
    <3> QED
      BY <3>1, <3>2
  <2>9. (\A k \in Keywords : stored'[k] = gen) /\ \A m \in DOMAIN stored : stored'[m] \in {0, gen}
    BY <1>4, <2>1, <2>3, <2>s DEF FileRun
  <2>10. FileRun'
    BY <1>1, <1>3, <1>4, <2>1, <2>2, <2>6, <2>8, <2>9 DEF FileRun
  <2>11. Held'
    <3>1. \A v : Live(v) => Live(v)'
      BY <1>1, <2>3, <2>s DEF Live
    <3>2. \A v : v = n => Live(v)'
      BY <1>1, <1>2, <1>4 DEF Live
    <3>3. \A v : v = at => v = at'
      BY <1>1
    <3>4. \A j \in DOMAIN obj'.cells : \A v : v = obj'.cells[j] => Live(v)'
      <4> SUFFICES ASSUME NEW j \in DOMAIN obj'.cells, NEW v, v = obj'.cells[j] PROVE Live(v)'
        OBVIOUS
      <4>1. CASE j = i
        BY <1>3, <3>2, <4>1
      <4>2. CASE j # i
        BY <1>3, <2>1, <3>1, <4>2 DEF Held
      <4> QED
        BY <4>1, <4>2
    <3>5. \A k \in DOMAIN globals' : \A v : v = globals'[k] => Live(v)'
      BY <1>1, <2>1, <3>1 DEF Held
    <3>6. \A k \in DOMAIN calls' : \A v : v = calls'[k].at => Live(v)'
      BY <1>1, <2>1, <3>1 DEF Held
    <3>7. \A v : v = at' => Live(v)'
      BY <1>1, <2>1, <3>1 DEF Held
    <3> QED
      BY <1>1, <2>1, <3>4, <3>5, <3>6, <3>7 DEF Held, Live
  <2> QED
    BY <2>2, <2>10, <2>11
<1>9. UsesMeant' /\ Unused'
  BY <1>1, NoneMeant DEF Unused
<1>10. mode' = mode /\ phase' # "idle" /\ phase' # "compile"
  BY <1>1
<1> QED
  BY <1>5, <1>6, <1>8, <1>9, <1>10 DEF SessionInv, File

(* What a file's code uses was put into the array, if it is not nested.    *)
LEMMA FileStored ==
    ASSUME SessionInv, mode = "file", phase = "run", NEW b, b = at, NEW p \in Nat, p = next,
           b \in Bodies, NEW n \in DOMAIN names, UsesAt(b, p, n)
    PROVE  stored[n] = gen \/ Unwritten(n)
<1>1. FileCode /\ FileRun /\ Held /\ Types
  BY DEF SessionInv, File, Active
<1>2. n \in DOMAIN stored
  BY <1>1 DEF Types
<1>3. CASE n \in Keywords
  BY <1>1, <1>3 DEF FileRun
<1>4. CASE n \in nested
  BY <1>1, <1>2, <1>4 DEF FileRun, Unwritten
<1>5. CASE n \in Tops
  <2>1. CASE b = Script
    <3>1. PICK j \in Nat : j < p /\ SetsAt(Script, j, n)
      BY <1>1, <1>5, <2>1 DEF FileCode, Scripted
    <3>2. Position = p
      BY <1>1, <2>1 DEF Position, Held
    <3> QED
      BY <1>1, <1>5, <3>1, <3>2 DEF FileRun
  <2>2. CASE b # Script
    <3>1. b \in Functions_ /\ b \in DOMAIN names /\ Before(n, b)
      BY <1>1, <1>5, <2>2 DEF FileCode, Bodied, Bodies
    <3>2. stored[b] = gen /\ b \notin Keywords
      BY <1>1, <3>1, NamesAssumption DEF Held, Live
    <3> QED
      BY <1>1, <3>1, <3>2 DEF FileRun
  <2> QED
    BY <2>1, <2>2
<1> QED
  BY <1>3, <1>4, <1>5 DEF Tops

(* A use of a name by its number gets what the conditions allow.           *)
LEMMA UseMeant ==
    ASSUME SessionInv, phase = "run", next <= Len(code[at]), Instr.op \in {"call", "var"},
           NEW v \in Fetched, Use(v), UNCHANGED <<mode, names, nested, obj, gen, stored>>
    PROVE  UsesMeant'
<1>1. PICK n, i, b, p : n = Instr.name /\ i = Instr.num /\ b = at /\ p = next
  OBVIOUS
<1>2. /\ b \in Bodies /\ i \in Int /\ p \in Nat
      /\ i >= 0 => UsesAt(b, p, n) /\ n \in DOMAIN names /\ names[n].num = i
  BY <1>1, InstrFacts
<1>3. CASE ~ (i >= 0)
  <2>1. used' = None
    BY <1>1, <1>3 DEF Use
  <2> QED
    BY <2>1, NoneMeant
<1>4. CASE i >= 0
  <2>1. used' = [name |-> n, got |-> v] /\ v \in At(i)
    BY <1>1, <1>4 DEF Use, Fetched
  <2>2. used'.name = n /\ used'.got = v
    BY <2>1
  <2>3. \/ Lost(n) \/ Shared(n) \/ Outside(n)
        \/ v = n
    <3> SUFFICES ASSUME ~Lost(n), ~Shared(n), ~Outside(n) PROVE v = n
      OBVIOUS
    <3>1. obj.cells[i] = n /\ i \in DOMAIN obj.cells
      BY <1>2, <1>4 DEF SessionInv, Placed
    <3>2. i < obj.size
      BY <1>2, <1>4 DEF Outside, SessionInv, Types
    <3> QED
      BY <2>1, <3>1, <3>2 DEF At
  <2>4. ASSUME mode = "file" PROVE v = n \/ Unwritten(n)
    <3>1. FileCode /\ FileNames /\ FileRun /\ count \in Nat /\ First \in Nat
      BY <2>4, FirstPositive DEF SessionInv, File, Active, FileCode, Types
    <3>2. ~Shared(n)
      BY <1>2, <1>4, <3>1 DEF FileNames, Shared
    <3>3. names[n].num < count
      BY <1>2, <1>4, <3>1 DEF FileNames, SessionInv, Types
    <3>4. ~Outside(n)
      BY <1>2, <1>4, <3>1, <3>3 DEF FileRun, Outside
    <3>5. stored[n] = gen \/ Unwritten(n)
      BY <1>1, <1>2, <1>4, <2>4, FileStored
    <3> QED
      BY <2>3, <3>2, <3>4, <3>5 DEF Lost
  <2>5. mode \in {"file", "session"}
    BY DEF SessionInv, Types
  <2>6. /\ Lost(n)' <=> Lost(n)
        /\ Shared(n)' <=> Shared(n)
        /\ Outside(n)' <=> Outside(n)
        /\ Unwritten(n)' <=> Unwritten(n)
    BY DEF Lost, Shared, Outside, Unwritten
  <2>7. ASSUME v # n
        PROVE  IF mode = "file" THEN Unwritten(n)' ELSE Lost(n)' \/ Shared(n)' \/ Outside(n)'
    BY <2>3, <2>4, <2>6, <2>7
  <2> QED
    BY <2>2, <2>7 DEF UsesMeant, Lost, Shared, Outside, Unwritten
<1> QED
  BY <1>3, <1>4

LEMMA UndefinedStep == SessionInv /\ Undefined => SessionInv'
<1> SUFFICES ASSUME SessionInv, Undefined PROVE SessionInv'
  OBVIOUS
<1> USE DEF compiler
<1>1. /\ phase' \in {"idle", "exited"} /\ (mode = "file" => phase' = "exited")
      /\ phase = "run"
      /\ UNCHANGED <<mode, names, nested, text, count, open, code, next, at, calls, obj,
                     native, gen, stored, used>>
  BY DEF Undefined, Error, Running
<1>2. next' \in Nat \ {0} /\ at' \in Bodies /\ calls' \in Seq(Resumes) /\ UsesMeant'
  BY <1>1, UsesKept DEF SessionInv, Types
<1> QED
  BY <1>1, <1>2, QuietRun

LEMMA UseFacts ==
    ASSUME Running("call") \/ Running("var")
    PROVE  phase = "run" /\ next <= Len(code[at]) /\ Instr.op \in {"call", "var"}
BY DEF Running

LEMMA FailsStep == SessionInv /\ Fails => SessionInv'
<1> SUFFICES ASSUME SessionInv, Fails PROVE SessionInv'
  OBVIOUS
<1>1. phase = "run" /\ next <= Len(code[at]) /\ Instr.op \in {"call", "var"}
  BY UseFacts DEF Fails
<1>2. PICK v \in Fetched :
         /\ Use(v)
         /\ \/ Error
            \/ phase' = "dead" /\ UNCHANGED <<next, globals, frames, at, calls, dups>>
  BY DEF Fails
<1>3. UNCHANGED <<next, at, calls>> /\ phase' \in {"idle", "exited", "dead"}
      /\ (mode = "file" => phase' # "idle")
  BY <1>2 DEF Error
<1>4. UNCHANGED <<mode, names, nested, text, count, open, code, obj, native, gen, stored>>
  BY DEF Fails, compiler
<1>5. UsesMeant'
  BY <1>1, <1>2, <1>4, UseMeant
<1>6. next' \in Nat \ {0} /\ at' \in Bodies /\ calls' \in Seq(Resumes)
  BY <1>3 DEF SessionInv, Types
<1> QED
  BY <1>1, <1>3, <1>4, <1>5, <1>6, QuietRun

(* How far the script is, and when it gets further.                        *)
LEMMA PositionFacts ==
    ASSUME Types, Held, NEW p, p = next
    PROVE  /\ Position \in Nat \ {0}
           /\ at = Script => Position = p
<1>1. CASE calls = <<>>
  BY <1>1 DEF Position, Held, Types
<1>2. CASE calls # <<>>
  <2>1. 1 \in DOMAIN calls /\ calls[1] \in Resumes
    BY <1>2 DEF Types
  <2> QED
    BY <1>2, <2>1 DEF Position, Held, Resumes
<1> QED
  BY <1>1, <1>2

(* The script goes on, where it was and with what it had.                  *)
LEMMA GoRun ==
    ASSUME SessionInv, mode = "file", phase = "run",
           UNCHANGED <<names, nested, code, open, obj, count, gen, stored, at, calls>>,
           NEW p, p = next, \A m : ~ SetsAt(at, p, m),
           next' = p + 1
    PROVE  FileRun'
<1>1. FileRun /\ Held /\ Types
  BY DEF SessionInv, File
<1>2. Position \in Nat \ {0} /\ (at = Script => Position = p) /\ p \in Nat
  BY <1>1, PositionFacts DEF Types
<1>3. Position' = IF at = Script THEN p + 1 ELSE Position
  BY <1>1 DEF Position, Held
<1>4. ASSUME NEW j \in Nat, NEW n \in Tops, SetsAt(Script, j, n), j < Position'
      PROVE  j < Position
  <2>1. CASE at = Script
    <3>1. j # p
      BY <1>4, <2>1
    <3> QED
      BY <1>2, <1>3, <1>4, <2>1, <3>1
  <2>2. CASE at # Script
    BY <1>3, <1>4, <2>2
  <2> QED
    BY <2>1, <2>2
<1> QED
  BY <1>1, <1>4, FurtherRun

LEMMA BranchStep == SessionInv /\ Branch => SessionInv'
<1> SUFFICES ASSUME SessionInv, Branch PROVE SessionInv'
  OBVIOUS
<1>0. PICK n, i, b, p : n = Instr.name /\ i = Instr.num /\ b = at /\ p = next
  OBVIOUS
<1>1. /\ phase = "run" /\ phase' = "run" /\ next <= Len(code[at]) /\ Instr.op = "if"
      /\ UNCHANGED <<mode, names, nested, text, count, open, code, obj, native, globals,
                     at, calls, gen, stored, used>>
      /\ next' \in {p + 1, i}
  BY <1>0 DEF Branch, Running, compiler, machine
<1>2. /\ b \in Bodies /\ p \in Nat \ {0} /\ i \in Nat \ {0} /\ JumpsAt(b, p, i)
      /\ \A m : ~ SetsAt(b, p, m)
  BY <1>0, <1>1, InstrFacts
<1>3. next' \in Nat \ {0} /\ at' \in Bodies /\ calls' \in Seq(Resumes) /\ UsesMeant'
  BY <1>1, <1>2, UsesKept DEF SessionInv, Types
<1>4. ASSUME mode = "file" PROVE FileRun' /\ Held'
  <2>1. FileCode /\ FileRun /\ Held /\ Types
    BY <1>1, <1>4 DEF SessionInv, File, Active
  <2>2. Held'
    BY <1>1, <2>1 DEF Held, Live
  <2>3. Position \in Nat \ {0} /\ (at = Script => Position = p)
    BY <1>0, <2>1, PositionFacts
  <2>4. Position' = IF at = Script THEN next' ELSE Position
    BY <1>1, <2>1 DEF Position, Held
  <2>5. ASSUME NEW j \in Nat, NEW m \in Tops, SetsAt(Script, j, m), j < Position'
        PROVE  j < Position
    <3>1. CASE at = Script
      <4>1. j # p /\ b = Script
        BY <1>0, <1>2, <2>5, <3>1
      <4>2. m \notin nested
        BY DEF Tops
      <4>3. ~ (p < j /\ j < i)
        BY <1>2, <2>1, <2>5, <4>1, <4>2 DEF FileCode, Scripted
      <4> QED
        BY <1>1, <1>2, <2>3, <2>4, <2>5, <3>1, <4>1, <4>3
    <3>2. CASE at # Script
      BY <2>4, <2>5, <3>2
    <3> QED
      BY <3>1, <3>2
  <2> QED
    BY <1>1, <2>1, <2>2, <2>5, FurtherRun
<1> QED
  BY <1>1, <1>3, <1>4, QuietRun

(* What an instruction gets can be called if it is a function.             *)
LEMMA FetchedLive ==
    ASSUME SessionInv, mode = "file", phase = "run", NEW v \in Fetched
    PROVE  Live(v)
<1>1. Held
  BY DEF SessionInv, File
<1>2. Junk \notin Functions_
  BY SessionAssumption DEF Names
<1>3. \/ v = Junk
      \/ \E i \in DOMAIN obj.cells : v = obj.cells[i]
      \/ \E n \in DOMAIN globals : v = globals[n]
  BY DEF Fetched, At
<1> QED
  BY <1>1, <1>2, <1>3 DEF Held, Live

LEMMA CallStep == SessionInv /\ Call => SessionInv'
<1> SUFFICES ASSUME SessionInv, Call PROVE SessionInv'
  OBVIOUS
<1>0. PICK n, i, b, p : n = Instr.name /\ i = Instr.num /\ b = at /\ p = next
  OBVIOUS
<1>1. phase = "run" /\ next <= Len(code[at]) /\ Instr.op \in {"call", "var"}
  BY UseFacts DEF Call
<1>2. PICK v \in Fetched :
         /\ Use(v)
         /\ IF Enters(v)
            THEN /\ calls' = Append(calls, [at |-> at, next |-> next + 1])
                 /\ frames' = frames + 1
                 /\ at' = v /\ next' = 1
            ELSE Go /\ UNCHANGED <<at, calls, frames>>
  BY DEF Call
<1>3. /\ UNCHANGED <<mode, phase, names, nested, text, count, open, code, obj, native,
                     globals, gen, stored>>
  BY DEF Call, compiler
<1>4. b \in Bodies /\ p \in Nat \ {0} /\ \A m : ~ SetsAt(b, p, m)
  BY <1>0, <1>1, InstrFacts
<1>5. UsesMeant'
  BY <1>1, <1>2, <1>3, UseMeant
<1>6. CASE ~ Enters(v)
  <2>1. next' = p + 1 /\ UNCHANGED <<at, calls>>
    BY <1>0, <1>2, <1>6 DEF Go
  <2>2. next' \in Nat \ {0} /\ at' \in Bodies /\ calls' \in Seq(Resumes)
    BY <1>4, <2>1 DEF SessionInv, Types
  <2>3. ASSUME mode = "file" PROVE FileRun' /\ Held'
    <3>1. Held
      BY <1>1, <2>3 DEF SessionInv, File
    <3>2. Held'
      BY <1>3, <2>1, <3>1 DEF Held, Live
    <3> QED
      BY <1>0, <1>1, <1>3, <1>4, <2>1, <2>3, <3>2, GoRun
  <2> QED
    BY <1>1, <1>3, <1>5, <2>2, <2>3, QuietRun
<1>7. CASE Enters(v)
  <2>1. PICK r : r = [at |-> b, next |-> p + 1]
    OBVIOUS
  <2>2. calls' = Append(calls, r) /\ at' = v /\ next' = 1 /\ v \in Functions_
    BY <1>0, <1>2, <1>7, <2>1 DEF Enters
  <2>3. r \in Resumes /\ r.at = b /\ r.next = p + 1
    BY <1>4, <2>1 DEF Resumes
  <2>4. calls \in Seq(Resumes)
    BY DEF SessionInv, Types
  <2>5. next' \in Nat \ {0} /\ at' \in Bodies /\ calls' \in Seq(Resumes)
    BY <2>2, <2>3, <2>4 DEF Bodies
  <2>6. PICK l : l = Len(calls) + 1
    OBVIOUS
  <2>7. /\ l \in Nat \ {0} /\ DOMAIN calls = 1 .. l - 1 /\ DOMAIN calls' = 1 .. l
        /\ calls'[l] = r /\ (\A k \in DOMAIN calls : calls'[k] = calls[k])
        /\ calls' # <<>> /\ (l = 1 <=> calls = <<>>)
    BY <2>2, <2>4, <2>6
  <2>8. ASSUME mode = "file" PROVE FileRun' /\ Held'
    <3>1. FileRun /\ Held /\ Types
      BY <1>1, <2>8 DEF SessionInv, File
    <3>2. Live(v) /\ \A w : Live(w) => Live(w)'
      BY <1>1, <1>3, <2>8, FetchedLive DEF Live
    <3>3. ASSUME NEW k \in DOMAIN calls', NEW w, w = calls'[k].at
          PROVE  Live(w)' /\ (w = Script <=> k = 1)
      <4>1. CASE k \in DOMAIN calls
        BY <2>7, <3>1, <3>2, <3>3, <4>1 DEF Held
      <4>2. CASE k = l
        <5>1. w = b
          BY <2>3, <2>7, <3>3, <4>2
        <5>2. Live(b)'
          BY <1>0, <3>1, <3>2 DEF Held
        <5>3. b = Script <=> l = 1
          BY <1>0, <2>7, <3>1 DEF Held
        <5> QED
          BY <4>2, <5>1, <5>2, <5>3
      <4> QED
        BY <2>7, <3>3, <4>1, <4>2
    <3>4. Held'
      <4>1. at' # Script /\ calls' # <<>>
        BY <2>2, <2>7, ScriptApart
      <4>2. Live(v)'
        BY <3>2
      <4>3. \A k \in DOMAIN obj'.cells : \A w : w = obj'.cells[k] => Live(w)'
        BY <1>3, <3>1, <3>2 DEF Held
      <4>4. \A k \in DOMAIN globals' : \A w : w = globals'[k] => Live(w)'
        BY <1>3, <3>1, <3>2 DEF Held
      <4> QED
        BY <2>2, <3>3, <4>1, <4>2, <4>3, <4>4 DEF Held, Live
    <3>5. Position \in Nat \ {0} /\ (at = Script => Position = p)
      BY <1>0, <3>1, PositionFacts
    <3>6. Position' = IF at = Script THEN p + 1 ELSE Position
      <4>1. CASE calls = <<>>
        BY <1>0, <2>3, <2>7, <3>1, <4>1 DEF Position, Held
      <4>2. CASE calls # <<>>
        <5>1. 1 \in DOMAIN calls
          BY <2>4, <4>2
        <5> QED
          BY <2>7, <3>1, <4>2, <5>1 DEF Position, Held
      <4> QED
        BY <4>1, <4>2
    <3>7. ASSUME NEW j \in Nat, NEW m \in Tops, SetsAt(Script, j, m), j < Position'
          PROVE  j < Position
      <4>1. CASE at = Script
        <5>1. j # p
          BY <1>0, <1>4, <3>7, <4>1
        <5> QED
          BY <1>4, <3>5, <3>6, <3>7, <4>1, <5>1
      <4>2. CASE at # Script
        BY <3>6, <3>7, <4>2
      <4> QED
        BY <4>1, <4>2
    <3> QED
      BY <1>3, <3>1, <3>4, <3>7, FurtherRun
  <2> QED
    BY <1>1, <1>3, <1>5, <2>5, <2>8, QuietRun
<1> QED
  BY <1>6, <1>7

LEMMA DefineStep == SessionInv /\ Define => SessionInv'
<1> SUFFICES ASSUME SessionInv, Define PROVE SessionInv'
  OBVIOUS
<1>0. PICK n, i, b, p : n = Instr.name /\ i = Instr.num /\ b = at /\ p = next
  OBVIOUS
<1>1. phase = "run" /\ next <= Len(code[at]) /\ Instr.op \in {"call", "var"}
  BY UseFacts DEF Define
<1>2. PICK v \in Fetched :
         /\ Use(v)
         /\ IF Instr.to \in DOMAIN globals
            THEN /\ phase' = IF mode = "file" THEN "exited" ELSE "idle"
                 /\ dups' = dups + 1
                 /\ UNCHANGED <<globals, next>>
            ELSE /\ globals' = With(globals, Instr.to, v)
                 /\ Go
                 /\ UNCHANGED <<phase, dups>>
  BY DEF Define
<1>3. UNCHANGED <<mode, names, nested, text, count, open, code, obj, native, at, calls,
                  gen, stored>>
  BY DEF Define, compiler
<1>4. b \in Bodies /\ p \in Nat \ {0} /\ \A m : ~ SetsAt(b, p, m)
  BY <1>0, <1>1, InstrFacts
<1>5. UsesMeant'
  BY <1>1, <1>2, <1>3, UseMeant
<1>6. /\ next' \in {p, p + 1} /\ phase' \in {"run", "idle", "exited"}
      /\ mode = "file" => phase' # "idle"
  BY <1>0, <1>1, <1>2 DEF Go
<1>7. next' \in Nat \ {0} /\ at' \in Bodies /\ calls' \in Seq(Resumes)
  BY <1>3, <1>4, <1>6 DEF SessionInv, Types
<1>8. ASSUME mode = "file", phase' = "run" PROVE FileRun' /\ Held'
  <2>1. globals' = With(globals, Instr.to, v) /\ next' = p + 1
    BY <1>0, <1>2, <1>8 DEF Go
  <2>2. Held
    BY <1>1, <1>8 DEF SessionInv, File
  <2>3. Live(v) /\ \A w : Live(w) => Live(w)'
    BY <1>1, <1>3, <1>8, FetchedLive DEF Live
  <2>4. \A k \in DOMAIN globals' : \A w : w = globals'[k] => Live(w)'
    BY <2>1, <2>2, <2>3 DEF Held, With
  <2>5. Held'
    BY <1>3, <2>2, <2>4 DEF Held, Live
  <2> QED
    BY <1>0, <1>1, <1>3, <1>4, <1>8, <2>1, <2>5, GoRun
<1> QED
  BY <1>1, <1>3, <1>5, <1>6, <1>7, <1>8, QuietRun

LEMMA ReturnStep == SessionInv /\ Return => SessionInv'
<1> SUFFICES ASSUME SessionInv, Return PROVE SessionInv'
  OBVIOUS
<1>1. /\ phase = "run"
      /\ UNCHANGED <<mode, names, nested, text, count, open, code, obj, native, globals,
                     gen, stored, used>>
  BY DEF Return, compiler
<1>2. UsesMeant' /\ calls \in Seq(Resumes)
  BY <1>1, UsesKept DEF SessionInv, Types
<1>3. CASE calls = <<>>
  <2>1. /\ phase' \in {"idle", "ended", "dead"} /\ (mode = "file" => phase' # "idle")
        /\ UNCHANGED <<at, next, calls>>
    BY <1>3 DEF Return
  <2>2. next' \in Nat \ {0} /\ at' \in Bodies /\ calls' \in Seq(Resumes)
    BY <2>1 DEF SessionInv, Types
  <2> QED
    BY <1>1, <1>2, <2>1, <2>2, QuietRun
<1>4. CASE calls # <<>>
  <2>0. PICK l : l = Len(calls)
    OBVIOUS
  <2>1. /\ at' = calls[l].at /\ next' = calls[l].next /\ phase' = phase
        /\ calls' = SubSeq(calls, 1, Len(calls) - 1)
    BY <1>4, <2>0 DEF Return
  <2>2. l \in Nat \ {0} /\ DOMAIN calls = 1 .. l /\ calls[l] \in Resumes
    BY <1>2, <1>4, <2>0
  <2>3. calls' = [k \in 1 .. l - 1 |-> calls[k]]
    BY <1>2, <2>0, <2>1, <2>2
  <2>4. calls' \in Seq(Resumes) /\ DOMAIN calls' = 1 .. l - 1 /\ Len(calls') = l - 1
    BY <2>2, <2>3, <1>2
  <2>5. next' \in Nat \ {0} /\ at' \in Bodies
    BY <2>1, <2>2 DEF Resumes
  <2>6. calls' = <<>> <=> l = 1
    <3>1. calls' = <<>> => Len(calls') = 0
      OBVIOUS
    <3>2. Len(calls') = 0 => calls' = <<>>
      BY <2>4
    <3> QED
      BY <2>2, <2>4, <3>1, <3>2
  <2>7. ASSUME mode = "file" PROVE FileRun' /\ Held'
    <3>1. FileRun /\ Held
      BY <1>1, <2>7 DEF SessionInv, File
    <3>2. \A w : Live(w) => Live(w)'
      BY <1>1 DEF Live
    <3>3. at' = Script <=> l = 1
      BY <2>1, <2>2, <3>1 DEF Held
    <3>4. \A k \in DOMAIN calls' : k \in DOMAIN calls /\ calls'[k] = calls[k]
      BY <2>2, <2>3, <2>4
    <3>5. \A k \in DOMAIN calls' : \A w : w = calls'[k].at => Live(w)' /\ (w = Script <=> k = 1)
      BY <3>1, <3>2, <3>4 DEF Held
    <3>6. \A w : w = at' => Live(w)'
      BY <2>1, <2>2, <3>1, <3>2 DEF Held
    <3>7. \A k \in DOMAIN obj'.cells : \A w : w = obj'.cells[k] => Live(w)'
      BY <1>1, <3>1, <3>2 DEF Held
    <3>8. \A k \in DOMAIN globals' : \A w : w = globals'[k] => Live(w)'
      BY <1>1, <3>1, <3>2 DEF Held
    <3>9. Held'
      BY <2>6, <3>3, <3>5, <3>6, <3>7, <3>8 DEF Held, Live
    <3>10. Position' = Position
      <4>1. CASE l = 1
        BY <1>4, <2>1, <2>6, <4>1 DEF Position
      <4>2. CASE l # 1
        <5>1. 1 \in DOMAIN calls'
          BY <2>2, <2>4, <4>2
        <5> QED
          BY <1>4, <2>6, <3>4, <4>2, <5>1 DEF Position
      <4> QED
        BY <4>1, <4>2
    <3> QED
      BY <1>1, <3>1, <3>9, <3>10, FurtherRun
  <2> QED
    BY <1>1, <1>2, <2>1, <2>4, <2>5, <2>7, QuietRun
<1> QED
  BY <1>3, <1>4

LEMMA RegisterStep ==
    ASSUME SessionInv, NEW n \in Hosted, Register(n)
    PROVE  SessionInv'
<1>1. /\ mode = "session" /\ phase = "idle" /\ used' = None
      /\ UNCHANGED <<mode, text, next, count, code, nested, at, calls, open>>
  BY DEF Register
<1>2. CASE n \in DOMAIN names \/ Cardinality(DOMAIN names) >= CAPACITY
  <2>1. phase' = "dead" /\ UNCHANGED <<names, obj, native, gen, stored>>
    BY <1>2 DEF Register
  <2>2. Types' /\ Placed' /\ UsesMeant' /\ CodeRefers'
    BY <1>1, <2>1, TypesKept, CodeKept, PlacedKept, NoneMeant DEF SessionInv
  <2> QED
    BY <1>1, <2>1, <2>2 DEF SessionInv, File, Unused, Active
<1>3. CASE ~(n \in DOMAIN names \/ Cardinality(DOMAIN names) >= CAPACITY)
  <2> DEFINE grown == Regrown(native + 1)
  <2>1. /\ obj' = [grown EXCEPT !.cells = With(@, native, n)]
        /\ names' = With(names, n, [type |-> "native", num |-> native])
        /\ native' = native + 1
        /\ gen' = IF grown.len = obj.len THEN gen ELSE gen + 1
        /\ stored' = [stored EXCEPT ![n] = gen']
        /\ phase' = phase /\ n \notin DOMAIN names /\ n \in Names
    BY <1>3 DEF Register, Names
  <2>2. /\ obj = [size |-> obj.size, len |-> obj.len, cells |-> obj.cells]
        /\ obj.size \in Nat /\ obj.len \in Nat \ {0}
        /\ native \in Nat /\ gen \in Nat \ {0}
        /\ stored \in [Names \cup Keywords -> 0 .. gen]
    BY DEF SessionInv, Types
  <2>3. /\ grown = [size |-> grown.size, len |-> grown.len, cells |-> grown.cells]
        /\ grown.size \in Nat /\ grown.len \in Nat \ {0}
        /\ grown = obj \/ grown.len # obj.len
    <3>1. CASE native + 1 = obj.len
      BY <2>2, <3>1 DEF Regrown
    <3>2. CASE native + 1 # obj.len
      <4>1. grown = [size |-> native + 1, len |-> 2 * obj.len,
                     cells |-> [i \in {} |-> Junk]]
        BY <3>2 DEF Regrown
      <4> QED
        BY <2>2, <4>1
    <3> QED
      BY <3>1, <3>2
  <2> HIDE DEF grown
  <2>4. /\ DOMAIN names' = DOMAIN names \cup {n}
        /\ names'[n] = [type |-> "native", num |-> native]
        /\ \A m \in DOMAIN names : m # n /\ names'[m] = names[m]
    BY <2>1 DEF With
  <2>5. obj' = [size |-> grown.size, len |-> grown.len,
                cells |-> With(grown.cells, native, n)]
    BY <2>1, <2>3
  <2>6. /\ stored' \in [Names \cup Keywords -> 0 .. gen'] /\ gen' \in Nat \ {0}
        /\ stored'[n] = gen' /\ gen' \in {gen, gen + 1}
        /\ \A m \in DOMAIN stored : m # n => stored'[m] = stored[m]
        /\ DOMAIN stored = Names \cup Keywords
    BY <2>1, <2>2
  <2>7. Types'
    <3>1. \A m \in DOMAIN names' : names'[m].num \in Nat
      BY <2>2, <2>4 DEF SessionInv, Types
    <3>2. Keywords \subseteq DOMAIN names' /\ DOMAIN names' \subseteq Names \cup Keywords
      BY <2>1, <2>4 DEF SessionInv, Types
    <3>3. \A m \in DOMAIN stored' : stored'[m] # 0 => m \in DOMAIN names'
      BY <2>4, <2>6 DEF SessionInv, Types
    <3>4. obj' = [size |-> obj'.size, len |-> obj'.len, cells |-> obj'.cells]
          /\ obj'.size \in Nat /\ obj'.len \in Nat \ {0}
      BY <2>3, <2>5
    <3>5. native' \in Nat
      BY <2>1, <2>2
    <3>6. nested' \subseteq DOMAIN names'
      BY <1>1, <2>4 DEF SessionInv, Types
    <3>7. /\ code' \in [Bodies -> Seq(Instrs)]
          /\ \A b \in Bodies : \A i, t : JumpsAt(b, i, t)' => t \in Nat \ {0}
      BY <1>1 DEF SessionInv, Types, JumpsAt
    <3> QED
      BY <1>1, <2>6, <3>1, <3>2, <3>3, <3>4, <3>5, <3>6, <3>7 DEF SessionInv, Types
  <2>8. Placed'
    <3> SUFFICES ASSUME NEW m \in DOMAIN names', ~Lost(m)', ~Shared(m)', ~Outside(m)'
                 PROVE  /\ names'[m].num \in DOMAIN obj'.cells
                        /\ obj'.cells[names'[m].num] = m
      BY DEF Placed
    <3>1. CASE m = n
      BY <2>4, <2>5, <3>1 DEF With
    <3>2. CASE m # n
      <4>1. m \in DOMAIN names /\ names'[m] = names[m]
            /\ m \in DOMAIN stored /\ stored[m] \in 0 .. gen
        BY <2>2, <2>4, <3>2 DEF SessionInv, Types
      <4>2. stored[m] = gen'
        BY <2>6, <3>2, <4>1 DEF Lost
      <4>3. gen' = gen
        BY <2>2, <2>6, <4>1, <4>2
      <4>4. grown = obj
        BY <2>1, <2>2, <2>3, <4>3
      <4>5. names[m].num # native
        BY <2>4, <3>2, <4>1 DEF Shared
      <4>6. ~Lost(m) /\ ~Outside(m)
        BY <2>5, <4>1, <4>2, <4>3, <4>4 DEF Lost, Outside
      <4>7. ~Shared(m)
        BY <2>4, <4>1 DEF Shared
      <4>8. names[m].num \in DOMAIN obj.cells /\ obj.cells[names[m].num] = m
        BY <4>1, <4>6, <4>7 DEF SessionInv, Placed
      <4> QED
        BY <2>5, <4>1, <4>4, <4>5, <4>8 DEF With
    <3> QED
      BY <3>1, <3>2
  <2>9. CodeRefers'
    <3> SUFFICES ASSUME NEW b \in Bodies, NEW i, NEW m, SetsAt(b, i, m)' \/ UsesAt(b, i, m)'
                 PROVE  m \in DOMAIN names' /\ names'[m].num = code'[b][i].num
      BY DEF CodeRefers
    <3>1. SetsAt(b, i, m) \/ UsesAt(b, i, m)
      BY <1>1 DEF SetsAt, UsesAt
    <3>2. m \in DOMAIN names /\ names[m].num = code[b][i].num
      BY <3>1 DEF SessionInv, CodeRefers
    <3> QED
      BY <1>1, <2>4, <3>2
  <2> QED
    BY <1>1, <2>1, <2>7, <2>8, <2>9, NoneMeant DEF SessionInv, File, Unused, Active
<1> QED
  BY <1>2, <1>3

-----------------------------------------------------------------------------

LEMMA NextInv == SessionInv /\ [Next]_vars => SessionInv'
<1> SUFFICES ASSUME SessionInv, [Next]_vars PROVE SessionInv'
  OBVIOUS
<1>1. CASE CompileCall
  <2>1. InText("call") /\ Refer("call", Junk)
    BY <1>1 DEF CompileCall
  <2> QED
    BY <2>1, ReferStep
<1>2. CASE CompileVar
  <2>1. text[next] \in Statement /\ text[next].op = "var"
    BY <1>2 DEF CompileVar, InText, SessionInv, Types
  <2>2. text[next].to \in Vars
    BY <2>1, StatementNames
  <2>3. InText("var") /\ Refer("var", text[next].to)
    BY <1>2 DEF CompileVar
  <2> QED
    BY <2>2, <2>3, ReferStep
<1>3. CASE UNCHANGED vars
  <2> USE DEF vars
  <2>1. Types' /\ CodeRefers' /\ Placed' /\ UsesMeant'
    BY <1>3, TypesKept, CodeKept, PlacedKept, UsesKept DEF SessionInv
  <2>2. (FileCode => FileCode') /\ (Opened => Opened')
    <3>1. UNCHANGED <<names, nested, open, code, count>>
      BY <1>3
    <3> QED
      BY <3>1, FileCodeKept DEF Opened, JumpsAt
  <2>3. (FileRun => FileRun') /\ (Held => Held')
    <3>1. Position' = Position /\ UNCHANGED <<names, nested, code, open, obj, count, gen, stored>>
      BY <1>3 DEF Position
    <3>2. FileRun => FileRun'
      BY <3>1, FurtherRun
    <3>3. Held => Held'
      BY <1>3 DEF Held, Live
    <3> QED
      BY <3>2, <3>3
  <2>4. File'
    BY <1>3, <2>2, <2>3 DEF SessionInv, File, Active, FileCompile
  <2> QED
    BY <1>3, <2>1, <2>2, <2>4 DEF SessionInv, Unused
<1>4. CASE \E n \in Hosted : Register(n)
  BY <1>4, RegisterStep
<1> QED
  BY <1>1, <1>2, <1>3, <1>4, LineStep, ReuseStep, DeclareFunctionStep, EndFunctionStep,
     DeclareClassStep, IfStep, EndIfStep, CompileNativeStep, StartStep, SetStep,
     BranchStep, UndefinedStep, FailsStep, CallStep, DefineStep, ReturnStep DEF Next

(* Whatever is declared, run and registered, and from whichever function   *)
(* it is used: a name stands for the object that was declared under it.    *)
(* The exceptions are, in a file, a name whose declaration stands in a     *)
(* body or block that has not run (compiler.c:913, 449); in a session, a   *)
(* name since whose declaration the array was made anew, that shares its   *)
(* number with one of another line, or whose number lies behind the array. *)
THEOREM SessionUses == Spec => []UsesMeant
<1>1. SessionInv => UsesMeant
  BY DEF SessionInv
<1> QED
  BY <1>1, InitInv, NextInv, PTL DEF Spec

-----------------------------------------------------------------------------
(* What the death of a program needs, beside what a use gets.              *)

(* Classes are in the table of classes until the names are freed.          *)
Tabled ==
    /\ freed \in BOOLEAN
    /\ freed = FALSE =>
          /\ phase # "run"
          /\ \A n \in DOMAIN names : names[n].type = "class" =>
                phase # "idle"
                /\ (phase = "compile" => names[n].num \in DOMAIN classes)
    /\ mode = "file" /\ phase = "compile" => freed = FALSE

(* There is a frame for the script and for each call; one more is left     *)
(* over only behind a duplicate.                                           *)
Framed ==
    /\ frames \in Nat /\ dups \in Nat
    /\ mode = "file" => /\ phase = "compile" => frames = 0
                        /\ phase = "run" => frames = 1 + Len(calls)
    /\ mode = "session" =>
          /\ phase \in {"idle", "compile"} /\ frames > 0 => dups > 0
          /\ phase = "run" => frames > Len(calls)
          /\ phase = "run" /\ frames > 1 + Len(calls) => dups > 0

(* A native can be registered only when the array of the keywords is gone. *)
Hosting ==
    mode = "session" =>
        /\ \A k \in Keywords : stored[k] = 1
        /\ native >= First /\ (gen = 1 => obj.len = First)
        /\ \A n \in Hosted \cap DOMAIN names : gen > 1

(* Code puts only functions and classes into the array.                    *)
Objected ==
    \A b \in Bodies : \A i, n : SetsAt(b, i, n) => n \in Functions_ \cup Classes

LifeInv == Tabled /\ Framed /\ Hosting /\ Objected /\ Survives

-----------------------------------------------------------------------------

LEMMA LifeInit == Init => LifeInv
<1> SUFFICES ASSUME Init PROVE LifeInv
  OBVIOUS
<1> USE FirstPositive
<1>1. DOMAIN KeywordNames = Keywords /\ \A k \in Keywords : KeywordNames[k].type = "native"
  BY DEF KeywordNames
<1>2. Tabled
  BY <1>1 DEF Init, Tabled
<1>3. Framed
  BY DEF Init, Framed
<1>4. Hosting
  <2>1. Hosted \cap Keywords = {}
    BY NamesAssumption
  <2> QED
    BY <1>1, <2>1 DEF Init, Hosting, NewArray
<1>5. Objected
  <2>1. \A b \in Bodies : code[b] = <<>>
    BY DEF Init, Bodies
  <2> QED
    BY <2>1, EmptyCode, Zenon DEF Objected
<1>6. Survives
  BY DEF Init, Survives
<1> QED
  BY <1>2, <1>3, <1>4, <1>5, <1>6 DEF LifeInv

LEMMA Modes == SessionInv => mode = "file" \/ mode = "session"
BY DEF SessionInv, Types

LEMMA ObjectedKept ==
    ASSUME Objected, code' = code
    PROVE  Objected'
BY DEF Objected, SetsAt

LEMMA ObjectedEmit ==
    ASSUME Types, Objected, NEW b \in Bodies, NEW x \in Instrs, code' = Emitted(b, x),
           x.op = "if" => x.num \in Nat \ {0},
           x.op = "set" => x.name \in Functions_ \cup Classes
    PROVE  Objected'
<1>1. PICK p : p = Len(code[b]) + 1
  OBVIOUS
<1>2. \A c \in Bodies : \A i, n : SetsAt(c, i, n)' =>
         SetsAt(c, i, n) \/ (c = b /\ i = p /\ x.op = "set" /\ x.name = n)
  BY <1>1, EmitMeans
<1> QED
  BY <1>2 DEF Objected

LEMMA LineLife == ASSUME SessionInv, LifeInv, Line PROVE LifeInv'
<1>1. /\ phase = "idle" /\ phase' = "compile" /\ code' = [code EXCEPT ![Script] = <<>>]
      /\ UNCHANGED <<mode, names, freed, obj, native, globals, frames, gen, stored, dups>>
  BY DEF Line, Begin, machine
<1>2. mode = "session"
  BY <1>1, Modes DEF SessionInv, File
<1>3. Tabled' /\ Framed' /\ Hosting'
  BY <1>1, <1>2 DEF LifeInv, Tabled, Framed, Hosting
<1>4. Objected'
  <2>1. code \in [Bodies -> Seq(Instrs)]
    BY DEF SessionInv, Types
  <2>2. code'[Script] = <<>> /\ \A b \in Bodies : b # Script => code'[b] = code[b]
    BY <1>1, <2>1, ScriptApart
  <2> QED
    BY <2>2 DEF LifeInv, Objected, SetsAt
<1>5. Survives'
  BY <1>1 DEF Survives
<1> QED
  BY <1>3, <1>4, <1>5 DEF LifeInv

LEMMA ReuseLife == ASSUME SessionInv, LifeInv, Reuse PROVE LifeInv'
<1>1. /\ phase' = "lost" /\ phase \in {"idle", "compile"} /\ freed
      /\ UNCHANGED <<mode, names, freed, obj, native, globals, frames, gen, stored,
                     dups, code>>
  BY DEF Reuse, compiler, machine
<1>2. mode = "session"
  <2>1. mode # "file"
    BY <1>1 DEF LifeInv, Tabled, SessionInv, File
  <2> QED
    BY <2>1, Modes
<1> QED
  BY <1>1, <1>2, ObjectedKept DEF LifeInv, Tabled, Framed, Hosting, Survives

LEMMA DeclareLife ==
    ASSUME SessionInv, LifeInv, NEW type \in {"function", "class"}, NEW blocks, NEW emitted,
           Declare(type, blocks, emitted), phase' = "compile" => Objected'
    PROVE  LifeInv'
<1> DEFINE n == Name
<1>1. /\ phase = "compile"
      /\ UNCHANGED <<mode, freed, obj, native, globals, frames, calls, gen, stored, dups>>
      /\ text[next].op = type
  BY DEF Declare, InText, machine
<1>2. CASE phase' # "compile"
  <2>1. /\ UNCHANGED <<names, code>>
        /\ phase' = "exited" \/ (phase' = "dead" /\ Cardinality(DOMAIN names) >= CAPACITY)
    BY <1>1, <1>2 DEF Declare, compiler
  <2> QED
    BY <1>1, <2>1, ObjectedKept DEF LifeInv, Tabled, Framed, Hosting, Survives
<1>3. CASE phase' = "compile"
  <2>1. /\ n \notin DOMAIN names
        /\ names' = With(names, n, [type |-> type, num |-> count])
        /\ classes' = IF type = "class" THEN With(classes, count, n) ELSE classes
    BY <1>1, <1>3 DEF Declare
  <2>2. n \notin Hosted
    <3>1. text[next] \in Statement
      BY DEF Declare, InText, SessionInv, Types
    <3>2. n \in Functions_ \cup Classes
      BY <1>1, <3>1, StatementNames DEF Name
    <3> QED
      BY <3>2, NamesAssumption
  <2> HIDE DEF n
  <2>3. /\ DOMAIN names' = DOMAIN names \cup {n}
        /\ names'[n] = [type |-> type, num |-> count]
        /\ \A m \in DOMAIN names : m # n /\ names'[m] = names[m]
    BY <2>1 DEF With
  <2>4. /\ DOMAIN classes \subseteq DOMAIN classes'
        /\ type = "class" => count \in DOMAIN classes'
    BY <2>1 DEF With
  <2>5. Tabled'
    <3>1. ASSUME freed = FALSE, NEW m \in DOMAIN names', names'[m].type = "class"
          PROVE  names'[m].num \in DOMAIN classes'
      <4>1. CASE m = n
        BY <2>3, <2>4, <3>1, <4>1
      <4>2. CASE m # n
        BY <1>1, <2>3, <2>4, <3>1, <4>2 DEF LifeInv, Tabled
      <4> QED
        BY <4>1, <4>2
    <3> QED
      BY <1>1, <1>3, <3>1 DEF LifeInv, Tabled
  <2>6. Framed' /\ Hosting' /\ Survives'
    BY <1>1, <1>3, <2>2, <2>3 DEF LifeInv, Framed, Hosting, Survives
  <2> QED
    BY <1>3, <2>5, <2>6 DEF LifeInv
<1> QED
  BY <1>2, <1>3

LEMMA DeclareFunctionLife == ASSUME SessionInv, LifeInv, DeclareFunction PROVE LifeInv'
<1>1. Declare("function", Append(open, Block("function", Name, 0)), code)
  BY DEF DeclareFunction
<1>2. ASSUME phase' = "compile" PROVE Objected'
  <2>1. code' = code
    BY <1>1, <1>2 DEF Declare
  <2> QED
    BY <2>1, ObjectedKept DEF LifeInv
<1> QED
  BY <1>1, <1>2, DeclareLife

LEMMA DeclareClassLife == ASSUME SessionInv, LifeInv, DeclareClass PROVE LifeInv'
<1>1. Declare("class", open, Emitted(Target, Setting(Name, count)))
  BY DEF DeclareClass
<1>2. ASSUME phase' = "compile" PROVE Objected'
  <2>1. code' = Emitted(Target, Setting(Name, count)) /\ phase = "compile"
    BY <1>1, <1>2 DEF Declare, InText
  <2>2. Target \in Bodies
    BY <2>1, IntoBodies DEF Target, SessionInv, Opened
  <2>3. text[next] \in Statement /\ text[next].op = "class"
    BY <1>1 DEF Declare, InText, SessionInv, Types
  <2>4. Name \in Classes
    BY <2>3, StatementNames DEF Name
  <2>5. PICK x : x = Setting(Name, count)
    OBVIOUS
  <2>6. x \in Instrs /\ x.op = "set" /\ x.name \in Classes
    BY <2>4, <2>5 DEF Setting, Instrs, Names, SessionInv, Types
  <2> QED
    BY <2>1, <2>2, <2>5, <2>6, ObjectedEmit DEF SessionInv, LifeInv
<1> QED
  BY <1>1, <1>2, DeclareLife

(* Statements that declare nothing.                                        *)
LEMMA CompileLife ==
    ASSUME SessionInv, LifeInv, phase = "compile", Objected',
           UNCHANGED <<mode, names, freed, obj, native, globals, frames, classes, gen,
                       stored, dups>>,
           phase' = "compile" \/ (phase' = "lost" /\ freed # FALSE)
    PROVE  LifeInv'
<1>1. Tabled' /\ Framed' /\ Hosting'
  BY DEF LifeInv, Tabled, Framed, Hosting
<1>2. Survives'
  <2>1. CASE phase' = "compile"
    BY <2>1 DEF Survives
  <2>2. CASE phase' = "lost" /\ freed # FALSE
    <3>1. freed' = TRUE /\ mode' = "session"
      BY <2>2, Modes DEF LifeInv, Tabled
    <3> QED
      BY <2>2, <3>1 DEF Survives
  <2> QED
    BY <2>1, <2>2
<1> QED
  BY <1>1, <1>2 DEF LifeInv

LEMMA GoesLife ==
    ASSUME SessionInv, LifeInv, phase = "compile", NEW blocks, NEW emitted,
           Goes(blocks, emitted), Objected'
    PROVE  LifeInv'
<1>1. /\ phase' = phase
      /\ UNCHANGED <<mode, names, freed, obj, native, globals, frames, classes, gen, stored,
                     dups>>
  BY DEF Goes, machine, histories
<1> QED
  BY <1>1, CompileLife

LEMMA EndFunctionLife == ASSUME SessionInv, LifeInv, EndFunction PROVE LifeInv'
<1>1. /\ phase = "compile" /\ open # <<>> /\ Inner.op = "function"
      /\ Goes(Outer, Emitted(Into(Outer), Setting(Inner.into, names[Inner.into].num)))
  BY DEF EndFunction, InText
<1>2. Types /\ Opened /\ open \in Seq(Blocks)
  BY <1>1 DEF SessionInv, Opened
<1>3. PICK f, last : f = Inner.into /\ last = Len(open)
  OBVIOUS
<1>4. PICK x : x = Setting(f, names[f].num)
  OBVIOUS
<1>5. code' = Emitted(Into(Outer), x)
  BY <1>1, <1>3, <1>4 DEF Goes
<1>6. last \in DOMAIN open /\ open[last].op = "function" /\ open[last].into = f
  BY <1>1, <1>2, <1>3 DEF Inner
<1>7. f \in Functions_ /\ names[f].num \in Nat
  <2>1. PICK i : open[last].i = i
    OBVIOUS
  <2> QED
    BY <1>2, <1>6, <2>1 DEF Opened, Types
<1>8. x \in Instrs /\ x.op = "set" /\ x.name = f
  BY <1>4, <1>7 DEF Setting, Instrs, Names
<1>9. Into(Outer) \in Bodies
  BY <1>1, <1>2, PoppedBlock, IntoBodies DEF Outer
<1>10. Objected'
  BY <1>2, <1>5, <1>7, <1>8, <1>9, ObjectedEmit DEF LifeInv
<1> QED
  BY <1>1, <1>10, GoesLife

LEMMA IfLife == ASSUME SessionInv, LifeInv, If PROVE LifeInv'
<1>1. /\ phase = "compile"
      /\ Goes(Append(open, Block("if", Target, Len(code[Target]) + 1)),
              Emitted(Target, Jump(1)))
  BY DEF If, InText
<1>2. Types /\ Target \in Bodies
  BY <1>1, IntoBodies DEF Target, SessionInv, Opened
<1>3. PICK x : x = Jump(1)
  OBVIOUS
<1>4. x \in Instrs /\ x.op = "if" /\ x.num = 1
  BY <1>3 DEF Jump, Instrs
<1>5. code' = Emitted(Target, x)
  BY <1>1, <1>3 DEF Goes
<1>6. Objected'
  BY <1>2, <1>4, <1>5, ObjectedEmit DEF LifeInv
<1> QED
  BY <1>1, <1>6, GoesLife

LEMMA EndIfLife == ASSUME SessionInv, LifeInv, EndIf PROVE LifeInv'
<1>1. PICK b, i, x : b = Target /\ i = Inner.i /\ x = Jump(Len(code[Target]) + 1)
  OBVIOUS
<1>2. /\ phase = "compile"
      /\ Goes(Outer, [code EXCEPT ![Target] =
                         [@ EXCEPT ![Inner.i] = Jump(Len(code[Target]) + 1)]])
  BY DEF EndIf, InText
<1>3. code' = [code EXCEPT ![b] = [code[b] EXCEPT ![i] = x]]
  BY <1>1, <1>2 DEF Goes
<1>4. x.op = "if"
  BY <1>1 DEF Jump
<1>5. code \in [Bodies -> Seq(Instrs)] /\ b \in Bodies
  BY <1>1, <1>2, IntoBodies DEF Target, SessionInv, Types, Opened
<1>6. PICK s : s = code[b]
  OBVIOUS
<1>7. code'[b] = [s EXCEPT ![i] = x] /\ \A c \in Bodies : c # b => code'[c] = code[c]
  BY <1>3, <1>5, <1>6
<1>8. \A j \in DOMAIN code'[b] : /\ j \in DOMAIN code[b]
                                 /\ j = i => code'[b][j] = x
                                 /\ j # i => code'[b][j] = code[b][j]
  BY <1>6, <1>7
<1>9. \A c \in Bodies : \A j, n : SetsAt(c, j, n)' => SetsAt(c, j, n)
  BY <1>4, <1>7, <1>8 DEF SetsAt
<1>10. Objected'
  BY <1>9 DEF LifeInv, Objected
<1> QED
  BY <1>2, <1>10, GoesLife

LEMMA ReferLife ==
    ASSUME SessionInv, LifeInv, NEW op \in {"call", "var"}, NEW to \in Vars \cup {Junk},
           InText(op), Refer(op, to)
    PROVE  LifeInv'
<1>1. PICK x : x = [op |-> op, num |-> Resolved(Name), name |-> Name, to |-> to]
  OBVIOUS
<1>2. /\ code' = Emitted(Target, x) /\ phase = "compile"
      /\ UNCHANGED <<mode, names, freed, obj, native, globals, frames, classes, gen,
                     stored, dups>>
      /\ phase' = "compile" \/ (phase' = "lost" /\ Foreign(Name))
  BY <1>1 DEF Refer, Compiled, machine, histories, InText
<1>3. Foreign(Name) => freed # FALSE
  BY <1>2 DEF Foreign, Declared, LifeInv, Tabled
<1>4. text[next] \in Statement /\ text[next].op = op
  BY DEF InText, SessionInv, Types
<1>5. Name \in Names \cup Vars
  BY <1>4, StatementNames DEF Name
<1>6. Resolved(Name) \in Int
  BY DEF Resolved, Declared, SessionInv, Types
<1>7. x \in Instrs /\ x.op = op
  BY <1>1, <1>5, <1>6 DEF Instrs
<1>8. Types /\ Target \in Bodies
  BY <1>2, IntoBodies DEF Target, SessionInv, Opened
<1>9. Objected'
  BY <1>2, <1>7, <1>8, ObjectedEmit DEF LifeInv
<1> QED
  BY <1>2, <1>3, <1>9, CompileLife

LEMMA NativeLife == ASSUME SessionInv, LifeInv, CompileNative PROVE LifeInv'
<1>1. PICK x : x = [op |-> "call", num |-> names[Name].num, name |-> Name, to |-> Junk]
  OBVIOUS
<1>2. /\ code' = Emitted(Target, x) /\ phase = "compile" /\ phase' = "compile"
      /\ UNCHANGED <<mode, names, freed, obj, native, globals, frames, classes, gen,
                     stored, dups>>
  BY <1>1 DEF CompileNative, Compiled, InText, machine, histories
<1>3. text[next] \in Statement /\ text[next].op = "native"
  BY DEF CompileNative, InText, SessionInv, Types
<1>4. Name \in Keywords
  BY <1>3, StatementNames DEF Name
<1>5. names[Name].num \in Nat
  BY <1>4 DEF SessionInv, Types
<1>6. x \in Instrs /\ x.op = "call"
  BY <1>1, <1>4, <1>5 DEF Instrs
<1>7. Types /\ Target \in Bodies
  BY <1>2, IntoBodies DEF Target, SessionInv, Opened
<1>8. Objected'
  BY <1>2, <1>6, <1>7, ObjectedEmit DEF LifeInv
<1> QED
  BY <1>2, <1>8, CompileLife

(* An array made anew has another length.                                  *)
LEMMA RegrownLen ==
    ASSUME Types, NEW size \in Nat
    PROVE  LET r == Regrown(size) IN
           /\ r.len \in Nat /\ (r.len = obj.len => r = obj /\ size = obj.len)
<1>1. obj.len \in Nat \ {0}
  BY DEF Types
<1>2. CASE size = obj.len
  BY <1>1, <1>2 DEF Regrown
<1>3. CASE size # obj.len
  <2>1. Regrown(size).len = 2 * obj.len
    BY <1>3 DEF Regrown
  <2>2. 2 * obj.len \in Nat /\ 2 * obj.len # obj.len
    BY <1>1
  <2> QED BY <2>1, <2>2
<1> QED BY <1>2, <1>3

LEMMA StartLife == ASSUME SessionInv, LifeInv, Start PROVE LifeInv'
<1>1. /\ phase = "compile" /\ freed' = TRUE /\ calls' = <<>>
      /\ UNCHANGED <<mode, names, code, classes, native, globals, dups>>
  BY DEF Start, compiler
<1>2. Types /\ Framed /\ Hosting /\ FRAMES \in Nat \ {0}
  BY SessionAssumption DEF SessionInv, LifeInv
<1>o. Objected'
  BY <1>1, ObjectedKept DEF LifeInv
<1>3. CASE frames = FRAMES
  <2>1. phase' = "dead" /\ UNCHANGED <<obj, frames, gen, stored>>
    BY <1>3 DEF Start
  <2>2. mode = "session" /\ dups > 0
    BY <1>1, <1>2, <1>3, Modes DEF Framed
  <2>3. Tabled' /\ Framed' /\ Hosting' /\ Survives'
    BY <1>1, <1>2, <2>1, <2>2 DEF Tabled, Framed, Hosting, Survives
  <2> QED
    BY <1>o, <2>3 DEF LifeInv
<1>4. CASE frames # FRAMES
  <2>1. /\ phase' = "run" /\ frames' = frames + 1
        /\ mode = "session" => \E x \in Strays : obj' = Regrown(native + x)
        /\ gen' = IF obj'.len = obj.len THEN gen ELSE gen + 1
        /\ mode = "session" => stored' = stored
    <3>1. mode = "session" => stored' = [n \in DOMAIN stored |-> stored[n]]
      BY <1>4 DEF Start
    <3>2. stored = [n \in DOMAIN stored |-> stored[n]]
      BY <1>2 DEF Types
    <3> QED
      BY <1>4, <3>1, <3>2, Modes DEF Start
  <2>2. Tabled' /\ Survives'
    BY <1>1, <2>1 DEF Tabled, Survives
  <2>3. Framed'
    <3>1. frames + 1 \in Nat /\ frames + 1 > 0 /\ (frames + 1 > 1 => frames > 0)
      BY <1>2 DEF Framed
    <3>2. Len(calls') = 0
      BY <1>1
    <3> QED
      BY <1>1, <1>2, <2>1, <3>1, <3>2, Modes DEF Framed
  <2>4. gen \in Nat \ {0} /\ gen' \in {gen, gen + 1}
    BY <1>2, <2>1 DEF Types
  <2>6. Hosting'
    <3> SUFFICES ASSUME mode = "session"
                 PROVE  /\ \A k \in Keywords : stored'[k] = 1
                        /\ native' >= First /\ (gen' = 1 => obj'.len = First)
                        /\ \A n \in Hosted \cap DOMAIN names' : gen' > 1
      BY <1>1 DEF Hosting
    <3>1. gen' >= gen /\ (gen' = 1 => gen = 1 /\ obj'.len = obj.len)
      BY <2>1, <2>4
    <3>2. /\ \A k \in Keywords : stored[k] = 1
          /\ native >= First /\ (gen = 1 => obj.len = First)
          /\ \A n \in Hosted \cap DOMAIN names : gen > 1
      BY <1>2 DEF Hosting
    <3>3. gen > 1 => gen' > 1
      BY <2>4, <3>1
    <3> QED
      BY <1>1, <2>1, <3>1, <3>2, <3>3
  <2> QED
    BY <1>o, <2>2, <2>3, <2>6 DEF LifeInv
<1> QED
  BY <1>3, <1>4

LEMMA SetLife == ASSUME SessionInv, LifeInv, Set PROVE LifeInv'
<1>0. PICK n, i, b, p : n = Instr.name /\ i = Instr.num /\ b = at /\ p = next
  OBVIOUS
<1>1. /\ phase = "run" /\ next <= Len(code[at]) /\ Instr.op = "set"
      /\ UNCHANGED <<mode, names, code, classes, freed, native, globals, frames, calls,
                     gen, dups, count>>
      /\ obj' = Put(i, n)
      /\ stored' = [stored EXCEPT ![n] = gen]
      /\ phase' = "run" \/ (phase' = "dead" /\ ~ (i < obj.size))
  BY <1>0 DEF Set, Running, compiler
<1>2. Types /\ Framed /\ Hosting /\ Tabled /\ Objected
  BY DEF SessionInv, LifeInv
<1>3. /\ b \in Bodies /\ SetsAt(b, p, n) /\ n \in DOMAIN names /\ names[n].num = i
      /\ n \in Functions_ \cup Classes /\ n \notin Keywords
  <2>1. b \in Bodies /\ SetsAt(b, p, n) /\ n \in DOMAIN names /\ names[n].num = i
    BY <1>0, <1>1, InstrFacts
  <2>2. n \in Functions_ \cup Classes
    BY <1>2, <2>1 DEF Objected
  <2> QED
    BY <2>1, <2>2, NamesAssumption
<1>4. obj'.size = obj.size /\ obj'.len = obj.len
  <2>1. obj = [size |-> obj.size, len |-> obj.len, cells |-> obj.cells]
    BY <1>2 DEF Types
  <2> QED
    BY <1>1, <2>1 DEF Put
<1>5. \A m \in DOMAIN stored : m # n => stored'[m] = stored[m]
  BY <1>1
<1>6. Tabled' /\ Framed' /\ Objected'
  BY <1>1, <1>2, ObjectedKept DEF Tabled, Framed
<1>7. Hosting'
  <2>1. \A k \in Keywords : k \in DOMAIN stored /\ k # n
    BY <1>2, <1>3 DEF Types
  <2> QED
    BY <1>1, <1>2, <1>4, <1>5, <2>1 DEF Hosting
<1>10. ASSUME phase' = "dead" PROVE Survives'
  <2>1. ~ (names[n].num < obj.size)
    BY <1>1, <1>3, <1>10
  <2>2. names[n].num \in Nat /\ obj.size \in Nat /\ First \in Nat /\ count \in Nat
    BY <1>2, <1>3, FirstPositive DEF Types
  <2>3. mode # "file"
    <3> SUFFICES ASSUME mode = "file" PROVE FALSE
      OBVIOUS
    <3>1. FileNames /\ FileRun
      BY <1>1 DEF SessionInv, File, Active, FileCode
    <3>2. names[n].num \in First .. count - 1 /\ obj.size = count
      BY <1>3, <3>1 DEF FileNames, FileRun
    <3> QED
      BY <2>1, <2>2, <3>2
  <2>4. Outside(n)'
    BY <1>1, <1>4, <2>1, <2>2 DEF Outside
  <2> QED
    BY <1>1, <1>3, <2>3, <2>4, Modes DEF Survives
<1>11. phase' = "run" => Survives'
  BY DEF Survives
<1> QED
  BY <1>1, <1>6, <1>7, <1>10, <1>11 DEF LifeInv

(* What goes on, or stops as it should.                                    *)
LEMMA RunLife ==
    ASSUME SessionInv, LifeInv, phase = "run", phase' \in {"run", "idle", "ended", "exited"},
           UNCHANGED <<mode, names, freed, code, obj, native, gen, stored>>, Framed'
    PROVE  LifeInv'
<1>1. Objected'
  BY ObjectedKept DEF LifeInv
<1>2. Tabled' /\ Hosting' /\ Survives'
  BY DEF LifeInv, Tabled, Hosting, Survives
<1> QED
  BY <1>1, <1>2 DEF LifeInv

LEMMA BranchLife == ASSUME SessionInv, LifeInv, Branch PROVE LifeInv'
<1>1. /\ phase = "run" /\ phase' = "run"
      /\ UNCHANGED <<mode, names, freed, code, obj, native, gen, stored, frames, calls, dups>>
  BY DEF Branch, Running, compiler, machine
<1>2. Framed'
  BY <1>1 DEF LifeInv, Framed
<1> QED
  BY <1>1, <1>2, RunLife

(* An error drops the frames, and ends the text.                           *)
LEMMA ErrorLife ==
    ASSUME SessionInv, LifeInv, phase = "run", Error,
           UNCHANGED <<mode, names, code, freed, obj, native, gen, stored>>
    PROVE  LifeInv'
<1>1. /\ phase' \in {"exited", "idle"} /\ (mode = "file" => phase' = "exited")
      /\ frames' = 0 /\ dups' = 0
  BY DEF Error, Dropped
<1>2. Framed'
  BY <1>1 DEF Framed
<1> QED
  BY <1>1, <1>2, RunLife

LEMMA UndefinedLife == ASSUME SessionInv, LifeInv, Undefined PROVE LifeInv'
<1>1. phase = "run" /\ Error
      /\ UNCHANGED <<mode, names, code, freed, obj, native, gen, stored>>
  BY DEF Undefined, Running, compiler
<1> QED
  BY <1>1, ErrorLife

LEMMA FailsLife == ASSUME SessionInv, LifeInv, SessionInv', Fails PROVE LifeInv'
<1>0. PICK n, i, b, p : n = Instr.name /\ i = Instr.num /\ b = at /\ p = next
  OBVIOUS
<1>1. /\ phase = "run" /\ next <= Len(code[at]) /\ Instr.op \in {"call", "var"}
      /\ UNCHANGED <<mode, names, nested, code, freed, obj, native, gen, stored>>
  BY UseFacts DEF Fails, compiler
<1>2. PICK v \in Fetched :
         /\ Use(v)
         /\ \/ Error
            \/ /\ "dead" \in Outcomes(v) /\ phase' = "dead"
               /\ UNCHANGED <<globals, frames, calls, dups>>
  BY DEF Fails
<1>3. CASE Error
  BY <1>1, <1>3, ErrorLife
<1>4. CASE "dead" \in Outcomes(v) /\ phase' = "dead"
           /\ UNCHANGED <<globals, frames, calls, dups>>
  <2>1. v = Junk \/ (i >= 0 /\ n \in Classes /\ v \notin Classes)
    BY <1>0, <1>4 DEF Outcomes, AsClass
  <2>2. i \in Int /\ (i >= 0 => n \in DOMAIN names)
    BY <1>0, <1>1, InstrFacts
  <2>3. Survives'
    <3>1. CASE ~ (i >= 0)
      <4>1. n \in DOMAIN globals /\ globals[n] = Junk
        BY <1>0, <2>1, <3>1 DEF Fetched
      <4> QED
        BY <1>4, <4>1 DEF Survives
    <3>2. CASE i >= 0
      <4>1. v # n
        BY <2>1, <2>2, <3>2, SessionAssumption DEF SessionInv, Types
      <4>2. used' = [name |-> n, got |-> v]
        BY <1>0, <1>2, <3>2 DEF Use
      <4>3. used'.name = n /\ used'.got # n
        BY <4>1, <4>2
      <4>4. IF mode = "file" THEN Unwritten(n)' ELSE Lost(n)' \/ Shared(n)' \/ Outside(n)'
        BY <1>1, <4>3 DEF SessionInv, UsesMeant, Lost, Shared, Outside, Unwritten
      <4>5. CASE mode = "file"
        BY <1>1, <4>3, <4>4, <4>5 DEF Survives, Unwritten
      <4>6. CASE mode = "session"
        BY <1>1, <2>2, <3>2, <4>4, <4>6 DEF Survives
      <4> QED
        BY <4>5, <4>6, Modes
    <3> QED
      BY <3>1, <3>2
  <2>4. Tabled' /\ Framed' /\ Hosting' /\ Objected'
    BY <1>1, <1>4, ObjectedKept DEF LifeInv, Tabled, Framed, Hosting
  <2> QED
    BY <2>3, <2>4 DEF LifeInv
<1> QED
  BY <1>2, <1>3, <1>4

LEMMA CallLife == ASSUME SessionInv, LifeInv, Call PROVE LifeInv'
<1>1. /\ phase = "run" /\ phase' = "run"
      /\ UNCHANGED <<mode, names, freed, code, obj, native, gen, stored, dups>>
      /\ \/ \E r : calls' = Append(calls, r) /\ frames' = frames + 1
         \/ UNCHANGED <<calls, frames>>
  BY DEF Call, Running, compiler
<1>2. Framed /\ calls \in Seq(Resumes)
  BY DEF LifeInv, SessionInv, Types
<1>3. CASE UNCHANGED <<calls, frames>>
  <2>1. Framed'
    BY <1>1, <1>2, <1>3 DEF Framed
  <2> QED
    BY <1>1, <2>1, RunLife
<1>4. CASE \E r : calls' = Append(calls, r) /\ frames' = frames + 1
  <2>1. PICK r : calls' = Append(calls, r) /\ frames' = frames + 1
    BY <1>4
  <2>2. Len(calls') = Len(calls) + 1 /\ Len(calls) \in Nat
    BY <1>2, <2>1
  <2>3. PICK l : l = Len(calls) /\ l \in Nat
    BY <2>2
  <2>4. Framed'
    BY <1>1, <1>2, <2>1, <2>2, <2>3 DEF Framed
  <2> QED
    BY <1>1, <2>4, RunLife
<1> QED
  BY <1>1, <1>3, <1>4

LEMMA DefineLife == ASSUME SessionInv, LifeInv, Define PROVE LifeInv'
<1>1. /\ phase = "run" /\ UNCHANGED <<mode, names, freed, code, obj, native, frames, calls,
                                      gen, stored>>
      /\ \/ phase' \in {"exited", "idle"} /\ dups' = dups + 1
            /\ (mode = "file" => phase' = "exited")
         \/ phase' = "run" /\ dups' = dups
  BY DEF Define, Running, compiler
<1>2. Framed'
  BY <1>1 DEF LifeInv, Framed
<1> QED
  BY <1>1, <1>2, RunLife

LEMMA ReturnLife == ASSUME SessionInv, LifeInv, Return PROVE LifeInv'
<1>1. /\ phase = "run" /\ frames' = frames - 1
      /\ UNCHANGED <<mode, names, freed, code, obj, native, globals, gen, stored, dups>>
  BY DEF Return, compiler
<1>2. Framed /\ calls \in Seq(Resumes)
  BY DEF LifeInv, SessionInv, Types
<1>3. CASE calls = <<>>
  <2>1. /\ phase' = IF frames > 1 THEN "dead" ELSE IF mode = "file" THEN "ended" ELSE "idle"
        /\ calls' = calls /\ Len(calls) = 0
    BY <1>3 DEF Return
  <2>2. frames \in Nat /\ frames > 0 /\ (frames > 1 => mode = "session" /\ dups > 0)
    BY <1>1, <1>2, <2>1, Modes DEF Framed
  <2>3. frames - 1 \in Nat /\ (~ (frames > 1) => frames - 1 = 0)
    BY <2>2
  <2>4. CASE frames > 1
    <3>1. phase' = "dead"
      BY <2>1, <2>4
    <3>2. Tabled' /\ Framed' /\ Hosting' /\ Survives' /\ Objected'
      BY <1>1, <1>2, <2>2, <2>3, <2>4, <3>1, ObjectedKept
         DEF LifeInv, Tabled, Framed, Hosting, Survives
    <3> QED
      BY <3>2 DEF LifeInv
  <2>5. CASE ~ (frames > 1)
    <3>1. phase' \in {"ended", "idle"} /\ frames' = 0
      BY <1>1, <2>1, <2>3, <2>5
    <3>2. mode = "file" => phase' = "ended"
      BY <2>1, <2>5
    <3>3. Framed'
      BY <1>1, <1>2, <3>1, <3>2 DEF Framed
    <3> QED
      BY <1>1, <3>1, <3>3, RunLife
  <2> QED
    BY <2>4, <2>5
<1>4. CASE calls # <<>>
  <2>1. phase' = "run" /\ calls' = SubSeq(calls, 1, Len(calls) - 1)
    BY <1>1, <1>4 DEF Return
  <2>2. PICK l : l = Len(calls) /\ l \in Nat \ {0}
    BY <1>2, <1>4
  <2>3. Len(calls') = l - 1
    BY <1>2, <2>1, <2>2
  <2>4. PICK k : k = Len(calls')
    OBVIOUS
  <2>5. k = l - 1
    BY <2>3, <2>4
  <2>6. /\ frames \in Nat /\ dups \in Nat
        /\ mode = "file" => frames = 1 + l
        /\ mode = "session" => frames > l /\ (frames > 1 + l => dups > 0)
    BY <1>1, <1>2, <2>2 DEF Framed
  <2>7. /\ frames - 1 \in Nat
        /\ mode = "file" => frames - 1 = 1 + k
        /\ mode = "session" => frames - 1 > k /\ (frames - 1 > 1 + k => dups > 0)
    BY <2>2, <2>5, <2>6, Modes
  <2>8. Framed'
    BY <1>1, <2>1, <2>4, <2>6, <2>7 DEF Framed
  <2> QED
    BY <1>1, <2>1, <2>8, RunLife
<1> QED
  BY <1>3, <1>4

LEMMA RegisterLife ==
    ASSUME SessionInv, LifeInv, NEW n \in Hosted, Register(n)
    PROVE  LifeInv'
<1>1. /\ mode = "session" /\ phase = "idle"
      /\ UNCHANGED <<mode, freed, globals, frames, calls, code, classes, dups>>
  BY DEF Register
<1>2. Types /\ Tabled /\ Framed /\ Hosting /\ Objected'
  BY <1>1, ObjectedKept DEF SessionInv, LifeInv
<1>3. gen \in Nat \ {0} /\ native \in Nat /\ First \in Nat \ {0} /\ n \notin Keywords
  BY <1>2, FirstPositive, NamesAssumption DEF Types
<1>4. CASE n \in DOMAIN names \/ Cardinality(DOMAIN names) >= CAPACITY
  <2>1. phase' = "dead" /\ UNCHANGED <<names, obj, native, gen, stored>>
    BY <1>4 DEF Register
  <2>2. Survives'
    <3>1. CASE Cardinality(DOMAIN names) >= CAPACITY
      BY <2>1, <3>1 DEF Survives
    <3>2. CASE n \in DOMAIN names
      <4>1. PICK k : k = Natives[1]
        OBVIOUS
      <4>2. 1 \in DOMAIN Natives
        BY FirstPositive
      <4>3. k \in Keywords
        BY <4>1, <4>2 DEF Keywords, Range
      <4>4. k \in DOMAIN names /\ stored[k] = 1 /\ gen > 1
        BY <1>1, <1>2, <3>2, <4>3 DEF Types, Hosting
      <4>5. Lost(k)'
        BY <1>3, <2>1, <4>4 DEF Lost
      <4> QED
        BY <1>1, <2>1, <4>4, <4>5 DEF Survives
    <3> QED
      BY <1>4, <3>1, <3>2
  <2>3. Tabled' /\ Framed' /\ Hosting'
    BY <1>1, <1>2, <2>1 DEF Tabled, Framed, Hosting
  <2> QED
    BY <1>2, <2>2, <2>3 DEF LifeInv
<1>5. CASE ~ (n \in DOMAIN names \/ Cardinality(DOMAIN names) >= CAPACITY)
  <2>1. PICK grown : /\ grown = Regrown(native + 1)
                     /\ obj' = [grown EXCEPT !.cells = With(@, native, n)]
                     /\ gen' = IF grown.len = obj.len THEN gen ELSE gen + 1
    BY <1>5 DEF Register
  <2>2. /\ names' = With(names, n, [type |-> "native", num |-> native])
        /\ native' = native + 1
        /\ stored' = [stored EXCEPT ![n] = gen']
        /\ phase' = phase /\ n \notin DOMAIN names
    BY <1>5 DEF Register
  <2>3. grown.len \in Nat /\ (grown.len = obj.len => grown = obj /\ native + 1 = obj.len)
    BY <1>2, <1>3, <2>1, RegrownLen
  <2>4. obj'.size = grown.size /\ obj'.len = grown.len
    <3>1. grown = [size |-> grown.size, len |-> grown.len, cells |-> grown.cells]
      <4>1. CASE grown = obj
        BY <1>2, <4>1 DEF Types
      <4>2. CASE grown = [size |-> native + 1, len |-> 2 * obj.len,
                          cells |-> [i \in {} |-> Junk]]
        BY <4>2
      <4> QED
        BY <2>1, <4>1, <4>2 DEF Regrown
    <3> QED
      BY <2>1, <3>1
  <2>5. gen' \in Nat /\ (gen' > gen \/ (gen' = gen /\ obj'.size = obj.size))
    BY <1>3, <2>1, <2>3, <2>4
  <2>6. gen' > 1
    <3>1. CASE gen = 1
      <4>1. obj.len = First /\ native >= First
        BY <1>1, <1>2, <3>1 DEF Hosting
      <4>2. native + 1 # obj.len
        BY <1>3, <4>1
      <4> QED
        BY <2>1, <2>3, <3>1, <4>2
    <3>2. CASE gen # 1
      BY <1>3, <2>5, <3>2
    <3> QED
      BY <3>1, <3>2
  <2>7. /\ DOMAIN names' = DOMAIN names \cup {n}
        /\ names'[n] = [type |-> "native", num |-> native]
        /\ \A m \in DOMAIN names : m # n /\ names'[m] = names[m]
    BY <2>2 DEF With
  <2>8. \A m \in DOMAIN stored : m # n => stored'[m] = stored[m]
    BY <2>2
  <2>9. Tabled'
    <3>1. \A m \in DOMAIN names' : names'[m].type = "class" => m \in DOMAIN names
      BY <2>7
    <3> QED
      BY <1>1, <1>2, <2>2, <2>7, <3>1 DEF Tabled
  <2>10. Framed' /\ Survives'
    BY <1>1, <1>2, <2>2 DEF Framed, Survives
  <2>11. Hosting'
    <3>1. \A k \in Keywords : stored'[k] = 1
      <4>1. \A k \in Keywords : k \in DOMAIN stored /\ k # n
        BY <1>2, <1>3 DEF Types
      <4> QED
        BY <1>1, <1>2, <2>8, <4>1 DEF Hosting
    <3>2. native' >= First
      BY <1>1, <1>2, <1>3, <2>2 DEF Hosting
    <3> QED
      BY <2>6, <3>1, <3>2 DEF Hosting
  <2> QED
    BY <1>2, <2>9, <2>10, <2>11 DEF LifeInv
<1> QED
  BY <1>4, <1>5

LEMMA LifeNext == SessionInv /\ LifeInv /\ [Next]_vars => LifeInv'
<1> SUFFICES ASSUME SessionInv, LifeInv, [Next]_vars PROVE LifeInv'
  OBVIOUS
<1>1. SessionInv'
  BY NextInv
<1>2. CASE CompileCall
  <2>1. InText("call") /\ Refer("call", Junk)
    BY <1>2 DEF CompileCall
  <2> QED
    BY <2>1, ReferLife
<1>3. CASE CompileVar
  <2>1. text[next] \in Statement /\ text[next].op = "var"
    BY <1>3 DEF CompileVar, InText, SessionInv, Types
  <2>2. text[next].to \in Vars
    BY <2>1, StatementNames
  <2>3. InText("var") /\ Refer("var", text[next].to)
    BY <1>3 DEF CompileVar
  <2> QED
    BY <2>2, <2>3, ReferLife
<1>4. CASE \E n \in Hosted : Register(n)
  BY <1>4, RegisterLife
<1>5. CASE UNCHANGED vars
  <2>1. UNCHANGED <<mode, phase, names, freed, obj, native, globals, frames, calls,
                    classes, code, gen, stored, used, dups, nested>>
    BY <1>5 DEF vars
  <2> QED
    BY <2>1, ObjectedKept
       DEF LifeInv, Tabled, Framed, Hosting, Survives, Lost, Shared, Outside, Unwritten
<1> QED
  BY <1>1, <1>2, <1>3, <1>4, <1>5, LineLife, ReuseLife, DeclareFunctionLife,
     EndFunctionLife, DeclareClassLife, IfLife, EndIfLife, NativeLife, StartLife, SetLife,
     BranchLife, UndefinedLife, FailsLife, CallLife, DefineLife, ReturnLife DEF Next

(* A file dies only of more names than their table holds, or of what       *)
(* nobody wrote: under a name whose declaration stands in a body or block  *)
(* that has not run (virtual_machine.c:463), or in a variable that was     *)
(* given that.  A session dies also of its freed names, of the frame a     *)
(* duplicate left, or when a name stands for no object of its own.         *)
THEOREM SessionSurvives == Spec => []Survives
<1>1. LifeInv => Survives
  BY DEF LifeInv
<1> QED
  BY <1>1, InitInv, NextInv, LifeInit, LifeNext, PTL DEF Spec

=============================================================================
