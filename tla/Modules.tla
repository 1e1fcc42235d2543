------------------------------- MODULE Modules -------------------------------
(***************************************************************************)
(* Files that import one another: compile_path (compiler.c:1964), which    *)
(* compiles a file declaration by declaration, include_file, which stops   *)
(* in the middle of one to compile another file (compiler.c:108,           *)
(* ffi.c:113), and export (compiler.c:212).                                *)
(*                                                                         *)
(* There is one scanner for all of them, a static variable: an import      *)
(* saves it, the imported file's compilation starts it anew, and only an   *)
(* import that succeeds puts it back.  Each compilation has names and a    *)
(* parser of its own; machine.modules outlives them.                       *)
(*                                                                         *)
(* A text is its declarations, each ended by a semicolon, behind tokens    *)
(* that are none (`bad`).  Errors within a declaration are cleared at its  *)
(* end (compiler.c:250), so that only those before the first one matter.   *)
(***************************************************************************)
EXTENDS Integers, Sequences, FiniteSets

CONSTANTS Files,      \* files, by their real paths
          Texts,      \* assignments of texts to files
          Ids,        \* identifiers of programs
          FileName,   \* the last part of a path
          Absent,     \* paths that lead to no file, or to an unreadable one
          Mains,      \* the files that are run, not only imported
          DEPTH       \* bound: compilations the C stack has room for

Text == [bad : BOOLEAN,
         decls : Seq([kind : {"use", "declare", "export"}, name : Ids]
                     \cup [kind : {"import", "inner"}, from : Files \cup Absent]
                     \cup [kind : {"other"}])]

ASSUME ModulesAssumption ==
    /\ Absent \cap Files = {}
    /\ Texts \subseteq [Files -> Text]
    /\ Mains \subseteq Files
    /\ DEPTH \in Nat \ {0}

(* Paths begin with a slash: no path is the name of a file or identifier.  *)
ASSUME NamesAssumption ==
    \A f \in Files : f \notin Ids /\ FileName[f] \notin Files

VARIABLES texts,      \* the files
          work,       \* compilations, each waiting for the one behind it
          scan,       \* the scanner: the file, and the declaration it is in
          modules,    \* machine.modules: what its keys stand for
          phase       \* "compile", "compiled", "refused", "exited", "dead"

vars == <<texts, work, scan, modules, phase>>

Last == Len(work)
Top == work[Last]
Decls(f) == texts[f].decls
Decl == Decls(Top.file)[Top.cur]

(* init_scanner, a new compiler with its table of names and the first      *)
(* token, before which bad ones set the parser's flag (compiler.c:1964).   *)
Compilation(f, repl) ==
    [file |-> f,
     cwd |-> ~repl,           \* whether c.meta.cwd and current_file are set
     cur |-> 1,               \* the declaration that the parser is at
     flag |-> texts[f].bad,   \* parser.flag
     names |-> {},            \* base->lookup, its natives aside
     done |-> {},             \* history: the declarations compiled
     refs |-> {}]             \* history: what names were taken for

Start(f) == [file |-> f, at |-> 1]

(* The scanner is where the parser believes it to be.                      *)
InStep(c) == scan = [file |-> c.file, at |-> c.cur]

AtDecl(kind) ==
    /\ phase = "compile"
    /\ Top.cur <= Len(Decls(Top.file)) /\ InStep(Top)
    /\ Decl.kind = kind

(* The declaration is compiled, its errors are cleared (synchronize stops  *)
(* behind a semicolon) and the parser is at the next.                      *)
Passed(c) == [c EXCEPT !.cur = @ + 1, !.flag = FALSE, !.done = @ \cup {c.cur}]

Finish(c) ==
    /\ work' = [work EXCEPT ![Last] = Passed(c)]
    /\ scan' = [scan EXCEPT !.at = @ + 1]

-----------------------------------------------------------------------------

Other == /\ AtDecl("other")
         /\ Finish(Top)
         /\ UNCHANGED <<texts, modules, phase>>

(* A name in an expression that no local has (id).  Where a module of that *)
(* very name exported something, index 1 of a class table that nobody      *)
(* wrote is used (compiler.c:1622, 1766).                                  *)
Resolved(c, k) == IF k \in c.names THEN "own"
                  ELSE IF k \in DOMAIN modules THEN "stray" ELSE "global"

Use == /\ AtDecl("use")
       /\ LET r == Resolved(Top, Decl.name) IN
          /\ Finish([Top EXCEPT !.refs =
                        @ \cup {[at |-> Top.cur, to |-> r]}])
          /\ IF r = "stray" THEN phase' \in {"compile", "dead"}
             ELSE UNCHANGED phase
       /\ UNCHANGED <<texts, modules>>

(* A function or a class; a second one of that name ends the process.      *)
Declare == /\ AtDecl("declare")
           /\ IF Decl.name \in Top.names
              THEN phase' = "exited" /\ UNCHANGED <<work, scan>>
              ELSE /\ Finish([Top EXCEPT !.names = @ \cup {Decl.name}])
                   /\ UNCHANGED phase
           /\ UNCHANGED <<texts, modules>>

(* The first name is entered under the file's own, for each of the names   *)
(* listed; what stands behind the first comma is left to the next          *)
(* declaration.  Without a current_file, as in the REPL, its length is     *)
(* asked of NULL.                                                          *)
Exported(c, k) == IF k \in c.names THEN {FileName[c.file]} ELSE {}

Export == /\ AtDecl("export")
          /\ Top.cwd
          /\ Finish(Top)
          /\ modules' = [n \in DOMAIN modules \cup Exported(Top, Decl.name) |->
                            IF n \in Exported(Top, Decl.name)
                            THEN Decl.name ELSE modules[n]]
          /\ UNCHANGED <<texts, phase>>

(* An import within a function is an error, and nothing is loaded.         *)
Inner == /\ AtDecl("inner")
         /\ Finish(Top)
         /\ UNCHANGED <<texts, modules, phase>>

(* yk_load_module looks for the module under its real path.                *)
Known(f) == f \in DOMAIN modules

(* The import ends without another compilation: there is no such file      *)
(* (2 and 3), or it is known (0).                                          *)
ImportNothing == /\ AtDecl("import")
                 /\ Top.cwd
                 /\ Decl.from \in Absent \/ Known(Decl.from)
                 /\ Finish(Top)
                 /\ UNCHANGED <<texts, modules, phase>>

(* The scanner is saved, behind the semicolon, with the first token of the *)
(* next declaration read (compiler.c:134-140), and the file is compiled.   *)
Import == /\ AtDecl("import")
          /\ Top.cwd
          /\ Decl.from \in Files /\ ~Known(Decl.from)
          /\ IF Last = DEPTH
             THEN phase' = "dead" /\ UNCHANGED <<work, scan>>
             ELSE /\ work' = Append(work, Compilation(Decl.from, FALSE))
                  /\ scan' = Start(Decl.from)
                  /\ UNCHANGED phase
          /\ UNCHANGED <<texts, modules>>

(* In the REPL the directory and the name are NULL (compiler.c:1953).      *)
NoPath == /\ AtDecl("import") \/ AtDecl("export")
          /\ ~Top.cwd
          /\ phase' = "dead"
          /\ UNCHANGED <<texts, work, scan, modules>>

(* The scanner is in another file: one token of the declaration is there,  *)
(* the next is that file's end.                                            *)
Truncated == /\ phase = "compile"
             /\ Top.cur <= Len(Decls(Top.file)) /\ ~InStep(Top)
             /\ work' = [work EXCEPT ![Last] =
                            [@ EXCEPT !.cur = Len(Decls(Top.file)) + 1,
                                      !.flag = FALSE]]
             /\ UNCHANGED <<texts, scan, modules, phase>>

(* Faulty: one declaration beyond the last.                                *)
AtEndLate == phase = "compile" /\ Top.cur > Len(Decls(Top.file)) + 1

AtEnd == phase = "compile" /\ Top.cur > Len(Decls(Top.file))

(* Faulty: the scanner as it was before the import was read.               *)
RestoredEarly(c) == [file |-> c.file, at |-> c.cur - 1]

(* Faulty: it is left in the imported file.                                *)
RestoredNot(c) == scan

(* The importing compilation behind its import; the scanner is put back if *)
(* the file was compiled (return code 0), else (1) not.                    *)
Restored(c) == [file |-> c.file, at |-> c.cur]

Resume == /\ AtEnd /\ Last > 1
          /\ LET c == Passed(work[Last - 1]) IN
             /\ work' = [SubSeq(work, 1, Last - 1) EXCEPT ![Last - 1] = c]
             /\ scan' = IF Top.flag THEN scan ELSE Restored(c)
          /\ UNCHANGED <<texts, modules, phase>>

Done == /\ AtEnd /\ Last = 1
        /\ phase' = IF Top.flag THEN "refused" ELSE "compiled"
        /\ UNCHANGED <<texts, work, scan, modules>>

-----------------------------------------------------------------------------

Init == /\ texts \in Texts
        /\ \E f \in Mains, repl \in BOOLEAN :
              /\ work = <<Compilation(f, repl)>>
              /\ scan = Start(f)
        /\ modules = [n \in {} |-> "none"]
        /\ phase = "compile"

Next == \/ Other \/ Use \/ Declare \/ Export \/ Inner
        \/ ImportNothing \/ Import \/ NoPath \/ Truncated
        \/ Resume \/ Done

Spec == Init /\ [][Next]_vars

(* The compiler waits for nothing.                                         *)
FairSpec == Spec /\ WF_vars(Next)

-----------------------------------------------------------------------------
(* Properties *)

Taken == {"own", "stray", "global"}
Compilations ==
    [file : Files, cwd : BOOLEAN, cur : Nat \ {0}, flag : BOOLEAN,
     names : SUBSET Ids, done : SUBSET Nat,
     refs : SUBSET [at : Nat, to : Taken]]

(* Types: what is in machine.modules is keyed by names of files.           *)
TypeOK ==
    /\ work \in Seq(Compilations) /\ Len(work) \in 1 .. DEPTH
    /\ scan \in [file : Files, at : Nat]
    /\ DOMAIN modules \subseteq {FileName[f] : f \in Files}
    /\ \A n \in DOMAIN modules : modules[n] \in Ids
    /\ phase \in {"compile", "compiled", "refused", "exited", "dead"}

(* Before declaration d of f a text is imported in which nothing is a      *)
(* token: the only kind that compile_path refuses.                         *)
RefusedBefore(f, d) ==
    \E e \in 1 .. d - 1 :
        /\ Decls(f)[e].kind = "import" /\ Decls(f)[e].from \in Files
        /\ texts[Decls(f)[e].from].bad
        /\ Decls(Decls(f)[e].from) = <<>>

(* A file that imports others is compiled to its end all the same: where   *)
(* a declaration of it was passed over, an import before it had led to a   *)
(* text that is refused (after which the scanner is not put back).         *)
LostBehindRefused ==
    \A i \in 1 .. Last : \A d \in 1 .. work[i].cur - 1 :
        d \in work[i].done \/ RefusedBefore(work[i].file, d)

(* The one scanner belongs to the compilation that runs, through whatever  *)
(* nesting of imports: it stands at the declaration the parser is at,      *)
(* unless one of the files imported there is refused.                      *)
ScannerFollows ==
    phase = "compile" /\ Top.cur <= Len(Decls(Top.file)) =>
        InStep(Top) \/ RefusedBefore(Top.file, Top.cur)

(* Declaration d of f declares the name that declaration u uses.           *)
Declares(f, d, u) == /\ Decls(f)[d].kind = "declare"
                     /\ Decls(f)[d].name = Decls(f)[u].name

(* Whatever a file imports and whoever imports it, a name is its own only  *)
(* if it declared it before (SPEC.md:108).                                 *)
NamesPrivate ==
    \A i \in 1 .. Last : LET c == work[i] IN
        \A r \in c.refs :
            r.to = "own" <=>
                \E d \in c.done : d < r.at /\ Declares(c.file, d, r.at)

(* f declares the name and exports it behind that.                         *)
Exposes(f, k) ==
    \E d, e \in 1 .. Len(Decls(f)) :
        /\ d < e /\ Decls(f)[d] = [kind |-> "declare", name |-> k]
        /\ Decls(f)[e] = [kind |-> "export", name |-> k]


(* No cycle of imports.                                                    *)
Imports(f, g) == \E d \in 1 .. Len(Decls(f)) :
                    Decls(f)[d].kind = "import" /\ Decls(f)[d].from = g

Acyclic == \E rank \in [Files -> 1 .. Cardinality(Files)] :
              \A f, g \in Files : Imports(f, g) => rank[g] < rank[f]

(* Files that do not import one another in a circle are compiled in the    *)
(* end, though a module is compiled again by every import.                 *)
Ends == Acyclic ~> phase # "compile"
=============================================================================
