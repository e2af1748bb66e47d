----------------------------- MODULE Instrumenter -----------------------------
(***************************************************************************)
(* sfveritas-instrument (cmd/sfveritas-instrument/main.go), the -toolexec  *)
(* wrapper around the compiler.  For each package that go build compiles   *)
(* it decides whether to touch it, rewrites the files it can, and hands    *)
(* the compiler the rewritten ones in their place.                         *)
(*                                                                         *)
(* An import path is what shouldSkipPackage finds out about it; a function *)
(* is the traits that decide what is put into it and whether that compiles.*)
(***************************************************************************)
EXTENDS Naturals, FiniteSets

CONSTANTS
    Packages,   \* what is compiled: records [path, resolves, files]
    Shape,      \* of every function: [name, statements, context, results]
    Envs        \* the environments: [include, gomod]

Funcs == DOMAIN Shape

\* "main" is what the compiler is told for package main, "stdlike" has a prefix
\* of the standard library's, "module" lies in the main module, "golang.org" is
\* a dependency that the fallback knows.
Paths == {"none", "sdk", "main", "stdlike", "module", "dependency", "golang.org"}

\* A file imports sfveritas or not, under its name, another name, or for its
\* side effects only; it can be "cgo".
Files == [imports : {"no", "plain", "renamed", "blank"}, cgo : BOOLEAN,
          funcs : SUBSET Funcs]

ASSUME ShapeAssumption ==
    \A f \in Funcs : Shape[f] \in
        [name : {"init", "_", "other"}, statements : Nat,
         context : {"none", "named", "unnamed", "blank", "foreign"},
         results : {"none", "unnamed", "named", "blank"}]
ASSUME PackagesAssumption ==
    \A p \in Packages : p \in [path : Paths, resolves : BOOLEAN, files : SUBSET Files]
ASSUME EnvsAssumption == Envs \subseteq [include : SUBSET Paths, gomod : BOOLEAN]

VARIABLES
    env,            \* SF_INSTRUMENT_INCLUDE_PREFIX and GOMOD
    compiled,       \* the packages the compiler was run on
    rejected,       \* those it could not compile
    rewritten       \* the files that were rewritten

build == <<env, compiled, rejected, rewritten>>

BuildInit ==
    /\ env \in Envs
    /\ compiled = {}
    /\ rejected = {}
    /\ rewritten = {}

-----------------------------------------------------------------------------
\* What is rewritten.

\* The paths that are never instrumented come first, then the prefix, if there
\* is one, then the main module, if it is known.
ShouldSkipPackage(path) ==
    \/ path \in {"none", "sdk", "main", "stdlike"}
    \/ env.include # {} /\ path \notin env.include
    \/ env.include = {} /\ env.gomod /\ path # "module"
    \/ env.include = {} /\ ~env.gomod /\ path = "golang.org"

Instrumentable(f) == Shape[f].name = "other" /\ Shape[f].statements > 1

\* The files of p the wrapper tries to rewrite.
Candidates(p) ==
    IF ShouldSkipPackage(p.path) \/ ~p.resolves THEN {}
    ELSE {file \in p.files : ~file.cgo /\ \E f \in file.funcs : Instrumentable(f)}

\* The functions that have a span put into them.
Instrumented == {f \in Funcs : Instrumentable(f) /\ \E file \in rewritten : f \in file.funcs}

-----------------------------------------------------------------------------
\* What is put in.

\* findContextParam: the name of the first parameter whose type reads
\* context.Context or Context, whatever type that is.
ContextParam(f) == Shape[f].context \in {"named", "blank", "foreign"}

\* With such a parameter the span is started from it and put back into it; then
\* it must be a variable, and a context.Context. Otherwise StartSpanNoCtx is
\* called, and nothing can be wrong.
StartCompiles(f) == ContextParam(f) => Shape[f].context = "named"

\* The results have names afterwards, and each is read, one called _ too.
EndCompiles(f) == Shape[f].results # "blank"

\* hasImport asks for the path only: the name sfveritas may be bound to nothing.
\* (A name sfveritas of the package's own, which would be found in its place, is
\* not considered: such a build fails in more cases than this says.)
NameIsBound(file) == file.imports \in {"no", "plain"}

StillCompiles(file) ==
    /\ NameIsBound(file)
    /\ \A f \in file.funcs : Instrumentable(f) => StartCompiles(f) /\ EndCompiles(f)

-----------------------------------------------------------------------------

\* The wrapper is run in place of the compiler. A file that cannot be parsed,
\* printed or written is left as it is and the others are still rewritten; when
\* the work directory cannot be made that is all of them.
CompilePackage(p, files) ==
    /\ p \notin compiled
    /\ files \subseteq Candidates(p)
    /\ compiled' = compiled \cup {p}
    /\ rewritten' = rewritten \cup files
    /\ rejected' = IF \A file \in files : StillCompiles(file) THEN rejected
                   ELSE rejected \cup {p}
    /\ UNCHANGED env

Build == \E p \in Packages : \E files \in SUBSET Candidates(p) : CompilePackage(p, files)

\* A package is rejected although the compiler takes it as it was. The program
\* is there when every package was compiled and none was.
Built == compiled = Packages /\ rejected = {}

=============================================================================
