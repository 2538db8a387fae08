------------------------------- MODULE Loader -------------------------------
(***************************************************************************)
(* How the packages of a program are found, loaded and checked: Load and   *)
(* LoadPackage (loader/loader.go) and checkPackages (typechecker).  Load   *)
(* calls itself for every file of a package it has just read; its          *)
(* activations are the frames below and share the map visited.             *)
(*                                                                         *)
(* Of a source file its imports are kept: the leading ones, those after    *)
(* the first other statement, and whether it derives code that needs       *)
(* imports of its own.                                                     *)
(***************************************************************************)
EXTENDS Integers, Sequences, FiniteSets, SequencesExt

CONSTANTS Package,       \* import names
          DeriveImports, \* what a derived file imports (json, conv)
          Programs       \* the main programs and file trees to load

Nothing == "nothing"

SourceFile == [lead : Seq(Package), late : SUBSET Package, derive : BOOLEAN]

ASSUME LoaderAssumption ==
    /\ Nothing \notin Package
    /\ DeriveImports \in Seq(Package)
    /\ \A p \in Programs : /\ p.main \in Seq(Package)
                           /\ p.files \in [Package -> Seq(SourceFile)]
                           /\ p.broken \subseteq Package

\* ScanDeriveImports, prepended one by one: those that the file does not
\* import itself, the last one first.
Derived(file) ==
    IF file.derive
    THEN Reverse(SelectSeq(DeriveImports, LAMBDA p : p \notin ToSet(file.lead) \cup file.late))
    ELSE <<>>

\* New: leading imports only.
LeadingImports(file) == Derived(file) \o file.lead

\* What a file imports first thing are packages.  It follows from the types
\* above, but SelectSeq is recursive and out of the provers' reach.
ASSUME ImportsAssumption ==
    \A p \in Programs : \A q \in Package : \A n \in DOMAIN p.files[q] :
        LeadingImports(p.files[q][n]) \in Seq(Package)

VARIABLES tree,     \* the program: main, files, broken
          frames,   \* activations of Load, the innermost last
          visited,
          types,    \* keys of moduleTypes
          packages, \* what the outermost Load returned
          registry, \* packages whose exports the checker has
          missing,  \* pairs of a checked package and a package that it
                    \* imports and that was not in the registry
          status    \* "load", "failed", "check" or "done"

vars == <<tree, frames, visited, types, packages, registry, missing, status>>

\* One activation: the imports still to do, the package in hand and the
\* next of its files, the packages collected.
Activation(imports) == [imports |-> imports, pkg |-> Nothing, next |-> 1, out |-> <<>>]

\* ScanImports of the main file and NewFromImports.
Init ==
    /\ tree \in Programs
    /\ frames = <<Activation(tree.main)>>
    /\ visited = {} /\ types = {} /\ packages = <<>>
    /\ registry = {} /\ missing = {}
    /\ status = "load"

Top      == Last(frames)
SetTop(f) == frames' = [frames EXCEPT ![Len(frames)] = f]

\* An import that was seen before, here or in any other activation.
Skip ==
    /\ status = "load" /\ Top.pkg = Nothing /\ Top.imports # <<>>
    /\ Head(Top.imports) \in visited
    /\ SetTop([Top EXCEPT !.imports = Tail(@)])
    /\ UNCHANGED <<tree, visited, types, packages, registry, missing, status>>

\* Mutant: a package counts as visited only when it is complete.
MutLoadPackage ==
    /\ status = "load" /\ Top.pkg = Nothing /\ Top.imports # <<>>
    /\ LET name == Head(Top.imports) IN
        /\ name \notin visited
        /\ Len(frames) <= Cardinality(Package) + 1
        /\ IF name \in tree.broken
           THEN /\ status' = "failed" /\ frames' = <<>>
                /\ UNCHANGED types
           ELSE /\ SetTop([Top EXCEPT !.imports = Tail(@), !.pkg = name, !.next = 1])
                /\ types' = types \cup {name}
                /\ UNCHANGED status
    /\ UNCHANGED <<tree, visited, packages, registry, missing>>

\* Mutant: a package that cannot be loaded is left out.
MutLoadBroken ==
    /\ status = "load" /\ Top.pkg = Nothing /\ Top.imports # <<>>
    /\ LET name == Head(Top.imports) IN
        /\ name \notin visited
        /\ visited' = visited \cup {name}
        /\ SetTop([Top EXCEPT !.imports = Tail(@), !.next = 1,
                              !.pkg = IF name \in tree.broken THEN @ ELSE name])
        /\ types' = types \cup {name}
    /\ UNCHANGED <<tree, packages, registry, missing, status>>

\* A new import: its directory is read and parsed.  A directory that cannot
\* be read, a file with syntax errors, no file or two module names make it
\* broken, and that ends all activations with the error.
LoadPackage ==
    /\ status = "load" /\ Top.pkg = Nothing /\ Top.imports # <<>>
    /\ LET name == Head(Top.imports) IN
        /\ name \notin visited
        /\ visited' = visited \cup {name}
        /\ IF name \in tree.broken
           THEN /\ status' = "failed" /\ frames' = <<>>
                /\ UNCHANGED types
           ELSE /\ SetTop([Top EXCEPT !.imports = Tail(@), !.pkg = name, !.next = 1])
                /\ types' = types \cup {name}
                /\ UNCHANGED status
    /\ UNCHANGED <<tree, packages, registry, missing>>

\* child.Load for the next file of the package in hand.
LoadChild ==
    /\ status = "load" /\ Top.pkg # Nothing
    /\ Top.next <= Len(tree.files[Top.pkg])
    /\ frames' = Append([frames EXCEPT ![Len(frames)].next = @ + 1],
                        Activation(LeadingImports(tree.files[Top.pkg][Top.next])))
    /\ UNCHANGED <<tree, visited, types, packages, registry, missing, status>>

\* Mutant: the package comes before what its files import.
MutReturn ==
    /\ status = "load" /\ Top.pkg = Nothing /\ Top.imports = <<>>
    /\ IF Len(frames) = 1
       THEN /\ packages' = Top.out /\ frames' = <<>> /\ status' = "check"
       ELSE /\ frames' = [Front(frames) EXCEPT ![Len(frames) - 1].out = Top.out \o @]
            /\ UNCHANGED <<packages, status>>
    /\ UNCHANGED <<tree, visited, types, registry, missing>>

\* An activation returns: its packages go to the caller's list.
Return ==
    /\ status = "load" /\ Top.pkg = Nothing /\ Top.imports = <<>>
    /\ IF Len(frames) = 1
       THEN /\ packages' = Top.out /\ frames' = <<>> /\ status' = "check"
       ELSE /\ frames' = [Front(frames) EXCEPT ![Len(frames) - 1].out = @ \o Top.out]
            /\ UNCHANGED <<packages, status>>
    /\ UNCHANGED <<tree, visited, types, registry, missing>>

\* Mutant: only the packages of the last file are kept.
MutFinish ==
    /\ status = "load" /\ Top.pkg # Nothing
    /\ Top.next > Len(tree.files[Top.pkg])
    /\ SetTop([Top EXCEPT !.pkg = Nothing, !.out = <<Top.pkg>>])
    /\ UNCHANGED <<tree, visited, types, packages, registry, missing, status>>

\* All files of the package in hand are done: it goes after their packages.
Finish ==
    /\ status = "load" /\ Top.pkg # Nothing
    /\ Top.next > Len(tree.files[Top.pkg])
    /\ SetTop([Top EXCEPT !.pkg = Nothing, !.out = Append(@, Top.pkg)])
    /\ UNCHANGED <<tree, visited, types, packages, registry, missing, status>>

Imports(p) == UNION {ToSet(LeadingImports(f)) \cup f.late : f \in ToSet(tree.files[p])}

\* checkPackages: each package is checked with the exports of those before
\* it; a name of a package that is not there yet is an error.
CheckPackage ==
    /\ status = "check" /\ Cardinality(registry) < Len(packages)
    /\ LET p == packages[Cardinality(registry) + 1] IN
        /\ missing' = missing \cup ({p} \X (Imports(p) \ registry))
        /\ registry' = registry \cup {p}
    /\ UNCHANGED <<tree, frames, visited, types, packages, status>>

CheckMain ==
    /\ status = "check" /\ Cardinality(registry) = Len(packages)
    /\ status' = "done"
    /\ UNCHANGED <<tree, frames, visited, types, packages, registry, missing>>

Next == Skip \/ LoadPackage \/ LoadChild \/ Return \/ Finish \/ CheckPackage \/ CheckMain

Spec == Init /\ [][Next]_vars /\ WF_vars(Next)

-----------------------------------------------------------------------------
\* Reference: the import graph

\* What p leads to: nothing, when it cannot be loaded.
Leading(p) == IF p \in tree.broken THEN {}
              ELSE UNION {ToSet(LeadingImports(f)) : f \in ToSet(tree.files[p])}

\* The packages that ps lead to: the least set with ps and all that its
\* members lead to.
Closed(S)   == \A p \in S : Leading(p) \subseteq S
Closure(ps) == {q \in Package : \A S \in SUBSET Package : ps \subseteq S /\ Closed(S) => q \in S}

Needed        == Closure(ToSet(tree.main))
LeadsTo(p, q) == q \in Closure(Leading(p))

-----------------------------------------------------------------------------
\* Properties

\* When loading succeeds, every package that the main program needs is in
\* the list, once, whatever the shape of the import graph, and its types are
\* known to the parser.
LoadedExactly ==
    status \in {"check", "done"} =>
        /\ ToSet(packages) = Needed /\ Len(packages) = Cardinality(Needed)
        /\ types = Needed

\* A package is checked after the packages that its files import first
\* thing; only around a cycle of imports one of them must come too late.
DependenciesFirst ==
    \A m \in missing : m[2] \in Leading(m[1]) => LeadsTo(m[2], m[1])

\* Load fails exactly when a package that is needed cannot be loaded.
BrokenReported ==
    /\ status = "failed" => Needed \cap tree.broken # {}
    /\ status \in {"check", "done"} => Needed \cap tree.broken = {}

\* Loading and checking end, also with packages that import each other.
Ends == <>(status \in {"failed", "done"})

=============================================================================
