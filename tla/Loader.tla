------------------------------- MODULE Loader -------------------------------
(***************************************************************************)
(* Which file Loader.java loads the native library from.  What the system  *)
(* says of itself is the set of the texts that matter and that its name    *)
(* contains; a file's name is the system, the processor and the kind of    *)
(* library that it is for, "" where it does not say.                       *)
(***************************************************************************)
EXTENDS Naturals, SequencesExt

Architecture(arch) ==
    IF "arch64" \in arch THEN "arm"
    ELSE IF arch \intersect {"amd64", "x86_64", "ia64"} # {} THEN "x64"
    ELSE IF arch \intersect {"x86", "ia32"} # {} THEN "ia32" ELSE ""

\* The last line of /etc/os-release that says something counts.
UnixVariant(release) ==
    LET says == [bsd |-> "bsd", debian |-> "linux-deb", ubuntu |-> "linux-deb",
                 fedora |-> "linux-el", rhel |-> "linux-el"]
        telling == SelectSeq(release, LAMBDA line : line \in DOMAIN says)
    IN IF telling = << >> THEN "" ELSE says[Last(telling)]

Mac     == {"mac", "darwin"}
Windows == {"win"}
Unix    == {"linux", "posix", "bsd"}

\* A fault in Platform: Windows is looked for first.
PlatformWindowsFirst(p) ==
    IF p.os \intersect Windows # {} THEN <<"windows", "dll">>
    ELSE IF p.os \intersect Mac # {} THEN <<"macos", "dylib">>
    ELSE IF p.os \intersect Unix # {} THEN <<UnixVariant(p.release), "so">>
    ELSE <<"", "">>

\* Its name, "" if it is not known, and what its libraries are called.
Platform(p) ==
    IF p.os \intersect Mac # {} THEN <<"macos", "dylib">>
    ELSE IF p.os \intersect Windows # {} THEN <<"windows", "dll">>
    ELSE IF p.os \intersect Unix # {} THEN <<UnixVariant(p.release), "so">>
    ELSE <<"", "">>

KnownPlatform(p) == Architecture(p.arch) # "" /\ Platform(p)[1] # ""

\* The names to look for: in full, without the architecture, and without both.
Options(p) ==
    LET known == Platform(p)
        extension == known[2]
    IN IF KnownPlatform(p)
       THEN <<<<known[1], Architecture(p.arch), extension>>, <<known[1], "", extension>>,
              <<"", "", extension>>>>
       ELSE <<<<"", "", "so">>, <<"", "", "dylib">>, <<"", "", "dll">>>>

NoName == <<"", "", "">>
NoFile == [where |-> "nowhere", name |-> NoName]

\* The first of the options that is among some names.
FirstIn(options, names) ==
    LET there == {k \in DOMAIN options : options[k] \in names}
    IN IF there = {} THEN NoName ELSE options[Min(there)]

\* The directories in turn, and in each the options.
FileOnPath(options, directories) ==
    LET there == {d \in DOMAIN directories : FirstIn(options, directories[d]) # NoName}
    IN IF there = {} THEN NoFile
       ELSE [where |-> "path", name |-> FirstIn(options, directories[Min(there)])]

\* What loadLibrary() may find: a resource, which must be copied to a file if it
\* is inside a JAR, or else a file in java.library.path.
Found(p, installed) ==
    LET resource == FirstIn(Options(p), installed.resources)
    IN IF resource = NoName THEN {FileOnPath(Options(p), installed.path)}
       ELSE {[where |-> "resource", name |-> resource]}
            \union (IF installed.jar THEN {NoFile} ELSE {})
=============================================================================
