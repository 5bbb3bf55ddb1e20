------------------------------ MODULE MCValues ------------------------------
(* Small inputs for Values: both sides of every boundary of a range. *)
EXTENDS Values, FiniteSets
LOCAL INSTANCE SequencesExt

MCIPv4Inputs ==
    {<<a, b, c, d>> : a \in {0, 1, 9, 10, 11, 99, 100, 101, 126, 127, 128, 168, 169, 170, 171, 172,
                             173, 191, 192, 193, 197, 198, 199, 202, 203, 204, 223, 224, 225, 232,
                             233, 234, 238, 239, 240, 255},
                      b \in {0, 1, 15, 16, 17, 18, 19, 20, 31, 32, 51, 63, 64, 88, 127, 128, 168,
                             191, 192, 195, 196, 252, 253, 254, 255},
                      c \in {0, 1, 2, 99, 100, 113},
                      d \in {0, 1}}

MCIPv6Inputs ==
    {<<a, b, c, d, e, f>> \o gh :
        a \in {0, 1, 100, 256, 257, 8192, 8193, 8194, 8195, 64511, 64512, 65023, 65024, 65151, 65152,
               65153, 65215, 65216, 65279, 65280, 65282, 65295, 65310, 65333, 65416, 65535},
        b \in {0, 31, 32, 47, 48, 3511, 3512, 65435},
        c \in {0, 1, 256}, d \in {0, 1}, e \in {0, 65535}, f \in {0, 65535},
        gh \in {<<0, 0>>, <<0, 1>>, <<1, 0>>}}

MCTextInputs == [1..8 -> {0, 10}]

MCHosts == {Malformed} \union [words : {<<65152, 0, 0, 0, 0, 0, 0, 1>>}, canonical : BOOLEAN]
MCScopeTexts == {NoText, Name("a"), Name("b"), Name("c")} \union {Digits(n) : n \in 0..40}
MCKernelTables ==
    {<<>>, <<Name("a")>>, <<Name("a"), Name("b"), Name("c")>>, [i \in {3, 7} |-> IF i = 3 THEN Name("b") ELSE Name("c")],
     <<Digits(2), Name("a")>>}

\* Texts of n octets one of which is written in some other way.
Octets(n, at, odd) ==
    FoldLeft(LAMBDA text, i : text \o (IF i = 1 THEN << >> ELSE <<IF i % 2 = 0 THEN 16 ELSE 17>>)
                                  \o (IF i = at THEN odd ELSE <<i, 15 - i>>),
             << >>, [i \in 1..n |-> i])

MCMacTexts ==
    {Octets(n, at, odd) : n \in 5..9, at \in 0..9,
                          odd \in {<<0, 0>>, <<15, 15>>, << >>, <<1>>, <<1, 2, 3>>, <<1, 18>>, <<18, 1>>}}
    \union {<< >>, <<1>>}

MCMacData == {[i \in 1..n |-> (i * x) % 256] : n \in 0..9, x \in {0, 1, 17, 255}}

MCFlagWords == SUBSET {0, 1, 3, 5, 12, 18}
MCFlagConstants == {[IsUp |-> {0}, IsLoopback |-> {3}],
                    [IsUp |-> {0}, IsLoopback |-> {3}, Smart |-> {5, 12}]}

Os(texts, arch, release, system, processor, kind) ==
    [os |-> texts, arch |-> arch, release |-> release,
     is |-> [system |-> system, processor |-> processor, kind |-> kind]]

MCPlatforms ==
    {Os({"mac"}, {"x86_64", "x86"}, << >>, "macos", "x64", "dylib"),
     Os({"darwin", "win"}, {"arch64"}, << >>, "macos", "arm", "dylib"),
     Os({"win"}, {"amd64"}, << >>, "windows", "x64", "dll"),
     Os({"win"}, {"x86"}, << >>, "windows", "ia32", "dll"),
     Os({"linux"}, {"amd64"}, <<"other", "ubuntu", "debian">>, "linux-deb", "x64", "so"),
     Os({"linux"}, {"arch64"}, <<"rhel", "other">>, "linux-el", "arm", "so"),
     Os({"bsd"}, {"amd64"}, <<"bsd">>, "bsd", "x64", "so"),
     Os({"linux"}, {"amd64"}, << >>, "", "", "so"),
     Os({}, {"amd64"}, << >>, "", "", ""),
     Os({"linux"}, {}, <<"debian">>, "", "", "so")}

LibraryNames ==
    {<<s, p, k>> : s \in {"macos", "windows", "linux-deb"}, p \in {"", "x64"}, k \in {"dylib", "so"}}
    \union {<<"", "", k>> : k \in {"dylib", "so", "dll"}}
Files == {names \in SUBSET LibraryNames : Cardinality(names) <= 2}

MCInstallations ==
    {[jar |-> jar, resources |-> r, path |-> << >>] : jar \in BOOLEAN, r \in Files}
    \union {[jar |-> FALSE, resources |-> {}, path |-> <<{n}, {m}>>] : n, m \in LibraryNames}

MCAddressLists == {<<[i \in 1..m |-> <<4, i>>], [i \in 1..n |-> <<6, i>>]>> : m, n \in 0..3}
=============================================================================
