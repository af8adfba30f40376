--------------------------- MODULE MCSubprocessHost ---------------------------
(* An event plugin and the admin plugin, each in a host of its own.  Beside  *)
(* the plain definition, which is run with faults, the event plugin has      *)
(* every schema of one property on the first to the fourth level with every  *)
(* config that goes as far, and some manifests that no runtime can serve.    *)
EXTENDS SubprocessHost, TLC

CONSTANTS echo, admin, primary, adminHost, c1, c2

MCRoute == (echo :> primary) @@ (admin :> adminHost)

Range(comparator, version) == [comparator |-> comparator, version |-> version]
Manifest(schemas) ==
    [mode |-> ModeSubprocess, apiVersion |-> SupportedAPI, entry |-> {"module"},
     publish |-> {<<Range(">=", <<0, 1, 0>>), Range("<", <<1, 0, 0>>)>>}, schema |-> schemas]

MCPlain == [manifest |-> Manifest({}), config |-> <<>>]

\* One property <<"a">>, <<"a", "b">>, ... and the objects above it.
Chain == <<"a", "b", "c", "d">>
Prefix(n) == SubSeq(Chain, 1, n)
Prefixes(m, n) == {Prefix(i) : i \in m .. n}

Values == {Text(1), Text(3), Halves(1), Halves(2), Object}
Leaves ==
    {Leaf("string", {}, <<>>), Leaf("string", {}, <<{Text(1), Text(2)}>>),
     Leaf("string", {Text(1)}, <<{Text(1), Text(2)}>>), Leaf("integer", {}, <<>>),
     Leaf("integer", {Halves(2)}, <<>>), Leaf("integer", {Halves(2)}, <<{Halves(4)}>>),
     Leaf("integer", {Text(1)}, <<>>), Leaf(Untyped, {}, <<>>), Leaf("string", {}, <<{}>>),
     Leaf("object", {}, <<{Text(1)}>>)}

\* required[i]: whether the property on level i is.
Schema(n, leaf, required) ==
    [p \in Prefixes(0, n) |->
        IF Len(p) = n THEN leaf
        ELSE Node(IF required[Len(p) + 1] THEN {Chain[Len(p) + 1]} ELSE {})]
Schemas(n) == {Schema(n, leaf, required) : leaf \in Leaves, required \in [1 .. n -> BOOLEAN]}

\* The property on level k is given, as the objects above it are.
Config(k, value) == [p \in Prefixes(1, k) |-> IF Len(p) = k THEN value ELSE Object]
Configs(n) ==
    {Config(k, value) : k \in 0 .. n - 1, value \in {Text(1), Object}}
    \cup {Config(n, value) : value \in Values}

Configured ==
    UNION {[manifest : {Manifest({schema}) : schema \in Schemas(n)}, config : Configs(n)] :
               n \in 1 .. 4}

Unserved ==
    {[MCPlain EXCEPT !.manifest.mode = "inproc"],
     [MCPlain EXCEPT !.manifest.apiVersion = "v1"],
     [MCPlain EXCEPT !.manifest.publish = {<<Range(">", <<0, 1, 0>>)>>}],
     [MCPlain EXCEPT !.manifest.publish = {<<Range("<", <<0, 0, 9>>)>>}],
     [MCPlain EXCEPT !.manifest.schema = {[p \in {<<>>} |-> Leaf("string", {}, <<>>)]}],
     [MCPlain EXCEPT !.manifest.schema = {[p \in {<<>>} |-> Node({"a"})]}]}

MCDefinitions ==
    {(echo :> d) @@ (admin :> MCPlain) : d \in {MCPlain} \cup Unserved \cup Configured}
===============================================================================
