--------------------------- MODULE MCConfigLoader ---------------------------
(***************************************************************************)
(* Lines for ConfigLoader: maps and values at three indentations, list     *)
(* items, keys that are numbers, a quoted empty value, a value with a      *)
(* colon, values followed by a comment, quoted ones with a HASH, a comment *)
(* on its own and a line that is not YAML.                                 *)
(***************************************************************************)
EXTENDS ConfigLoader, TLC

MCDecimal(n) == ToString(n)

(* A number may be written with leading zeros. *)
MCNumerals == {ToString(n) : n \in 0..MaxLines} \union {"00"}

MCStoi(w) == IF w = "00" THEN 0 ELSE CHOOSE n \in 0..MaxLines : ToString(n) = w

Entry(kind, indent, key, value, quoted, comment) ==
    [kind |-> kind, indent |-> indent, key |-> key, value |-> value,
     quoted |-> quoted, comment |-> comment]

MCEntries ==
    {Entry("map", n, "a", <<>>, FALSE, FALSE) : n \in 0..2}
    \union {Entry("scalar", n, "a", <<"7">>, FALSE, TRUE) : n \in {0, 2}}
    \union {Entry("item", 0, "", <<"x">>, TRUE, FALSE),
            Entry("item", 2, "", <<"x", HASH, "y">>, TRUE, FALSE),
            Entry("scalar", 0, "a", <<HASH, "8">>, TRUE, TRUE),
            Entry("map", 1, "b", <<>>, FALSE, TRUE),
            Entry("item", 1, "", <<"y">>, FALSE, FALSE),
            Entry("scalar", 1, "00", <<"h", COLON, "7">>, FALSE, FALSE),
            Entry("scalar", 1, "0", <<>>, TRUE, FALSE),
            Entry("blank", 0, "", <<>>, FALSE, TRUE),
            Entry("text", 1, "w", <<>>, FALSE, FALSE)}

(* Lines of gateway_config.yaml. *)
GatewayEntries ==
    {Entry("map", 0, k, <<>>, FALSE, FALSE) : k \in {"server", "log"}}
    \union {Entry("scalar", 2, "tcp_port", <<"9000">>, FALSE, FALSE),
            Entry("scalar", 2, "level", <<"debug">>, TRUE, FALSE)}

=============================================================================
