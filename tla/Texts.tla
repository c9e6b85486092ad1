-------------------------------- MODULE Texts --------------------------------
(***************************************************************************)
(* Texts users write: values of annotations and environment variables.     *)
(* How the Go library reads a number, a switch or a duration is a table;   *)
(* "" is an empty or missing text.  A comma-separated text is the sequence *)
(* of its pieces, trimmed, where "" is a blank piece; <<>> is an empty or  *)
(* missing one.                                                            *)
(***************************************************************************)
EXTENDS Lists

CONSTANTS
    IntOf,      \* IntOf[t]: what strconv.ParseInt makes of t, where it can
    BoolOf,     \* BoolOf[t]: the same of strconv.ParseBool
    DurationOf, \* DurationOf[t]: the same of time.ParseDuration, in seconds
    Lower,      \* Lower[t]: t in lower case
    Rooted,     \* texts that start with "/"
    Compiles,   \* texts that are regular expressions
    Invalid     \* an error

OrDefault(t, default) == IF t = "" THEN default ELSE t

(* Bug to plant: blank pieces stay.                                        *)
CommaListBlank(pieces) == pieces

CommaList(pieces) == Sublist(pieces, {i \in DOMAIN pieces : pieces[i] # ""})
=============================================================================
