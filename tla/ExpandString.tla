---------------------------- MODULE ExpandString ----------------------------
(***************************************************************************)
(* The expansion of environment variables and config source directives in  *)
(* a string of the configuration (resolveStringValue of                    *)
(* internal/configsource/source.go).  A string is a sequence of characters *)
(* as the scanner tells them apart: the special ones, and "a" for any      *)
(* letter or underscore.  What is looked up is left in the result in       *)
(* brackets: [name] for a variable, <directive> for a config source; every *)
(* source is known and its retrieval succeeds.  Blanks around a directive  *)
(* are left out.                                                           *)
(***************************************************************************)
EXTENDS Naturals, Sequences, SequencesExt

Characters == {"$", "{", "}", ":", "/", "a"}

\* os.Getenv and retrieveConfigSourceData.
Getenv(name) == <<"[">> \o name \o <<"]">>
RetrieveSource(directive) == <<"<">> \o directive \o <<">">>

From(s, i) == SubSeq(s, i, Len(s))

\* The first index from i on with the character, or 0.
Find(s, i, c) ==
    LET at == {j \in i..Len(s) : s[j] = c}
    IN IF at = {} THEN 0 ELSE CHOOSE j \in at : \A k \in at : j <= k

-----------------------------------------------------------------------------
\* What is between brackets, and the characters consumed; s starts with "{".
ScanToClosingBracket(s) ==
    LET c == Find(s, 2, "}")
    IN CASE c = 0 -> [content |-> <<>>, w |-> 1]
         [] c = 2 -> [content |-> <<>>, w |-> 2]
         [] OTHER -> [content |-> SubSeq(s, 2, c - 1), w |-> c]

\* The longest prefix of word characters and one "/"; the "/" is part of the
\* name only before a ":".
GetTokenName(s) ==
    LET word(i) == \A j \in 1..i : s[j] = "a" \/ (s[j] = "/" /\ Find(s, 1, "/") = j)
        stop == CHOOSE i \in 0..Len(s) :
                    word(i) /\ (i = Len(s) \/ ~word(i + 1))
        sep == Find(s, 1, "/")
        named == stop < Len(s) /\ s[stop + 1] = ":"
    IN CASE Len(s) > 0 /\ s[1] = "$" -> [content |-> <<"$">>, w |-> 1]
         [] sep \in 1..stop /\ ~named -> [content |-> SubSeq(s, 1, sep - 1), w |-> sep - 1]
         [] OTHER -> [content |-> SubSeq(s, 1, stop), w |-> stop]

\* Brackets with a ":" hold a directive.
GetBracketedExpandableContent(s) ==
    LET r == ScanToClosingBracket(s)
        d == Find(r.content, 1, ":")
    IN [content |-> r.content, w |-> r.w,
        source |-> IF Len(r.content) > 1 /\ d > 0
                   THEN SubSeq(r.content, 1, d - 1) ELSE <<>>]

\* Without brackets a name before ":" starts a directive to the end.
GetBareExpandableContent(s) ==
    LET r == GetTokenName(s)
    IN IF r.w < Len(s) /\ s[r.w + 1] = ":"
       THEN [content |-> s, w |-> Len(s), source |-> r.content]
       ELSE [content |-> r.content, w |-> r.w, source |-> <<>>]

ExpandableContent(s) ==
    IF s[1] = "{" THEN GetBracketedExpandableContent(s) ELSE GetBareExpandableContent(s)

\* "$$" escapes, except before a directive when the older form is accepted:
\* one without a further "$" in it.
EscapedContent(s, compatible) ==
    LET e == ExpandableContent(Tail(s))
        older == /\ compatible /\ Len(s) > 2
                 /\ e.source # <<>>
                 /\ \/ s[2] = "{"
                    \/ /\ Len(e.content) > Len(e.source) + 1
                       /\ Find(e.content, Len(e.source) + 2, "$") = 0
    IN IF older
       THEN [e EXCEPT !.w = @ + 1]
       ELSE [content |-> <<"$">>, w |-> 1, source |-> <<>>]

\* Mutant: a "$" that escapes is looked up.
ExpandAll(name, w) ==
    CASE name = <<>> /\ w > 0 -> <<>>
      [] name = <<>> -> <<"$">>
      [] OTHER -> Getenv(name)

OsExpandEnv(name, w) ==
    CASE name = <<>> /\ w > 0 -> <<>>
      [] name = <<>> \/ name = <<"$">> -> <<"$">>
      [] OTHER -> Getenv(name)

\* The loop over the string: j is looked at, text from i on is not copied yet.
RECURSIVE ScanString(_, _, _, _, _)
ScanString(s, i, j, buf, compatible) ==
    IF j >= Len(s) THEN buf \o From(s, i)
    ELSE IF s[j] # "$" THEN ScanString(s, i, j + 1, buf, compatible)
    ELSE LET rest == From(s, j + 1)
             e == IF rest[1] = "$" THEN EscapedContent(rest, compatible)
                  ELSE ExpandableContent(rest)
             new == IF e.source = <<>> THEN OsExpandEnv(e.content, e.w)
                    ELSE RetrieveSource(e.content)
         IN ScanString(s, j + e.w + 1, j + e.w + 1,
                       buf \o SubSeq(s, i, j - 1) \o new, compatible)

ResolveStringValue(s, compatible) == ScanString(s, 1, 1, <<>>, compatible)

-----------------------------------------------------------------------------
(* References                                                              *)

Doubled(s) == FlattenSeq([i \in 1..Len(s) |-> IF s[i] = "$" THEN <<"$", "$">> ELSE <<s[i]>>])

WordLength(s) ==
    CHOOSE n \in 0..Len(s) :
        (\A j \in 1..n : s[j] = "a") /\ (n = Len(s) \/ s[n + 1] # "a")

\* What the start of a string becomes, and its length: a character, a "$" that
\* names nothing, brackets that do not close or are empty, or a variable.
OsToken(s) ==
    LET close == Find(s, 3, "}")
        n == WordLength(Tail(s))
    IN CASE s[1] # "$" -> [new |-> <<s[1]>>, w |-> 1]
         [] s[1] = "$" /\ s[2] = "{" /\ close \in {0, 3} ->
               [new |-> <<>>, w |-> IF close = 0 THEN 2 ELSE 3]
         [] s[1] = "$" /\ s[2] = "{" /\ close > 3 ->
               [new |-> Getenv(SubSeq(s, 3, close - 1)), w |-> close]
         [] s[1] = "$" /\ s[2] # "{" /\ n = 0 -> [new |-> <<"$">>, w |-> 1]
         [] OTHER -> [new |-> Getenv(SubSeq(s, 2, n + 1)), w |-> n + 1]

\* Go's os.ExpandEnv, on strings without "$$".
RECURSIVE OsExpand(_)
OsExpand(s) ==
    IF Len(s) < 2 THEN s
    ELSE OsToken(s).new \o OsExpand(From(s, OsToken(s).w + 1))

=============================================================================
