------------------------------ MODULE YamlText ------------------------------
(***************************************************************************)
(* How a value stands on its line of config.yaml: yaml.rs write_quoted on  *)
(* the way out, lines(), strip_comment, split_kv and unquote on the way    *)
(* back.  A text is a sequence of characters, one of each kind the code    *)
(* tells apart; "x" stands for all others.                                 *)
(***************************************************************************)
EXTENDS Integers, SequencesExt

CONSTANT MaxText   \* bound on the length of a text

ASSUME TextAssumption == MaxText \in Nat

VARIABLE text      \* what someone has typed in a field

Char == {"x", "space", "hash", "quote", "backslash", "break"}

Untyped == text = <<>>
Type(c) == Len(text) < MaxText /\ text' = Append(text, c)
Clear == ~Untyped /\ text' = <<>>

Typing == Untyped /\ [][Clear \/ \E c \in Char : Type(c)]_text

(* write_quoted.                                                           *)
Escaped(c) == IF c \in {"quote", "backslash"} THEN <<"backslash", c>> ELSE <<c>>
WriteQuoted(value) ==
    <<"quote">> \o FlattenSeq([i \in DOMAIN value |-> Escaped(value[i])]) \o <<"quote">>

(* lines(): the value ends at the first line break.                        *)
FirstLine(value) == SelectInSeq(value, LAMBDA c : c = "break")
OnItsLine(value) == IF FirstLine(value) = 0 THEN value ELSE SubSeq(value, 1, FirstLine(value) - 1)

StripCommentUnescaped(line) ==  \* mutant: an escaped quote closes the text
    LET step(s, c) ==
            CASE s.cut -> s
              [] ~s.cut /\ c = "hash" /\ ~s.in_quotes -> [s EXCEPT !.cut = TRUE]
              [] OTHER -> [s EXCEPT !.kept = Append(@, c),
                                    !.in_quotes = IF c = "quote" THEN ~@ ELSE @]
    IN FoldLeft(step, [kept |-> <<>>, in_quotes |-> FALSE, cut |-> FALSE], line).kept

(* strip_comment.                                                          *)
StripComment(line) ==
    LET step(s, c) ==
            CASE s.cut -> s
              [] ~s.cut /\ ~s.escaped /\ c = "hash" /\ ~s.in_quotes -> [s EXCEPT !.cut = TRUE]
              [] OTHER -> [s EXCEPT
                    !.kept = Append(@, c),
                    !.escaped = ~s.escaped /\ s.in_quotes /\ c = "backslash",
                    !.in_quotes = IF ~s.escaped /\ c = "quote" THEN ~@ ELSE @]
    IN FoldLeft(step, [kept |-> <<>>, in_quotes |-> FALSE, escaped |-> FALSE, cut |-> FALSE], line).kept

(* The trim of split_kv.                                                   *)
Trim(value) ==
    LET ink == {i \in DOMAIN value : value[i] # "space"}
    IN IF ink = {} THEN <<>> ELSE SubSeq(value, Min(ink), Max(ink))

(* unquote: <<text>>, or <<>> for an error.                                *)
Unescape(inner) ==
    LET step(s, c) ==
            IF s.escaped
            THEN [s EXCEPT !.escaped = FALSE, !.out = Append(@, c),
                           !.ok = @ /\ c \in {"quote", "backslash"}]
            ELSE IF c = "backslash" THEN [s EXCEPT !.escaped = TRUE]
            ELSE [s EXCEPT !.out = Append(@, c)]
        end == FoldLeft(step, [out |-> <<>>, escaped |-> FALSE, ok |-> TRUE], inner)
    IN IF end.ok /\ ~end.escaped THEN <<end.out>> ELSE <<>>

Unquote(value) ==
    IF value = <<>> \/ value[1] # "quote" THEN <<value>>
    ELSE IF Len(value) < 2 \/ value[Len(value)] # "quote" THEN <<>>
    ELSE Unescape(SubSeq(value, 2, Len(value) - 1))

ReadValue(value) == Unquote(Trim(StripComment(OnItsLine(value))))

(* A quoted text is read back as it was, comment signs, quotes and         *)
(* backslashes included, unless it has a line break: then its line is an   *)
(* error and never some other text (yaml.rs unquote).                      *)
QuotedComesBack ==
    ReadValue(WriteQuoted(text)) =
        IF \E i \in DOMAIN text : text[i] = "break" THEN <<>> ELSE <<text>>
=============================================================================
