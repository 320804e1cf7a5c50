--------------------------- MODULE MCTextExchange ---------------------------
EXTENDS TextExchangeProperties

MCCharacter == {Quote, Escape, Comma, Space, LeftBrace, RightBrace, LeftParenthesis,
                RightParenthesis, EqualSign, Arrow, "NULL", "a", "b", "P",
                "cmd_queue", "INSERT", "UPDATE", "DELETE"}

(* Each kind of character that a format treats in its own way, and "a". *)
Chars == {"a", Comma, Quote, Escape, RightBrace, RightParenthesis, Space}
Words == BoundedSeq(Chars, 2) \cup {NullWord}
ShortWords == BoundedSeq({"a", Comma, Quote, Escape}, 1)
LongWords == BoundedSeq({"a", Quote, Escape}, 4)
Names == {<<"a">>, <<"b">>, <<"P">>, <<Comma>>, <<Quote, "a">>}

MCArgvs == {<<a, b>> : a, b \in Words} \cup {<<a>> : a \in LongWords \cup {Null}}
             \cup {<<a, b, c>> : a, b, c \in ShortWords}
MCEnvs == {<<>>} \cup UNION {[{k} -> Words \cup LongWords \cup {Null}] : k \in Names}
            \cup [{<<"a">>, <<"b">>} -> ShortWords \cup {Null, NullWord, <<"a", Quote>>}]
MCCmdIds == {<<id, subid>> : id \in Words, subid \in Words \cup {Null}}
MCClasses == {<<"a">>, <<"b">>, <<Quote, "a", Quote>>, <<Quote, "a", Comma, Quote>>,
              <<"b", Quote, "a", Escape, Escape, Quote>>}
MCErrors == {<<a, b>> : a, b \in Words \cup {Null}} \cup {<<a, b, c>> : a, b, c \in ShortWords \cup {Null}}
Entries == {k \o <<EqualSign>> \o v : k \in {<<"a">>, <<"b">>, <<Quote>>, <<Escape, "a">>},
                                v \in ShortWords \cup {<<EqualSign>>, <<"a", EqualSign>>, <<Escape, Quote>>, NullWord}}
MCEnvirons == {<<>>} \cup {<<e>> : e \in Entries} \cup {<<d, e>> : d, e \in Entries}
MCClassLists == {<<>>} \cup {<<a>> : a \in LongWords} \cup {<<a, b>> : a, b \in Words}
MCOwnClass == <<"a">>
MCPath == [name |-> <<"P">>, value |-> <<"a", "a">>]
=============================================================================
