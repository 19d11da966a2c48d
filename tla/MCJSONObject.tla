----------------------------- MODULE MCJSONObject ----------------------------
(* Configurations in small, laid out and damaged in every single way.       *)
EXTENDS JSONObject

Str(s) == <<"quote">> \o s \o <<"quote">>
Pair(key, value) == <<key, value>>
A == <<"a">>
B == <<"b">>
Sign == <<"quote", "#">>  \* a key that has to be escaped

Simple == {<<"1", "0">>, <<"0">>, <<"true">>,
           Str(<<"a", "}", "backslash", "quote">>), Str(<<"backslash", "#", "a">>),
           Str(<<"backslash", "n">>), Str(<<"backslash", "backslash">>), <<"[", "]">>, <<"{", "}">>}
Deep ==
    {ObjectToString(DataOf(<<Pair(B, <<"1">>)>>), <<B>>),
     ObjectToString(DataOf(<<Pair(B, <<"{", "}">>)>>), <<B>>),
     ObjectToString(DataOf(<<Pair(B, Str(<<"backslash", "n", "backslash", "backslash">>))>>), <<B>>),
     ArrayToString(<<<<"1">>, Str(A)>>), ArrayToString(<<<<"[", "]">>, <<"{", "}">>>>)}

\* Each document is the sequence of its pairs.
Documents ==
    {<<>>, <<Pair(Sign, <<"1">>)>>} \cup {<<Pair(A, v)>> : v \in Simple \cup Deep}
    \cup {<<Pair(A, v), Pair(k, w)>> : k \in {A, B}, v \in Deep, w \in {<<"0">>, Str(A)}}

Render(d) ==
    <<"{">> \o CommaList([i \in 1..Len(d) |-> StringToJSONRaw(d[i][1]) \o <<":">> \o d[i][2]]) \o <<"}">>

Rendered == {Render(d) : d \in Documents}

Pieces == {<<" ">>, <<"#", "quote", "newline">>, <<"#", "{">>, <<"quote">>,
           <<"backslash">>, <<"{">>, <<"}">>, <<"1">>, <<",">>}

Insert(t, i, piece) == SubSeq(t, 1, i) \o piece \o SubSeq(t, i + 1, Len(t))

MCTexts ==
    Rendered
    \cup UNION {{Insert(t, i, piece) : i \in 0..Len(t), piece \in Pieces} : t \in Rendered}
    \cup UNION {{SubSeq(t, 1, i) : i \in 0..Len(t)} : t \in Rendered}
    \cup UNION {{RemoveAt(t, i) : i \in 1..Len(t)} : t \in Rendered}

MCLetters == {"a", "b", "c"}
MCKeys == {A, B}
MCValues == {<<"1">>, <<"0">>}
MCOther == <<Pair(B, <<"2">>), Pair(<<"c">>, <<"2">>)>>

\* Every document is read, whatever blanks and comments stand between its
\* characters, to its pairs in their order, the first of those of one key.
ReadsDocuments ==
    phase \in {"parsed", "failed"} /\ NoBlankEscaped(text) =>
        \A d \in Documents : Uncommented(text) = Render(d) =>
            phase = "parsed" /\ order = OrderOf(d) /\ data = DataOf(d)

\* A document that is read before all of it is written never yields an object,
\* unless nothing of it is there: LoadConfig_ keeps the old configuration.
TornReadFails ==
    phase = "parsed" /\ Uncommented(text) # <<>> =>
        \A d \in Documents : ~IsStrictPrefix(Uncommented(text), Render(d))
==============================================================================
