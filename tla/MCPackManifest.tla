--------------------------- MODULE MCPackManifest ---------------------------
(***************************************************************************)
(* Manifests for PackManifest: one or two alerts on the SLO x of the SLI i,*)
(* in every spelling, with rules in either order.                          *)
(***************************************************************************)
EXTENDS PackManifest

Ref(kind, id) == [kind |-> kind, id |-> id]

Window(short, long, factor) == [short |-> short, long |-> long, factor |-> factor]

Char(sym, form) == [sym |-> sym, form |-> form]
Plain(sym) == Char(sym, "plain")

FiveMinutes == <<Plain("5"), Plain("m")>>
OneHour     == <<Plain("1"), Plain("h")>>
OneHOUR     == <<Plain("1"), Char("h", "upper")>>
HalfPastOne == <<Plain("1"), Char(".", "other"), Plain("5"), Plain("h")>>

Fast == Window(FiveMinutes, OneHour, 14)
Loud == Window(FiveMinutes, OneHOUR, 14)
Slow == Window(FiveMinutes, HalfPastOne, 6)

BurnAlert(ref, windows) == [slo |-> ref, windows |-> windows]

Name(ref, w) == [slo |-> ref, short |-> w.short, long |-> w.long]

\* Rules in either order, two of one name in either order and one of them alone;
\* attributes too.
RuleOrders ==
    LET r == [name |-> "r", expr |-> 1]
        s == [name |-> "s", expr |-> 1]
        t == [name |-> "r", expr |-> 2]
    IN  ({<<r, s>>, <<s, r>>, <<r, t>>, <<t, r>>, <<t>>} \X {<<"a", "b">>})
        \cup {<<<<r, s>>, <<"b", "a">>>>}

\* Receivers in either order, two of one name, and one without a name.
Receivers ==
    LET a == [name |-> "otlp", config |-> 1]
        b == [name |-> "jaeger", config |-> 1]
        c == [name |-> "otlp", config |-> 2]
        d == [name |-> "", config |-> 1]
    IN  {<<b, a>>, <<a, c>>, <<c, d>>}

Default == [receivers |-> <<[name |-> "otlp", config |-> 1],
                            [name |-> "jaeger", config |-> 1]>>,
            processors |-> <<[name |-> "batch", config |-> 1]>>]

\* What is listed besides the alerts: rules, attributes, receivers, processors.
Orders ==
    {<<o[1], o[2], Default.receivers, Default.processors>> : o \in RuleOrders}
    \cup {<< <<>>, <<>>, list, <<>> >> : list \in Receivers}
    \cup {<< <<>>, <<>>, <<>>, <<[name |-> "batch", config |-> n]>> >> : n \in 1..2}

AlertLists ==
    {<<BurnAlert(Ref(kind, "x"), <<Fast>>)>> :
        kind \in {"bare", "slos", "slis", "external"}}
    \cup {<<BurnAlert(Ref("bare", "i"), <<Fast>>)>>,
          <<BurnAlert(Ref("bare", "x"), <<Slow, Fast>>)>>,
          <<BurnAlert(Ref("bare", "x"), <<Fast, Slow>>)>>,
          <<BurnAlert(Ref("bare", "x"), <<Loud>>)>>,
          <<BurnAlert(Ref("bare", "x"), <<[Fast EXCEPT !.factor = 10]>>)>>}

SLOLists ==
    {{[id |-> "x", sli |-> Ref(kind, "i")]} : kind \in {"slis", "slos", "external"}}

ManifestOf(slos, alerts, order, prefixed) ==
    [slis |-> {"i"}, slos |-> slos, alerts |-> alerts, rules |-> order[1],
     attributes |-> order[2], receivers |-> order[3], processors |-> order[4],
     forecasts |-> {Ref("slos", "x")},
     panels |-> {Ref("slis", "i"), Ref("bare", "x")},
     triggers |-> {[prefixed |-> prefixed, name |-> Name(Ref("bare", "x"), Fast)]},
     expected |-> {Name(Ref("bare", "y"), Fast)}]

\* Every spelling of references and durations; every order of what is listed.
Written ==
    {ManifestOf(slos, alerts, order, prefixed) :
        slos \in SLOLists, alerts \in AlertLists, prefixed \in BOOLEAN,
        order \in {<< <<>>, <<>>, Default.receivers, Default.processors >>}}
    \cup {ManifestOf({[id |-> "x", sli |-> Ref("slis", "i")]}, alerts, order, TRUE) :
             alerts \in AlertLists, order \in Orders}
=============================================================================
