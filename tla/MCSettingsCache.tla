--------------------------- MODULE MCSettingsCache ---------------------------
(* Small instances for model checking SettingsCache. *)
EXTENDS SettingsCache

\* Of every kind of text one setting or the other stumbles on.
MCTexts == {Numeral(5), Numeral(40), Padded(Numeral(5)), Word("true"), Word("on"),
            Empty}

\* Of every form of text: what each of the sixteen settings accepts is stored in a form
\* it accepts again and parses to a value of its own, and so is its default; the bands
\* of the grades may be a bare number, and a padded "on" is stored as "true".
AllTexts == MCTexts \cup {Word("daily"), Word("hi"), Word("grade"), Padded(Word("on")),
                          Json("A B"), Color("1E88E5"), LowerColor("1E88E5"), Clock("0930"),
                          TooLong, Numeral(0), Numeral(-1)}

ASSUME DefaultsAreStored ==
    \A d \in Registry : /\ Accepts(d.key, d.default)
                        /\ Canonical(d.key, d.default) = d.default
ASSUME AcceptedIsStored ==
    \A key \in RegistryKeys, raw \in AllTexts : Accepts(key, raw) =>
       LET text == Canonical(key, raw) IN
       /\ Accepts(key, text) /\ Canonical(key, text) = text
       /\ IsValueOf(key, Coerce(key, text))

=============================================================================
