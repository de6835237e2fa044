--------------------------------- MODULE Theme ---------------------------------
(***************************************************************************)
(* The theme of the user interface (useTheme): one ref for the whole page, *)
(* written by the user's choice, which is also sent to the server, and by  *)
(* the answers to syncTheme, which every visit of the dashboard asks for.  *)
(* themeVersion and syncRequestVersion are kept as two flags of a sync:    *)
(* no theme was set since it was sent, and no other sync was sent since.   *)
(***************************************************************************)
EXTENDS Naturals

CONSTANT MaxChoices  \* bound on the themes the user chooses

VARIABLES
    theme,    \* themeMode, and with it the page and localStorage
    stored,   \* the preference on the server
    syncs,    \* syncTheme requests in flight
    puts,     \* updatePreferences requests in flight
    choices,  \* how many themes the user chose
    doubt     \* an error or an overlap may have left theme # stored

themeVars == <<theme, stored, syncs, puts, choices, doubt>>

Themes == {"light", "dark"}

\* The themes are interchangeable: the one in localStorage may be called light.
ThemeInit ==
    /\ theme = "light" /\ stored \in Themes
    /\ syncs = {} /\ puts = {} /\ choices = 0 /\ doubt = TRUE

\* v: the visit that waits for it; clean: no choice was on its way when it
\* was sent; answer: what the server read, once it did.
SendSync(v) ==
    /\ syncs' = {[s EXCEPT !.newest = FALSE] : s \in syncs} \union
                {[visit |-> v, newest |-> TRUE, fresh |-> TRUE, clean |-> puts = {},
                  answer |-> "none"]}
    /\ doubt' = (doubt \/ puts # {})
    /\ UNCHANGED <<theme, stored, puts, choices>>

SyncServed(s) ==
    /\ s \in syncs /\ s.answer = "none"
    /\ syncs' = (syncs \ {s}) \union {[s EXCEPT !.answer = stored]}
    /\ UNCHANGED <<theme, stored, puts, choices, doubt>>

\* Fault: a theme chosen since the request was sent does not stop it.
TakenAnyway(s) == s.newest

Taken(s) == s.newest /\ s.fresh

\* setTheme counts as a choice for every other sync.
SyncAnswered(s) ==
    /\ s \in syncs /\ s.answer # "none"
    /\ IF Taken(s)
       THEN /\ theme' = s.answer
            /\ syncs' = {[r EXCEPT !.fresh = FALSE] : r \in syncs \ {s}}
            /\ doubt' = (doubt /\ ~s.clean)
       ELSE syncs' = syncs \ {s} /\ UNCHANGED <<theme, doubt>>
    /\ UNCHANGED <<stored, puts, choices>>

SyncFails(s) ==
    /\ s \in syncs
    /\ syncs' = syncs \ {s}
    /\ UNCHANGED <<theme, stored, puts, choices, doubt>>

\* persistTheme: shown at once, then saved.
Choose(t) ==
    /\ choices < MaxChoices
    /\ choices' = choices + 1
    /\ theme' = t
    /\ syncs' = {[s EXCEPT !.fresh = FALSE] : s \in syncs}
    /\ puts' = puts \union {[number |-> choices', theme |-> t]}
    /\ doubt' = (puts # {})
    /\ UNCHANGED stored

\* A failure leaves the theme shown; the server may have stored it or not.
PutEnds(p) ==
    /\ p \in puts
    /\ puts' = puts \ {p}
    /\ \/ stored' = p.theme /\ doubt' = doubt
       \/ stored' \in {stored, p.theme} /\ doubt' = TRUE
    /\ UNCHANGED <<theme, syncs, choices>>

ThemeTypeOK ==
    /\ theme \in Themes /\ stored \in Themes
    /\ \A s \in syncs : s.answer \in Themes \union {"none"}
    /\ puts \subseteq [number : 1 .. MaxChoices, theme : Themes]
    /\ choices \in 0 .. MaxChoices
    /\ doubt \in BOOLEAN

(* The theme that is shown is the one on the server as soon as the last
   choice was saved, whatever syncs were on their way when it was made: an
   answer that was read before the choice does not undo it (useTheme.ts:86).
   Excepted are a failed save, two saves at once, and a sync that was sent
   while a save was on its way, which nothing puts in order. *)
ChoiceSticks == puts = {} /\ ~doubt => theme = stored
===============================================================================
