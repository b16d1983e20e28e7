------------------------------ MODULE QueryBar ------------------------------
(***************************************************************************)
(* The query bar of the metrics page.  The page owns the query: filter     *)
(* tokens, which the bar shows as chips, and free text.  The bar edits the *)
(* free text and the token that is being composed; an effect takes the     *)
(* free text over from the query when the query has changed, unless a      *)
(* token is being composed.                                                *)
(*                                                                         *)
(* Both are sequences of words.  A word is a text, or a field and a value, *)
(* None while it is not typed yet: `host:' is only a token with a value.   *)
(* Quotes, the list of suggestions and the focus are left out.             *)
(***************************************************************************)
EXTENDS Naturals, SequencesExt, Filtered

CONSTANTS
    Texts,          \* the words of a free text
    Fields, Values,
    Unsuggested,    \* the fields without suggestions of values, `key'
    Recipes,        \* the queries a recipe card sets
    None,
    MaxWords,       \* bound: the words in the bar
    MaxEdits        \* bound: edits

VARIABLES
    value,          \* the query: its tokens and then its free text
    input,          \* what the bar's field holds
    synced,         \* the query when the effect last ran
    edits

vars == <<value, input, synced, edits>>

Token == [field : Fields, value : Values]
Word  == [text : Texts] \cup [field : Fields, value : Values \cup {None}]

IsField(w) == "field" \in DOMAIN w

Tokens(words) == Kept(words, Token)
Text(words)   == Kept(words, Word \ Token)
Parsed(words) == Tokens(words) \o Text(words)

\* A card's query is tokens and then a text.
BarAssumption == \A r \in Recipes : r \in Seq(Word) /\ Parsed(r) = r

\* The last word is a token that is being composed.
Draft(words) == words # <<>> /\ IsField(Last(words))

ReplaceFieldToken(words, w) ==
    Kept(words, {t \in Token : t.field # w.field}) \o <<w>> \o Text(words)

---------------------------------------------------------------------------
Edit == synced = value /\ edits < MaxEdits /\ edits' = edits + 1

Init ==
    /\ value \in {<<>>} \cup Recipes
    /\ input = Text(value) /\ synced = value /\ edits = 0

\* What the field holds has become `next': the query gets the words before the
\* token that is being composed, or all of them.
UpdateInput(next) ==
    /\ Edit /\ next # input /\ Len(next) <= MaxWords
    /\ input' = next
    /\ value' = Parsed(Tokens(value) \o (IF Draft(next) THEN Front(next) ELSE next))
    /\ UNCHANGED synced

\* The words at the end of the field are typed, completed or deleted; several
\* may be pasted at once.  A text becomes a field when its suggestion is taken.
Type == \E w \in Word :
    \/ UpdateInput(Append(input, w))
    \/ input # <<>> /\ IsField(Last(input)) /\ IsField(w) /\ w.field = Last(input).field
         /\ UpdateInput(Append(Front(input), w))
Paste == \E v, w \in Word : UpdateInput(input \o <<v, w>>)
Delete == input # <<>> /\ UpdateInput(Front(input))
PickField == \E f \in Fields :
    input # <<>> /\ ~Draft(input) /\ UpdateInput(Append(Front(input), [field |-> f, value |-> None]))

\* A suggested value: the token becomes a chip, the text before it stays.
CommitToken(v) ==
    /\ Edit /\ Draft(input) /\ Last(input).field \notin Unsuggested
    /\ LET base == Parsed(Tokens(value) \o Front(input))
           w    == [field |-> Last(input).field, value |-> v]
       IN  value' = ReplaceFieldToken(base, w)
    /\ input' = Text(value')
    /\ UNCHANGED synced

\* A chip's cross, or backspace in an empty field.
RemoveToken ==
    /\ Edit
    /\ \E n \in DOMAIN Tokens(value) : value' = RemoveAt(Tokens(value), n) \o Text(value)
    /\ UNCHANGED <<input, synced>>

\* The cards are shown without a query.
Recipe ==
    /\ Edit /\ value = <<>>
    /\ value' \in Recipes
    /\ UNCHANGED <<input, synced>>

Resync ==
    /\ synced # value
    /\ synced' = value
    /\ input' = IF Draft(input) THEN input ELSE Text(value)
    /\ UNCHANGED <<value, edits>>

Next ==
    \/ Type \/ Paste \/ Delete \/ PickField \/ RemoveToken \/ Recipe \/ Resync
    \/ \E v \in Values : CommitToken(v)

Spec == Init /\ [][Next]_vars

---------------------------------------------------------------------------
(* Properties.                                                             *)

\* The variables keep their types.
TypeOK == value \in Seq(Word) /\ input \in Seq(Word) /\ Parsed(value) = value

\* While no token is being composed the field holds the query's free text and
\* nothing else, whatever was typed, pasted, picked, taken back or set from
\* outside before: a word the search does not use is not on the screen, and one it
\* does use can be edited (QueryBar.tsx:70-85, 144-163, 180-183).
FieldIsTheText == synced = value /\ ~Draft(input) => input = Text(value)
=============================================================================
