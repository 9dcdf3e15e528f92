------------------------------ MODULE ProductForm ------------------------------
(***************************************************************************)
(* The seller's form: three calls that make a listing, and a fourth that   *)
(* drafts a translation into its fields.  The seller types between any two *)
(* answers.                                                                *)
(***************************************************************************)
EXTENDS Integers, Sequences, FiniteSets

CONSTANTS
    Ideas,       \* what the seller may write a listing about
    MaxListings, \* bound: listings the form makes
    Nobody

ASSUME ProductFormAssumption ==
    MaxListings \in Nat /\ IsFiniteSet(Ideas) /\ Nobody \notin Ideas \cup {"seller"}

VARIABLES
    words,    \* what the form's own fields are about
    other,    \* who wrote each field of the translation: the seller, or a draft, of an idea
    drafting, \* the idea the draft under way is of
    saving,   \* where the three calls are
    data,     \* the FormData they send
    listings  \* the rows they made

formVars == <<words, other, drafting, saving, data, listings>>

Blank == [title |-> Nobody, description |-> Nobody]

FormInit ==
    /\ words = Nobody /\ other = Blank /\ drafting = Nobody
    /\ saving = "idle" /\ data = [words |-> Nobody, other |-> Blank] /\ listings = <<>>

-----------------------------------------------------------------------------
(* No field is disabled while the form is being saved.                     *)

Type ==
    /\ \/ \E i \in Ideas : words' = i /\ UNCHANGED other
       \/ \E f \in {"title", "description"}, w \in {Nobody, "seller"} :
            other' = [other EXCEPT ![f] = w] /\ UNCHANGED words
    /\ UNCHANGED <<drafting, saving, data, listings>>

\* A language already written in is left alone; looked at before the call.
Draft ==
    /\ saving = "idle" /\ drafting = Nobody
    /\ other = Blank /\ words # Nobody
    /\ drafting' = words
    /\ UNCHANGED <<words, other, saving, data, listings>>

\* Two assignments with nothing between them, or an error drawn.
DraftAnswers ==
    /\ drafting # Nobody /\ drafting' = Nobody
    /\ \/ other' = [title |-> drafting, description |-> drafting]
       \/ UNCHANGED other
    /\ UNCHANGED <<words, saving, data, listings>>

Create ==
    /\ saving = "idle" /\ words # Nobody /\ Len(listings) < MaxListings
    /\ saving' = "creating" /\ data' = [words |-> words, other |-> other]
    /\ UNCHANGED <<words, other, drafting, listings>>

WrittenWhole(o) == o.title # Nobody /\ o.description # Nobody

\* Both fields or neither: half a translation is refused.
Accepted(o) == WrittenWhole(o) \/ o = Blank

WritableTranslations(o) == IF WrittenWhole(o) THEN {o} ELSE {}

NewListing == [words |-> data.words, translations |-> WritableTranslations(data.other), status |-> "no file"]

\* Slip: half a translation is let through, and dropped.
CreateAnswersHalves ==
    /\ saving = "creating"
    /\ \/ listings' = Append(listings, NewListing) /\ saving' \in {"uploading", "idle"}
       \/ saving' = "idle" /\ UNCHANGED listings
    /\ UNCHANGED <<words, other, drafting, data>>

\* The row is made, or refused; and the answer may not arrive.
CreateAnswers ==
    /\ saving = "creating"
    /\ \/ /\ Accepted(data.other)
          /\ listings' = Append(listings, NewListing) /\ saving' \in {"uploading", "idle"}
       \/ saving' = "idle" /\ UNCHANGED listings
    /\ UNCHANGED <<words, other, drafting, data>>

StatusBecomes(s) == listings' = [listings EXCEPT ![Len(listings)].status = s]

\* The other two calls; the last one empties the form, whatever is in it by now.
SaveAnswers ==
    /\ \/ /\ saving = "uploading" /\ StatusBecomes("DRAFT")
          /\ saving' \in {"submitting", "idle"} /\ UNCHANGED <<words, other>>
       \/ /\ saving = "submitting" /\ StatusBecomes("PENDING_REVIEW") /\ saving' = "idle"
          /\ \/ words' = Nobody /\ other' = Blank
             \/ UNCHANGED <<words, other>>
       \/ /\ saving \in {"uploading", "submitting"} /\ saving' = "idle"
          /\ UNCHANGED <<listings, words, other>>
    /\ UNCHANGED <<drafting, data>>

FormNext == Type \/ Draft \/ DraftAnswers \/ Create \/ CreateAnswers \/ SaveAnswers

FormSpec == FormInit /\ [][FormNext]_formVars

-----------------------------------------------------------------------------
\* What was sent of a translation is not dropped in silence: a listing made has
\* the words that were in the form's data when the button was pressed, all of
\* them, and no translation where there were none; half of one is refused, aloud
\* (products/route.ts:12, domain/listing.ts).  It says nothing of what is typed
\* while the answer is awaited, which the form's reset takes away.
NothingTypedIsDropped ==
    [][\A n \in DOMAIN listings' \ DOMAIN listings :
         UNION {{t.title, t.description} : t \in listings'[n].translations}
           = {data.other.title, data.other.description} \ {Nobody}]_formVars
=============================================================================
