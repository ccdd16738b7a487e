------------------------------ MODULE Library ------------------------------
(***************************************************************************)
(* What the archive promises its user: a library with one card for each    *)
(* session, which only the user's decisions and the files can change.  A   *)
(* resync is no event of its own: at most it brings cards up to date, any  *)
(* number of them at once.  A removed card stays removed.                  *)
(***************************************************************************)
EXTENDS Naturals

CONSTANT Sessions

VARIABLES file,     \* session -> the lines in its file, 0 when it is gone
          card      \* session -> its card

Card == [state : {"none", "live", "trashed", "removed"}, lines : Nat,
         name : {0, 1}, starred : BOOLEAN]
Blank(state, lines) ==
    [state |-> state, lines |-> lines, name |-> 0, starred |-> FALSE]

Init ==
    /\ file \in [Sessions -> Nat]
    /\ card \in [Sessions -> Card]
    /\ \A s \in Sessions : card[s] \in {Blank("none", 0), Blank("live", card[s].lines)}

Change(s) ==
    /\ file' = [file EXCEPT ![s] = file'[s]]
    /\ file'[s] = 0 \/ file[s] \in 1..file'[s]
    /\ UNCHANGED card

-----------------------------------------------------------------------------
(* The user's decisions.                                                   *)

Put(s, c) == card' = [card EXCEPT ![s] = c] /\ UNCHANGED file

Trash(s)   == card[s].state = "live" /\ Put(s, [card[s] EXCEPT !.state = "trashed"])
Restore(s) == card[s].state = "trashed" /\ Put(s, [card[s] EXCEPT !.state = "live"])
Name(s) ==
    /\ card[s].state = "live"
    /\ \E n \in {0, 1} : Put(s, [card[s] EXCEPT !.name = n])
Star(s) ==
    /\ card[s].state \in {"live", "trashed"}
    /\ \E on \in BOOLEAN : Put(s, [card[s] EXCEPT !.starred = on])
Remove(gone) ==
    /\ \A s \in gone : card[s].state = "trashed"
    /\ card' = [s \in Sessions |-> IF s \in gone THEN Blank("removed", 0) ELSE card[s]]
    /\ UNCHANGED file

-----------------------------------------------------------------------------
(* A card is made or brought up to date, from what the file held when it   *)
(* was read: no line is dropped, none is made up, no decision is touched.  *)
Updated(old, new, held) ==
    /\ held > 0 => new.lines <= held
    /\ \/ old.state = "none" /\ new = Blank("live", new.lines)
       \/ /\ old.state \in {"live", "trashed"}
          /\ new = [old EXCEPT !.lines = new.lines] /\ old.lines <= new.lines

Update ==
    /\ card' \in [Sessions -> Card]
    /\ \A s \in Sessions : card'[s] = card[s] \/ Updated(card[s], card'[s], file[s])
    /\ UNCHANGED file

-----------------------------------------------------------------------------
Next ==
    \/ \E s \in Sessions : Change(s) \/ Trash(s) \/ Restore(s) \/ Name(s) \/ Star(s)
    \/ \E gone \in SUBSET Sessions : Remove(gone)
    \/ Update

Spec == Init /\ [][Next]_<<file, card>>
=============================================================================
