-------------------------------- MODULE Alert --------------------------------
(***************************************************************************)
(* alert.py and severity.py: what is kept of what a client read of a       *)
(* problem, and the identity it has for the ledger.                        *)
(*                                                                         *)
(* A text is a sequence of words; whitespace is the word " ", which the    *)
(* normalisation strips at both ends, and the empty text is no text.       *)
(***************************************************************************)
EXTENDS Naturals, SequencesExt

(* Python's `or`: the first text that is not empty, blank ones included.   *)
FirstGiven(texts) ==
    LET given == {i \in DOMAIN texts : texts[i] # <<>>}
    IN  IF given = {} THEN <<>> ELSE texts[Min(given)]

Space == " "

(* From the first word that is not whitespace to the last.                 *)
Strip(text) ==
    LET kept == {i \in DOMAIN text : text[i] # Space}
    IN  IF kept = {} THEN <<>> ELSE SubSeq(text, Min(kept), Max(kept))

(* __post_init__: every text stripped. *)
Stripped(alert) ==
    [alert EXCEPT !.server = Strip(@), !.alertname = Strip(@), !.app = Strip(@),
                  !.host = Strip(@), !.severity = Strip(@), !.desc = Strip(@),
                  !.status_text = Strip(@), !.environment = Strip(@)]

(* It raises a DomainValidationError, a ValueError, for any other.         *)
Valid(alert) ==
    <<>> \notin {alert.server, alert.alertname, alert.app, alert.severity}

(* Slip: the text that changes from cycle to cycle is part of it.          *)
DedupKeyWithText(alert) ==
    <<alert.server, alert.alertname, alert.app, alert.host, alert.desc>>

DedupKey(alert) == <<alert.server, alert.alertname, alert.app, alert.host>>
=============================================================================
