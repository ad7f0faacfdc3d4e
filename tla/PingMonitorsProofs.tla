------------------------- MODULE PingMonitorsProofs -------------------------
(***************************************************************************)
(* What pings that overlap, fail and die leave in the .conf files, for any *)
(* number of pings, files and sections.                                    *)
(***************************************************************************)
EXTENDS PingMonitors, WellFoundedInduction, TLAPS

-----------------------------------------------------------------------------
(* The inductive invariant.                                                *)

Writing == {"opening", "filling", "replacing"}

Contents == {Torn} \cup UNION {Content(c) : c \in Confs}

PingTypeOK ==
    /\ disk \in [Inodes -> Contents]
    /\ path \in [Confs -> Inodes \cup {None}]
    /\ tmp \in [Confs -> Inodes \cup {None}]
    /\ pc \in [Pings -> {"collecting", "unlinking"} \cup Writing \cup AtRest]
    /\ listed \in [Pings -> [Servers -> {"True", "False", "unlisted"}]]
    /\ verdict \in [Pings -> [Servers -> {"True", "False", "raised", "unknown"}]]
    /\ handled \in [Pings -> SUBSET Servers]
    /\ target \in [Pings -> Confs \cup {None}]
    /\ text \in [Pings -> Contents]
    /\ fd \in [Pings -> Inodes \cup {None}]
    /\ excused \in [Pings -> SUBSET Confs]
    /\ late \in SUBSET Pings
    /\ clashed \in SUBSET Confs

(* An inode has one name.                                                  *)
InodesApart ==
    /\ \A c, d \in Confs : path[c] # None /\ path[c] = path[d] => c = d
    /\ \A c, d \in Confs : tmp[c] # None /\ tmp[c] = tmp[d] => c = d
    /\ \A c, d \in Confs : path[c] # None => path[c] # tmp[d]

(* What a ping has open is its file's own, and the .conf itself only where *)
(* another ping has moved it there.                                        *)
Handles ==
    /\ \A p \in Pings : fd[p] # None <=> pc[p] = "filling"
    /\ \A p \in Pings, c \in Confs :
          fd[p] # None /\ fd[p] \in {path[c], tmp[c]} => target[p] = c
    /\ \A p \in Pings, c \in Confs :
          fd[p] # None /\ fd[p] = path[c] => c \in clashed

OwnContent ==
    /\ \A c \in Confs : path[c] # None => disk[path[c]] \in Content(c) \cup {Torn}
    /\ \A c \in Confs : tmp[c] # None => disk[tmp[c]] \in Content(c) \cup {Torn}

(* What a ping is at: a file that is there, and a text for it.             *)
Aimed ==
    \A p \in Pings :
        /\ pc[p] \in Writing \cup {"unlinking"} => target[p] \in Files
        /\ pc[p] \in Writing => text[p] \in Content(target[p])
        /\ pc[p] = "unlinking" => target[p] \in excused[p]

ListedIsThere ==
    \A p \in Pings, s \in Servers :
        /\ verdict[p][s] # "unknown" => listed[p][s] # "unlisted"
        /\ listed[p][s] # "unlisted" => ConfOf[s] \in Files

Overlap ==
    \A p, q \in Pings :
        /\ p # q
        /\ pc[p] \in {"filling", "replacing"} /\ pc[q] \in {"filling", "replacing"}
        /\ target[p] = target[q]
        => target[p] \in clashed

(* Alone at its file a ping has in the temporary one what it wrote.        *)
TmpIsMine ==
    \A p \in Pings :
        /\ pc[p] \in {"filling", "replacing"}
        /\ target[p] \notin clashed
        /\ tmp[target[p]] # None
        => /\ pc[p] = "filling" => tmp[target[p]] = fd[p]
           /\ pc[p] = "replacing" => disk[tmp[target[p]]] = text[p]

(* With no hand but its own at the file, what it writes is that or torn.   *)
TmpIsMineOrTorn ==
    \A p \in Pings :
        /\ pc[p] \in {"filling", "replacing"}
        /\ target[p] \notin excused[p]
        /\ tmp[target[p]] # None
        => disk[tmp[target[p]]] \in {Torn, text[p]}

(* Until another hand writes its file, what a ping is to write keeps what  *)
(* the user has there.                                                     *)
MineIsKept ==
    \A p \in Pings :
        pc[p] \in Writing /\ p \notin late =>
            /\ Conf(target[p]) # Torn
            /\ Conf(target[p]).mine = text[p].mine

PingInv ==
    /\ PingTypeOK /\ InodesApart /\ Handles /\ OwnContent
    /\ Aimed /\ ListedIsThere /\ Overlap
    /\ TmpIsMine /\ TmpIsMineOrTorn /\ MineIsKept /\ ConfsReadable

HandledIsKnown ==
    \A p \in Pings :
        /\ \A s \in handled[p] : verdict[p][s] \in {"True", "False"}
        /\ pc[p] = "done" =>
              \A s \in Servers : listed[p][s] # "unlisted" => s \in handled[p]

TextSays ==
    \A p \in Pings, s \in Servers :
        pc[p] \in Writing /\ target[p] = ConfOf[s] =>
            /\ s \in handled[p]
            /\ text[p].enabled[s] \in {"missing", verdict[p][s]}

(* A file nobody else has touched says what was listed until the result is *)
(* handled, and what the result is afterwards.                             *)
SaysSo(p, s) ==
    LET c == ConfOf[s]
    IN  IF s \in handled[p]
        THEN \/ Conf(c).enabled[s] \in {"missing", verdict[p][s]}
             \/ pc[p] \in Writing /\ target[p] = c
        ELSE listed[p][s] = "True" <=> Conf(c).enabled[s] = "True"

Progress ==
    \A p \in Pings, s \in Servers :
        /\ listed[p][s] # "unlisted"
        /\ ConfOf[s] \notin excused[p]
        /\ Conf(ConfOf[s]) # Torn
        => SaysSo(p, s)

SettledInv == PingInv /\ HandledIsKnown /\ TextSays /\ Progress

-----------------------------------------------------------------------------
(* The operators.                                                          *)

(* A set of numbers that has a member has a least one. *)
LEMMA LeastNatural ==
    ASSUME NEW T \in SUBSET Nat, NEW k \in T
    PROVE  \E n \in T : \A m \in T : n <= m
<1> DEFINE R == OpToRel(<, Nat)
<1>1. IsWellFoundedOn(R, Nat)
  BY NatLessThanWellFounded
<1>2. PICK n \in T : \A m \in T : <<m, n>> \notin R
  BY <1>1, WFMin, Zenon
<1>3. ASSUME NEW m \in T PROVE n <= m
  <2>1. ~(m < n)
    BY <1>2 DEF OpToRel
  <2> QED BY <2>1
<1> QED BY <1>3

(* What is written for a probe is a text of the same file that keeps what  *)
(* the user has in it and says the result wherever it says anything.       *)
LEMMA RewrittenIs ==
    ASSUME NEW c \in Confs, NEW content \in Content(c), NEW value \in {"True", "False"}
    PROVE  /\ Rewritten(content, value) \in Content(c)
           /\ Rewritten(content, value).mine = content.mine
           /\ \A s \in In(c) :
                 Rewritten(content, value).enabled[s] \in {"missing", value}
<1>1. content # Torn
  BY TornAssumption
<1> QED BY <1>1 DEF Rewritten, Content, Flags

(* The file found for a name is there and has that name. *)
LEMMA PathForNameIs ==
    ASSUME NEW c \in Files
    PROVE  /\ PathForName(NameOf[c]) \in Files
           /\ NameOf[PathForName(NameOf[c])] = NameOf[c]
<1> DEFINE Named == {d \in Files : NameOf[d] = NameOf[c]}
           Places == {OrderOf[d] : d \in Named}
<1>1. Places \in SUBSET Nat /\ OrderOf[c] \in Places
  BY PingAssumption DEF Files
<1>2. PICK n \in Places : \A m \in Places : n <= m
  BY <1>1, LeastNatural, Zenon
<1>3. PICK d \in Named : n = OrderOf[d]
  BY <1>2
<1>4. \A e \in Files : NameOf[e] = NameOf[c] => OrderOf[d] <= OrderOf[e]
  BY <1>2, <1>3
<1> QED BY <1>3, <1>4 DEF PathForName

-----------------------------------------------------------------------------
(* The invariant, conjunct by conjunct.                                    *)

LEMMA PingInit == Init => PingInv
<1> SUFFICES ASSUME Init PROVE PingInv
  OBVIOUS
<1> USE DEF Init
<1>1. ASSUME NEW c \in Files PROVE disk[path[c]] \in Content(c)
  <2>1. path[c] \in Inodes
    BY DEF Files
  <2>2. (CHOOSE d \in Files : path[d] = path[c]) = c
    OBVIOUS
  <2>3. PICK flags \in [Servers -> Flags] :
            disk = [i \in Inodes |->
                      IF \E d \in Files : path[d] = i
                      THEN LET d == CHOOSE d \in Files : path[d] = i
                           IN  [enabled |-> [s \in In(d) |-> flags[s]], mine |-> "old"]
                      ELSE Torn]
    OBVIOUS
  <2>4. disk[path[c]] = [enabled |-> [s \in In(c) |-> flags[s]], mine |-> "old"]
    <3> DEFINE i == path[c]
               d == CHOOSE d \in Files : path[d] = i
    <3>1. i \in Inodes /\ (\E e \in Files : path[e] = i) /\ d = c
      BY <2>1, <2>2
    <3>2. disk[i] = IF \E e \in Files : path[e] = i
                    THEN [enabled |-> [s \in In(d) |-> flags[s]], mine |-> "old"]
                    ELSE Torn
      BY <2>3, <3>1
    <3> HIDE DEF d
    <3>3. disk[i] = [enabled |-> [s \in In(d) |-> flags[s]], mine |-> "old"]
      BY <3>1, <3>2, Zenon
    <3> QED BY <3>1, <3>3, Zenon
  <2>5. [s \in In(c) |-> flags[s]] \in [In(c) -> Flags]
    BY DEF In
  <2> QED BY ONLY <2>4, <2>5 DEF Content
<1>2. disk \in [Inodes -> Contents]
  <2>1. ASSUME NEW i \in Inodes PROVE disk[i] \in Contents
    <3>1. CASE \E c \in Files : path[c] = i
      BY <3>1, <1>1 DEF Contents, Files
    <3>2. CASE ~\E c \in Files : path[c] = i
      BY <3>2 DEF Contents
    <3> QED BY <3>1, <3>2
  <2> QED BY <2>1
<1>3. PingTypeOK
  BY <1>2 DEF PingTypeOK, Contents, AtRest
<1>4. ConfsReadable
  <2> SUFFICES ASSUME NEW c \in Files, Conf(c) = Torn PROVE FALSE
    BY DEF ConfsReadable
  <2>1. c \in Confs
    BY DEF Files
  <2> QED BY <1>1, <2>1, TornAssumption DEF Conf
<1>5. OwnContent
  BY <1>1 DEF OwnContent, Files
<1>6. InodesApart /\ Handles
  BY DEF InodesApart, Handles, Files
<1>7. Aimed /\ ListedIsThere /\ Overlap /\ TmpIsMine /\ TmpIsMineOrTorn /\ MineIsKept
  BY DEF Aimed, ListedIsThere, Overlap, TmpIsMine, TmpIsMineOrTorn, MineIsKept, Writing
<1> QED BY <1>3, <1>4, <1>5, <1>6, <1>7 DEF PingInv

(* What set_enabled does about the file c: it goes on to write only a text *)
(* of c that keeps what the user has there.                                *)
AimsAt(p, s, c) ==
    /\ c = PathForName(NameOf[ConfOf[s]])
    /\ \/ /\ Conf(c) \in Content(c)
          /\ text' = [text EXCEPT ![p] = Rewritten(Conf(c), verdict[p][s])]
          /\ text'[p] \in Content(c)
          /\ text'[p].mine = Conf(c).mine
          /\ \A t \in In(c) : text'[p].enabled[t] \in {"missing", verdict[p][s]}
          /\ target' = [target EXCEPT ![p] = c]
          /\ pc' = [pc EXCEPT ![p] = "opening"]
          /\ excused' = excused
       \/ /\ Rewritten(Conf(c), verdict[p][s]) = Conf(c)
          /\ UNCHANGED <<target, text, pc, excused>>
       \/ /\ Excuse({p}, c)
          /\ UNCHANGED <<target, text, pc>>

LEMMA SetEnabledAims ==
    ASSUME PingInv, NEW p \in Pings, NEW s \in Servers, SetEnabled(p, s)
    PROVE  \E c \in Files : AimsAt(p, s, c)
<1>1. s \in Completed(p) /\ verdict[p][s] \in {"True", "False"}
  BY DEF SetEnabled, Completed
<1> DEFINE c == PathForName(NameOf[ConfOf[s]])
<1>2. ConfOf[s] \in Files
  BY <1>1 DEF PingInv, ListedIsThere
<1>3. c \in Files
  BY <1>2, PathForNameIs
<1>4. Conf(c) \in Content(c) \cup {Torn}
  BY <1>3 DEF PingInv, OwnContent, Conf, Files
<1> DEFINE newText == Rewritten(Conf(c), verdict[p][s])
<1>5. newText # Conf(c) => Conf(c) \in Content(c)
  BY <1>4 DEF Rewritten
<1>6. Conf(c) \in Content(c) =>
        /\ newText \in Content(c)
        /\ newText.mine = Conf(c).mine
        /\ \A t \in In(c) : newText.enabled[t] \in {"missing", verdict[p][s]}
  BY <1>1, <1>3, RewrittenIs DEF Files
<1>7. c = PathForName(NameOf[ConfOf[s]])
  OBVIOUS
<1>z. \/ /\ newText # Conf(c)
         /\ target' = [target EXCEPT ![p] = c]
         /\ text' = [text EXCEPT ![p] = newText]
         /\ pc' = [pc EXCEPT ![p] = "opening"]
         /\ UNCHANGED excused
      \/ newText = Conf(c) /\ UNCHANGED <<target, text, pc, excused>>
      \/ Excuse({p}, c) /\ UNCHANGED <<target, text, pc>>
  BY DEF SetEnabled, Goto
<1>8. text' = [text EXCEPT ![p] = newText] => text'[p] = newText
  BY DEF PingInv, PingTypeOK
<1>9. AimsAt(p, s, c)
  <2> HIDE DEF c
  <2> QED BY <1>3, <1>5, <1>6, <1>7, <1>z, <1>8 DEF AimsAt
<1> QED BY <1>3, <1>9

(* The temporary file written is one of that name, or a new one that is no *)
(* other file.                                                             *)
LEMMA OpenTmpTakes ==
    ASSUME PingInv, NEW p \in Pings, OpenTmp(p)
    PROVE  \E i \in Inodes :
             /\ \/ i = tmp[target[p]]
                \/ /\ \A c \in Confs : i \notin {path[c], tmp[c]}
                   /\ \A q \in Pings : fd[q] # i
             /\ tmp' = [tmp EXCEPT ![target[p]] = i]
             /\ fd' = [fd EXCEPT ![p] = i]
             /\ disk' = [disk EXCEPT ![i] = Torn]
             /\ clashed' = IF \E q \in Pings \ {p} :
                                 /\ target[q] = target[p]
                                 /\ pc[q] \in {"filling", "replacing"}
                           THEN clashed \cup {target[p]}
                           ELSE clashed
<1> DEFINE c == target[p]
           i == IF tmp[c] # None THEN tmp[c] ELSE CHOOSE f \in Free : TRUE
<1>1. c \in Confs
  BY DEF OpenTmp, PingInv, Aimed, Writing, Files
<1>2. i \in Inodes /\ (i = tmp[c] \/ i \in Free)
  <2>1. CASE tmp[c] # None
    BY <1>1, <2>1 DEF PingInv, PingTypeOK
  <2>2. CASE tmp[c] = None
    <3>1. Free # {}
      BY <2>2 DEF OpenTmp
    <3>2. (CHOOSE f \in Free : TRUE) \in Free
      BY <3>1
    <3> QED BY <2>2, <3>2 DEF Free
  <2> QED BY <2>1, <2>2
<1>3. /\ tmp' = [tmp EXCEPT ![c] = i]
      /\ fd' = [fd EXCEPT ![p] = i]
      /\ disk' = [disk EXCEPT ![i] = Torn]
      /\ clashed' = IF \E q \in Pings \ {p} :
                          target[q] = c /\ pc[q] \in {"filling", "replacing"}
                    THEN clashed \cup {c}
                    ELSE clashed
  BY DEF OpenTmp
<1>4. \/ i = tmp[c]
      \/ /\ \A d \in Confs : i \notin {path[d], tmp[d]}
         /\ \A q \in Pings : fd[q] # i
  BY <1>2 DEF Free
<1> HIDE DEF i
<1> QED BY <1>2, <1>3, <1>4

LEMMA TypeNext ==
    ASSUME PingInv, [Next]_vars
    PROVE  PingTypeOK'
<1> USE DEF PingTypeOK, AtRest, Writing
<1>a. PingTypeOK /\ Aimed /\ Handles
  BY DEF PingInv
<1>b. Torn \in Contents /\ \A c \in Confs : Content(c) \subseteq Contents
  BY DEF Contents
<1>e. ASSUME NEW P, NEW c \in Confs, Excuse(P, c)
      PROVE  excused' \in [Pings -> SUBSET Confs]
  BY <1>a, <1>e DEF Excuse
<1>0. CASE UNCHANGED vars
  BY <1>a, <1>0 DEF vars
<1>1. ASSUME NEW c \in Confs, Edit(c) PROVE PingTypeOK'
  <2>1. PICK flags \in [In(c) -> {"True", "False"}] :
            disk' = [disk EXCEPT ![path[c]] = [enabled |-> flags, mine |-> "edited"]]
    BY <1>1 DEF Edit
  <2>2. [enabled |-> flags, mine |-> "edited"] \in Contents
    <3>1. [enabled |-> flags, mine |-> "edited"] \in Content(c)
      BY DEF Content, Flags
    <3> QED BY <1>b, <3>1
  <2>3. disk' \in [Inodes -> Contents]
    BY <1>a, <2>1, <2>2
  <2>4. excused' \in [Pings -> SUBSET Confs]
    BY <1>a, <1>1 DEF Edit, Excuse
  <2>5. late' \in SUBSET Pings
    BY <1>a, <1>1 DEF Edit, Overtake
  <2> QED BY <1>a, <1>1, <2>3, <2>4, <2>5 DEF Edit
<1>2. ASSUME NEW p \in Pings, ListAll(p) PROVE PingTypeOK'
  <2>1. listed' \in [Pings -> [Servers -> {"True", "False", "unlisted"}]]
    BY <1>a, <1>2 DEF ListAll
  <2>2. verdict' \in [Pings -> [Servers -> {"True", "False", "raised", "unknown"}]]
    BY <1>a, <1>2 DEF ListAll
  <2> QED BY <1>a, <1>2, <2>1, <2>2 DEF ListAll, Goto
<1>3. ASSUME NEW p \in Pings, EndPing(p) PROVE PingTypeOK'
  BY <1>a, <1>3 DEF EndPing, Goto, Excuse, Resume, Handle
<1>4. ASSUME NEW p \in Pings, Kill(p) PROVE PingTypeOK'
  <2>1. listed' \in [Pings -> [Servers -> {"True", "False", "unlisted"}]]
    BY <1>a, <1>4 DEF Kill
  <2>2. verdict' \in [Pings -> [Servers -> {"True", "False", "raised", "unknown"}]]
    BY <1>a, <1>4 DEF Kill
  <2> QED BY <1>a, <1>b, <1>4, <2>1, <2>2 DEF Kill, Goto
<1>5. ASSUME NEW p \in Pings, NEW s \in Servers, Probe(p, s) PROVE PingTypeOK'
  BY <1>a, <1>5 DEF Probe, Goto, Excuse, Resume, Handle
<1>6. ASSUME NEW p \in Pings, NEW s \in Servers, LeaveUnchanged(p, s) PROVE PingTypeOK'
  BY <1>a, <1>6 DEF LeaveUnchanged, Goto, Excuse, Resume, Handle
<1>7. ASSUME NEW p \in Pings, NEW s \in Servers, SetEnabled(p, s) PROVE PingTypeOK'
  <2>1. handled' \in [Pings -> SUBSET Servers]
    BY <1>a, <1>7 DEF SetEnabled, Handle
  <2>2. PICK c \in Files : AimsAt(p, s, c)
    BY <1>7, SetEnabledAims, Zenon
  <2>c. c \in Confs
    BY DEF Files
  <2>3. text' \in [Pings -> Contents]
    BY <1>a, <1>b, <2>2, <2>c DEF AimsAt
  <2>6. target' \in [Pings -> Confs \cup {None}]
    <3>1. target' = [target EXCEPT ![p] = c] \/ UNCHANGED target
      BY <2>2 DEF AimsAt
    <3> QED BY <1>a, <2>c, <3>1
  <2>7. late' \in SUBSET Pings
    BY <1>a, <1>7 DEF SetEnabled
  <2>4. pc' \in [Pings -> {"collecting", "unlinking"} \cup Writing \cup AtRest]
    BY <1>a, <2>2 DEF AimsAt
  <2>5. excused' \in [Pings -> SUBSET Confs]
    BY <1>a, <1>e, <2>2, <2>c DEF AimsAt
  <2> QED BY <1>a, <1>7, <2>1, <2>3, <2>4, <2>5, <2>6, <2>7 DEF SetEnabled
<1>8. ASSUME NEW p \in Pings, OpenTmp(p) PROVE PingTypeOK'
  <2> DEFINE c == target[p]
  <2>1. c \in Confs
    BY <1>a, <1>8 DEF OpenTmp, Aimed, Files
  <2>2. PICK i \in Inodes :
            /\ tmp' = [tmp EXCEPT ![c] = i]
            /\ fd' = [fd EXCEPT ![p] = i]
            /\ disk' = [disk EXCEPT ![i] = Torn]
    BY <1>8, OpenTmpTakes
  <2>3. disk' \in [Inodes -> Contents]
    BY <1>a, <1>b, <2>2
  <2>4. clashed' \in SUBSET Confs
    BY <1>a, <1>8, <2>1 DEF OpenTmp
  <2> QED BY <1>a, <1>8, <2>1, <2>2, <2>3, <2>4 DEF OpenTmp, Goto
<1>9. ASSUME NEW p \in Pings, FillTmp(p) PROVE PingTypeOK'
  <2>1. target[p] \in Confs /\ fd[p] \in Inodes
    BY <1>a, <1>9 DEF FillTmp, Aimed, Files, Handles
  <2>2. disk' \in [Inodes -> Contents]
    BY <1>a, <1>9, <2>1 DEF FillTmp
  <2> QED BY <1>a, <1>9, <2>1, <2>2 DEF FillTmp, Goto, Excuse, Overtake
<1>10. ASSUME NEW p \in Pings, ReplaceConf(p) PROVE PingTypeOK'
  <2> DEFINE c == target[p]
  <2>1. c \in Confs /\ path[c] \in Inodes
    BY <1>a, <1>10 DEF ReplaceConf, Aimed, Files
  <2>2. excused' \in [Pings -> SUBSET Confs]
    BY <1>e, <1>10, <2>1 DEF ReplaceConf
  <2>l. late' \in SUBSET Pings
    BY <1>a, <1>10 DEF ReplaceConf, Overtake
  <2>3. CASE /\ path' = [path EXCEPT ![c] = tmp[c]]
             /\ tmp' = [tmp EXCEPT ![c] = None]
             /\ disk' = [disk EXCEPT ![path[c]] = Torn]
             /\ Resume(p)
    BY <1>a, <1>b, <1>10, <2>1, <2>2, <2>l, <2>3 DEF ReplaceConf, Resume, Goto
  <2>4. CASE Goto(p, "unlinking") /\ UNCHANGED <<disk, path, tmp, target, text>>
    BY <1>a, <1>10, <2>2, <2>l, <2>4 DEF ReplaceConf, Goto
  <2> QED BY <1>10, <2>3, <2>4 DEF ReplaceConf
<1>11. ASSUME NEW p \in Pings, WriteFails(p) PROVE PingTypeOK'
  <2>1. target[p] \in Confs
    BY <1>a, <1>11 DEF WriteFails, Aimed, Files
  <2> QED BY <1>a, <1>11, <2>1 DEF WriteFails, Goto, Excuse
<1>12. ASSUME NEW p \in Pings, UnlinkTmp(p) PROVE PingTypeOK'
  <2>1. target[p] \in Confs
    BY <1>a, <1>12 DEF UnlinkTmp, Aimed, Files
  <2> QED BY <1>a, <1>b, <1>12, <2>1 DEF UnlinkTmp, Goto, Resume
<1> QED
  BY <1>0, <1>1, <1>2, <1>3, <1>4, <1>5, <1>6, <1>7, <1>8, <1>9, <1>10, <1>11, <1>12 DEF Next, Write

LEMMA ApartNext ==
    ASSUME PingInv, [Next]_vars
    PROVE  InodesApart'
<1> USE DEF InodesApart
<1>a. PingTypeOK /\ Aimed /\ InodesApart
  BY DEF PingInv
<1>0. CASE UNCHANGED vars
  BY <1>a, <1>0 DEF vars
<1>1. ASSUME NEW c \in Confs, Edit(c) PROVE InodesApart'
  BY <1>a, <1>1 DEF Edit
<1>2. ASSUME NEW p \in Pings, ListAll(p) PROVE InodesApart'
  BY <1>a, <1>2 DEF ListAll
<1>3. ASSUME NEW p \in Pings, EndPing(p) PROVE InodesApart'
  BY <1>a, <1>3 DEF EndPing
<1>4. ASSUME NEW p \in Pings, Kill(p) PROVE InodesApart'
  BY <1>a, <1>4 DEF Kill
<1>5. ASSUME NEW p \in Pings, NEW s \in Servers, Probe(p, s) PROVE InodesApart'
  BY <1>a, <1>5 DEF Probe
<1>6. ASSUME NEW p \in Pings, NEW s \in Servers, LeaveUnchanged(p, s) PROVE InodesApart'
  BY <1>a, <1>6 DEF LeaveUnchanged
<1>7. ASSUME NEW p \in Pings, NEW s \in Servers, SetEnabled(p, s) PROVE InodesApart'
  BY <1>a, <1>7 DEF SetEnabled
<1>8. ASSUME NEW p \in Pings, OpenTmp(p) PROVE InodesApart'
  <2> DEFINE c == target[p]
  <2>1. PICK i \in Inodes :
            /\ \/ i = tmp[c]
               \/ \A d \in Confs : i \notin {path[d], tmp[d]}
            /\ tmp' = [tmp EXCEPT ![c] = i]
    BY <1>8, OpenTmpTakes
  <2>2. c \in Confs /\ i # None
    BY <1>a, <1>8, PingAssumption DEF OpenTmp, Aimed, Files, Writing
  <2>3. /\ \A d \in Confs : tmp'[d] = IF d = c THEN i ELSE tmp[d]
        /\ UNCHANGED path
    BY <1>a, <1>8, <2>1 DEF OpenTmp, PingTypeOK
  <2> QED BY <1>a, <2>1, <2>2, <2>3
<1>9. ASSUME NEW p \in Pings, FillTmp(p) PROVE InodesApart'
  BY <1>a, <1>9 DEF FillTmp
<1>10. ASSUME NEW p \in Pings, ReplaceConf(p) PROVE InodesApart'
  <2>1. target[p] \in Confs
    BY <1>a, <1>10 DEF ReplaceConf, Aimed, Files, Writing
  <2>2. CASE UNCHANGED <<path, tmp>>
    BY <1>a, <2>2
  <2>3. CASE /\ tmp[target[p]] # None
             /\ path' = [path EXCEPT ![target[p]] = tmp[target[p]]]
             /\ tmp' = [tmp EXCEPT ![target[p]] = None]
    BY <1>a, <2>1, <2>3 DEF PingTypeOK
  <2> QED BY <1>10, <2>2, <2>3 DEF ReplaceConf
<1>11. ASSUME NEW p \in Pings, WriteFails(p) PROVE InodesApart'
  BY <1>a, <1>11 DEF WriteFails
<1>12. ASSUME NEW p \in Pings, UnlinkTmp(p) PROVE InodesApart'
  <2>1. target[p] \in Confs
    BY <1>a, <1>12 DEF UnlinkTmp, Aimed, Files, Writing
  <2> QED BY <1>a, <1>12, <2>1 DEF UnlinkTmp, PingTypeOK
<1> QED
  BY <1>0, <1>1, <1>2, <1>3, <1>4, <1>5, <1>6, <1>7, <1>8, <1>9, <1>10, <1>11, <1>12 DEF Next, Write

LEMMA HandlesNext ==
    ASSUME PingInv, [Next]_vars
    PROVE  Handles'
<1> USE DEF Handles, AtRest
<1>a. PingTypeOK /\ Aimed /\ InodesApart /\ Handles
  BY DEF PingInv
<1>0. CASE UNCHANGED vars
  BY <1>a, <1>0 DEF vars
<1>1. ASSUME NEW c \in Confs, Edit(c) PROVE Handles'
  BY <1>a, <1>1 DEF Edit, Goto, Resume, PingTypeOK
<1>2. ASSUME NEW p \in Pings, ListAll(p) PROVE Handles'
  BY <1>a, <1>2 DEF ListAll, Goto, Resume, PingTypeOK
<1>3. ASSUME NEW p \in Pings, EndPing(p) PROVE Handles'
  BY <1>a, <1>3 DEF EndPing, Goto, Resume, PingTypeOK
<1>4. ASSUME NEW p \in Pings, Kill(p) PROVE Handles'
  BY <1>a, <1>4 DEF Kill, Goto, Resume, PingTypeOK
<1>5. ASSUME NEW p \in Pings, NEW s \in Servers, Probe(p, s) PROVE Handles'
  BY <1>a, <1>5 DEF Probe, Goto, Resume, PingTypeOK
<1>6. ASSUME NEW p \in Pings, NEW s \in Servers, LeaveUnchanged(p, s) PROVE Handles'
  BY <1>a, <1>6 DEF LeaveUnchanged, Goto, Resume, PingTypeOK
<1>7. ASSUME NEW p \in Pings, NEW s \in Servers, SetEnabled(p, s) PROVE Handles'
  <2>1. PICK c \in Files : AimsAt(p, s, c)
    BY <1>7, SetEnabledAims, Zenon
  <2>2. /\ pc[p] = "collecting" /\ fd[p] = None
        /\ UNCHANGED <<path, tmp, fd, clashed>>
    BY <1>a, <1>7 DEF SetEnabled
  <2>3. \A q \in Pings : q # p => target'[q] = target[q] /\ pc'[q] = pc[q]
    BY <1>a, <2>1 DEF AimsAt, PingTypeOK
  <2>4. pc'[p] # "filling"
    BY <1>a, <2>1, <2>2 DEF AimsAt, PingTypeOK
  <2> QED BY <1>a, <2>2, <2>3, <2>4
<1>8. ASSUME NEW p \in Pings, OpenTmp(p) PROVE Handles'
  <2> DEFINE c == target[p]
  <2>1. PICK i \in Inodes :
            /\ \/ i = tmp[c]
               \/ /\ \A d \in Confs : i \notin {path[d], tmp[d]}
                  /\ \A q \in Pings : fd[q] # i
            /\ tmp' = [tmp EXCEPT ![c] = i]
            /\ fd' = [fd EXCEPT ![p] = i]
    BY <1>8, OpenTmpTakes
  <2>2. c \in Confs /\ i # None
    BY <1>a, <1>8, PingAssumption DEF OpenTmp, Aimed, Files, Writing
  <2>3. clashed \subseteq clashed'
    BY <1>8 DEF OpenTmp
  <2>4. /\ \A q \in Pings : fd'[q] = IF q = p THEN i ELSE fd[q]
        /\ \A d \in Confs : tmp'[d] = IF d = c THEN i ELSE tmp[d]
        /\ \A q \in Pings : pc'[q] = IF q = p THEN "filling" ELSE pc[q]
        /\ UNCHANGED <<path, target>>
    BY <1>a, <1>8, <2>1 DEF OpenTmp, Goto, PingTypeOK
  <2>5. \A q \in Pings, d \in Confs : 
           fd'[q] # None /\ fd'[q] \in {path'[d], tmp'[d]} => target'[q] = d
    BY <1>a, <2>1, <2>2, <2>4 DEF InodesApart
  <2>6. \A q \in Pings, d \in Confs : fd'[q] # None /\ fd'[q] = path'[d] => d \in clashed'
    BY <1>a, <2>1, <2>2, <2>3, <2>4 DEF InodesApart
  <2> QED BY <1>a, <2>2, <2>4, <2>5, <2>6
<1>9. ASSUME NEW p \in Pings, FillTmp(p) PROVE Handles'
  BY <1>a, <1>9 DEF FillTmp, Goto, Resume, PingTypeOK
<1>10. ASSUME NEW p \in Pings, ReplaceConf(p) PROVE Handles'
  <2> DEFINE c == target[p]
  <2>1. c \in Confs /\ pc[p] = "replacing" /\ fd[p] = None
    BY <1>a, <1>10 DEF ReplaceConf, Aimed, Files, Writing
  <2>2. UNCHANGED <<fd, clashed>>
    BY <1>10 DEF ReplaceConf
  <2>3. \A q \in Pings : q # p => pc'[q] = pc[q] /\ target'[q] = target[q]
    BY <1>a, <1>10 DEF ReplaceConf, Resume, Goto, PingTypeOK
  <2>4. pc'[p] # "filling"
    BY <1>a, <1>10 DEF ReplaceConf, Resume, Goto, PingTypeOK
  <2>5. \A d \in Confs :
           /\ path'[d] \in {path[d]} \cup (IF d = c THEN {tmp[c]} ELSE {})
           /\ tmp'[d] \in {tmp[d], None}
    BY <1>a, <1>10, <2>1 DEF ReplaceConf, PingTypeOK
  <2>6. \A q \in Pings : fd[q] # None /\ fd[q] = tmp[c] => c \in clashed
    BY <1>a, <2>1 DEF PingInv, Overlap
  <2> QED BY <1>a, <2>1, <2>2, <2>3, <2>4, <2>5, <2>6
<1>11. ASSUME NEW p \in Pings, WriteFails(p) PROVE Handles'
  BY <1>a, <1>11 DEF WriteFails, Goto, Resume, PingTypeOK
<1>12. ASSUME NEW p \in Pings, UnlinkTmp(p) PROVE Handles'
  BY <1>a, <1>12 DEF UnlinkTmp, Goto, Resume, PingTypeOK
<1> QED
  BY <1>0, <1>1, <1>2, <1>3, <1>4, <1>5, <1>6, <1>7, <1>8, <1>9, <1>10, <1>11, <1>12 DEF Next, Write

(* What the proofs keep using of a ping that is at a file. *)
LEMMA AtFile ==
    ASSUME PingInv, NEW p \in Pings, pc[p] \in Writing \cup {"unlinking"}
    PROVE  /\ target[p] \in Confs /\ target[p] \in Files
           /\ path[target[p]] \in Inodes
           /\ path[target[p]] # None
           /\ pc[p] \in Writing => text[p] \in Content(target[p]) /\ text[p] # Torn
BY TornAssumption DEF PingInv, PingTypeOK, Aimed, Files

(* os.replace, which moves the temporary file onto the .conf or raises. *)
LEMMA ReplaceConfMoves ==
    ASSUME PingInv, NEW p \in Pings, ReplaceConf(p)
    PROVE  LET c == target[p]
           IN  /\ pc[p] = "replacing" /\ c \in Confs /\ path[c] \in Inodes
               /\ fd[p] = None
               /\ \/ /\ tmp[c] \in Inodes /\ tmp[c] # path[c]
                     /\ path' = [path EXCEPT ![c] = tmp[c]]
                     /\ tmp' = [tmp EXCEPT ![c] = None]
                     /\ disk' = [disk EXCEPT ![path[c]] = Torn]
                     /\ excused' = [q \in Pings |-> IF q # p THEN excused[q] \cup {c}
                                                   ELSE excused[q]]
                     /\ late' = late \cup {q \in Pings \ {p} : pc[q] \in Writing /\ target[q] = c}
                     /\ target' = [target EXCEPT ![p] = None]
                     /\ text' = [text EXCEPT ![p] = Torn]
                     /\ pc' = [pc EXCEPT ![p] = "collecting"]
                  \/ /\ excused' = [q \in Pings |-> IF q = p THEN excused[q] \cup {c}
                                                   ELSE excused[q]]
                     /\ pc' = [pc EXCEPT ![p] = "unlinking"]
                     /\ UNCHANGED <<disk, path, tmp, target, text, late>>
               /\ UNCHANGED <<listed, verdict, handled, fd, clashed>>
<1> DEFINE c == target[p]
<1>1. pc[p] = "replacing" /\ UNCHANGED <<listed, verdict, handled, fd, clashed>>
  BY DEF ReplaceConf
<1>2. c \in Confs /\ path[c] \in Inodes /\ path[c] # None /\ fd[p] = None
  BY <1>1, AtFile DEF PingInv, Handles, Writing
<1>3. tmp[c] # None => tmp[c] \in Inodes /\ tmp[c] # path[c]
  BY <1>2 DEF PingInv, PingTypeOK, InodesApart
<1>4. CASE /\ tmp[c] # None
           /\ path' = [path EXCEPT ![c] = tmp[c]]
           /\ tmp' = [tmp EXCEPT ![c] = None]
           /\ disk' = [disk EXCEPT ![path[c]] = Torn]
           /\ Excuse(Pings \ {p}, c)
           /\ Overtake(Pings \ {p}, c)
           /\ Resume(p)
  <2>1. excused' = [q \in Pings |-> IF q # p THEN excused[q] \cup {c} ELSE excused[q]]
    BY <1>4 DEF Excuse
  <2>2. late' = late \cup {q \in Pings \ {p} : pc[q] \in Writing /\ target[q] = c}
    BY <1>4 DEF Overtake, Writing
  <2> QED BY <1>1, <1>2, <1>3, <1>4, <2>1, <2>2 DEF Resume, Goto
<1>5. CASE /\ Excuse({p}, c)
           /\ Goto(p, "unlinking")
           /\ UNCHANGED <<disk, path, tmp, target, text, late>>
  <2>1. excused' = [q \in Pings |-> IF q = p THEN excused[q] \cup {c} ELSE excused[q]]
    BY <1>5 DEF Excuse
  <2> QED BY <1>1, <1>2, <1>5, <2>1 DEF Goto
<1> QED BY <1>4, <1>5 DEF ReplaceConf

(* And the file itself then has what was in the temporary one.             *)
LEMMA ReplaceConfGives ==
    ASSUME PingInv, NEW p \in Pings, ReplaceConf(p)
    PROVE  \/ /\ tmp[target[p]] # None
              /\ path'[target[p]] = tmp[target[p]] /\ tmp'[target[p]] = None
              /\ disk'[tmp[target[p]]] = disk[tmp[target[p]]]
              /\ pc' = [pc EXCEPT ![p] = "collecting"]
           \/ /\ UNCHANGED <<disk, path, tmp, target, text>>
              /\ pc' = [pc EXCEPT ![p] = "unlinking"]
              /\ target[p] \in excused'[p]
<1>1. PICK c \in Confs : c = target[p] /\ path[c] \in Inodes
  BY ReplaceConfMoves
<1>2. PingTypeOK
  BY DEF PingInv
<1>3. CASE /\ tmp[c] \in Inodes /\ tmp[c] # path[c]
           /\ path' = [path EXCEPT ![c] = tmp[c]]
           /\ tmp' = [tmp EXCEPT ![c] = None]
           /\ disk' = [disk EXCEPT ![path[c]] = Torn]
           /\ pc' = [pc EXCEPT ![p] = "collecting"]
  BY <1>1, <1>2, <1>3, PingAssumption DEF PingTypeOK
<1>4. CASE /\ excused' = [q \in Pings |-> IF q = p THEN excused[q] \cup {c}
                                         ELSE excused[q]]
           /\ pc' = [pc EXCEPT ![p] = "unlinking"]
           /\ UNCHANGED <<disk, path, tmp, target, text>>
  BY <1>1, <1>4
<1> QED BY <1>1, <1>3, <1>4, ReplaceConfMoves

(* The rest of the temporary file's way: filled and closed. *)
LEMMA FillTmpFills ==
    ASSUME PingInv, NEW p \in Pings, FillTmp(p)
    PROVE  LET c == target[p]
           IN  /\ pc[p] = "filling" /\ c \in Confs /\ fd[p] \in Inodes
               /\ text[p] \in Content(c) /\ text[p] # Torn
               /\ \A d \in Confs : fd[p] \in {path[d], tmp[d]} => d = c
               /\ disk' = [disk EXCEPT ![fd[p]] = text[p]]
               /\ fd' = [fd EXCEPT ![p] = None]
               /\ pc' = [pc EXCEPT ![p] = "replacing"]
               /\ excused' = [q \in Pings |-> IF q # p THEN excused[q] \cup {c}
                                             ELSE excused[q]]
               /\ late' = late \cup {q \in Pings \ {p} : pc[q] \in Writing /\ target[q] = c}
               /\ UNCHANGED <<path, tmp, listed, verdict, handled, target, text, clashed>>
<1>1. pc[p] = "filling" /\ fd[p] # None /\ fd[p] \in Inodes
  BY DEF FillTmp, PingInv, Handles, PingTypeOK
<1>2. \A d \in Confs : fd[p] \in {path[d], tmp[d]} => d = target[p]
  BY <1>1 DEF PingInv, Handles
<1>3. excused' = [q \in Pings |-> IF q # p THEN excused[q] \cup {target[p]}
                                 ELSE excused[q]]
  BY DEF FillTmp, Excuse
<1>4. late' = late \cup {q \in Pings \ {p} : pc[q] \in Writing /\ target[q] = target[p]}
  BY DEF FillTmp, Overtake, Writing
<1> QED BY <1>1, <1>2, <1>3, <1>4, AtFile DEF FillTmp, Goto, Writing

(* No file goes or comes.                                                  *)
LEMMA FilesStay ==
    ASSUME PingInv, [Next]_vars
    PROVE  Files' = Files
<1>0. CASE UNCHANGED path
  BY <1>0 DEF Files
<1>1. ASSUME NEW p \in Pings, ReplaceConf(p) PROVE Files' = Files
  <2>1. \A d \in Confs : path'[d] # None <=> path[d] # None
    BY <1>1, ReplaceConfMoves, PingAssumption DEF PingInv, PingTypeOK
  <2> QED BY <2>1 DEF Files
<1> QED BY <1>0, <1>1 DEF Next, Write, vars, Edit, ListAll, EndPing, Kill, Probe,
        LeaveUnchanged, SetEnabled, OpenTmp, FillTmp, WriteFails, UnlinkTmp

LEMMA OwnContentNext ==
    ASSUME PingInv, [Next]_vars
    PROVE  OwnContent'
<1>a. PingTypeOK /\ OwnContent /\ InodesApart
  BY DEF PingInv
<1>0. CASE UNCHANGED vars
  BY <1>a, <1>0 DEF vars, OwnContent
<1>1. ASSUME NEW c \in Confs, Edit(c) PROVE OwnContent'
  <2>1. PICK flags \in [In(c) -> {"True", "False"}] :
            disk' = [disk EXCEPT ![path[c]] = [enabled |-> flags, mine |-> "edited"]]
    BY <1>1 DEF Edit
  <2>2. [enabled |-> flags, mine |-> "edited"] \in Content(c)
    BY DEF Content, Flags
  <2>3. UNCHANGED <<path, tmp>> /\ path[c] # None
    BY <1>1 DEF Edit, Files
  <2> QED BY <1>a, <2>1, <2>2, <2>3 DEF OwnContent, InodesApart, PingTypeOK
<1>2. ASSUME NEW p \in Pings, ListAll(p) PROVE OwnContent'
  BY <1>a, <1>2 DEF ListAll, OwnContent
<1>3. ASSUME NEW p \in Pings, EndPing(p) PROVE OwnContent'
  BY <1>a, <1>3 DEF EndPing, OwnContent
<1>4. ASSUME NEW p \in Pings, Kill(p) PROVE OwnContent'
  BY <1>a, <1>4 DEF Kill, OwnContent
<1>5. ASSUME NEW p \in Pings, NEW s \in Servers, Probe(p, s) PROVE OwnContent'
  BY <1>a, <1>5 DEF Probe, OwnContent
<1>6. ASSUME NEW p \in Pings, NEW s \in Servers, LeaveUnchanged(p, s) PROVE OwnContent'
  BY <1>a, <1>6 DEF LeaveUnchanged, OwnContent
<1>7. ASSUME NEW p \in Pings, NEW s \in Servers, SetEnabled(p, s) PROVE OwnContent'
  BY <1>a, <1>7 DEF SetEnabled, OwnContent
<1>8. ASSUME NEW p \in Pings, OpenTmp(p) PROVE OwnContent'
  <2>1. PICK i \in Inodes :
            /\ tmp' = [tmp EXCEPT ![target[p]] = i]
            /\ disk' = [disk EXCEPT ![i] = Torn]
    BY <1>8, OpenTmpTakes
  <2>2. UNCHANGED path /\ target[p] \in Confs
    BY <1>8, AtFile DEF OpenTmp, Writing
  <2> QED BY <1>a, <2>1, <2>2 DEF OwnContent, PingTypeOK
<1>9. ASSUME NEW p \in Pings, FillTmp(p) PROVE OwnContent'
  <2>1. /\ \A i \in Inodes : disk'[i] = IF i = fd[p] THEN text[p] ELSE disk[i]
        /\ text[p] \in Content(target[p])
        /\ \A d \in Confs : fd[p] \in {path[d], tmp[d]} => d = target[p]
        /\ UNCHANGED <<path, tmp>>
    BY <1>a, <1>9, FillTmpFills DEF PingTypeOK
  <2>2. \A d \in Confs : {path[d], tmp[d]} \subseteq Inodes \cup {None}
    BY <1>a DEF PingTypeOK
  <2> QED BY <1>a, <2>1, <2>2 DEF OwnContent
<1>10. ASSUME NEW p \in Pings, ReplaceConf(p) PROVE OwnContent'
  <2>1. PICK c \in Confs : c = target[p] /\ path[c] \in Inodes
    BY <1>10, ReplaceConfMoves
  <2>2. CASE UNCHANGED <<disk, path, tmp>>
    BY <1>a, <2>2 DEF OwnContent
  <2>3. CASE /\ tmp[c] \in Inodes /\ tmp[c] # path[c]
             /\ path' = [path EXCEPT ![c] = tmp[c]]
             /\ tmp' = [tmp EXCEPT ![c] = None]
             /\ disk' = [disk EXCEPT ![path[c]] = Torn]
    <3>1. /\ \A i \in Inodes : disk'[i] = IF i = path[c] THEN Torn ELSE disk[i]
          /\ \A d \in Confs : /\ path'[d] = IF d = c THEN tmp[c] ELSE path[d]
                             /\ tmp'[d] = IF d = c THEN None ELSE tmp[d]
      BY <1>a, <2>3 DEF PingTypeOK
    <3>2. \A d \in Confs : {path[d], tmp[d]} \subseteq Inodes \cup {None}
      BY <1>a DEF PingTypeOK
    <3> QED BY <1>a, <2>1, <2>3, <3>1, <3>2 DEF OwnContent
  <2> QED BY <1>10, <2>1, <2>2, <2>3, ReplaceConfMoves
<1>11. ASSUME NEW p \in Pings, WriteFails(p) PROVE OwnContent'
  BY <1>a, <1>11 DEF WriteFails, OwnContent
<1>12. ASSUME NEW p \in Pings, UnlinkTmp(p) PROVE OwnContent'
  <2>1. target[p] \in Confs
    BY <1>12, AtFile DEF UnlinkTmp
  <2> QED BY <1>a, <1>12, <2>1 DEF UnlinkTmp, OwnContent, PingTypeOK
<1> QED
  BY <1>0, <1>1, <1>2, <1>3, <1>4, <1>5, <1>6, <1>7, <1>8, <1>9, <1>10, <1>11, <1>12 DEF Next, Write

LEMMA ReadableNext ==
    ASSUME PingInv, [Next]_vars
    PROVE  ConfsReadable'
<1> USE DEF ConfsReadable, Conf
<1>a. PingTypeOK /\ OwnContent /\ InodesApart /\ ConfsReadable /\ TmpIsMine
  BY DEF PingInv
<1>b. Files' = Files /\ Files \subseteq Confs
  BY FilesStay DEF Files
<1>c. \A d \in Files : path[d] \in Inodes
  BY <1>a DEF Files, PingTypeOK
<1>0. CASE UNCHANGED vars
  BY <1>a, <1>b, <1>0 DEF vars
<1>1. ASSUME NEW c \in Confs, Edit(c) PROVE ConfsReadable'
  <2>1. PICK flags \in [In(c) -> {"True", "False"}] :
            disk' = [disk EXCEPT ![path[c]] = [enabled |-> flags, mine |-> "edited"]]
    BY <1>1 DEF Edit
  <2>2. [enabled |-> flags, mine |-> "edited"] # Torn
    BY TornAssumption DEF Content, Flags
  <2> QED BY <1>a, <1>b, <1>c, <1>1, <2>1, <2>2 DEF Edit, PingTypeOK
<1>2. ASSUME NEW p \in Pings, ListAll(p) PROVE ConfsReadable'
  BY <1>a, <1>b, <1>2 DEF ListAll
<1>3. ASSUME NEW p \in Pings, EndPing(p) PROVE ConfsReadable'
  BY <1>a, <1>b, <1>3 DEF EndPing
<1>4. ASSUME NEW p \in Pings, Kill(p) PROVE ConfsReadable'
  BY <1>a, <1>b, <1>4 DEF Kill
<1>5. ASSUME NEW p \in Pings, NEW s \in Servers, Probe(p, s) PROVE ConfsReadable'
  BY <1>a, <1>b, <1>5 DEF Probe
<1>6. ASSUME NEW p \in Pings, NEW s \in Servers, LeaveUnchanged(p, s) PROVE ConfsReadable'
  BY <1>a, <1>b, <1>6 DEF LeaveUnchanged
<1>7. ASSUME NEW p \in Pings, NEW s \in Servers, SetEnabled(p, s) PROVE ConfsReadable'
  BY <1>a, <1>b, <1>7 DEF SetEnabled
<1>8. ASSUME NEW p \in Pings, OpenTmp(p) PROVE ConfsReadable'
  <2>1. PICK i \in Inodes :
            /\ \/ i = tmp[target[p]]
               \/ \A c \in Confs : i \notin {path[c], tmp[c]}
            /\ disk' = [disk EXCEPT ![i] = Torn]
            /\ clashed \subseteq clashed'
    BY <1>8, OpenTmpTakes
  <2>2. UNCHANGED path /\ target[p] \in Confs
    BY <1>8, AtFile DEF OpenTmp, Writing
  <2>3. \A d \in Files : path[d] # i
    BY <1>a, <1>b, <2>1, <2>2 DEF InodesApart, Files
  <2>4. \A d \in Files : Conf(d)' = Conf(d)
    BY <1>a, <1>c, <2>1, <2>2, <2>3 DEF PingTypeOK
  <2> QED BY <1>a, <1>b, <2>1, <2>4
<1>9. ASSUME NEW p \in Pings, FillTmp(p) PROVE ConfsReadable'
  BY <1>a, <1>b, <1>c, <1>9, FillTmpFills DEF PingTypeOK
<1>10. ASSUME NEW p \in Pings, ReplaceConf(p) PROVE ConfsReadable'
  <2>0. PICK c \in Confs : c = target[p]
    BY <1>10, ReplaceConfMoves
  <2>1. /\ pc[p] = "replacing" /\ text[p] # Torn
        /\ UNCHANGED clashed
    BY <1>10, AtFile, ReplaceConfMoves DEF Writing
  <2>2. CASE UNCHANGED <<disk, path>>
    BY <1>a, <1>b, <2>1, <2>2
  <2>3. CASE /\ tmp[c] \in Inodes /\ tmp[c] # path[c]
             /\ path' = [path EXCEPT ![c] = tmp[c]]
             /\ disk' = [disk EXCEPT ![path[c]] = Torn]
    <3>1. c \notin clashed => disk[tmp[c]] # Torn
      BY <2>0, <1>a, <2>1, <2>3, PingAssumption DEF TmpIsMine
    <3>2. \A d \in Files : d # c => Conf(d)' = Conf(d)
      <4> SUFFICES ASSUME NEW d \in Files, d # c PROVE Conf(d)' = Conf(d)
        OBVIOUS
      <4>1. path'[d] = path[d] /\ path[d] \in Inodes
        BY <1>a, <1>b, <1>c, <2>3 DEF PingTypeOK
      <4>2. path[d] # path[c]
        BY <1>a, <1>b DEF InodesApart, Files
      <4>3. disk'[path[d]] = disk[path[d]]
        BY <1>a, <2>3, <4>1, <4>2 DEF PingTypeOK
      <4> QED BY <4>1, <4>3
    <3>3. Conf(c)' = disk[tmp[c]]
      BY <1>a, <2>3 DEF PingTypeOK
    <3> QED BY <1>a, <1>b, <2>1, <3>1, <3>2, <3>3
  <2> QED BY <1>10, <2>0, <2>2, <2>3, ReplaceConfMoves
<1>11. ASSUME NEW p \in Pings, WriteFails(p) PROVE ConfsReadable'
  BY <1>a, <1>b, <1>11 DEF WriteFails
<1>12. ASSUME NEW p \in Pings, UnlinkTmp(p) PROVE ConfsReadable'
  BY <1>a, <1>b, <1>12 DEF UnlinkTmp
<1> QED
  BY <1>0, <1>1, <1>2, <1>3, <1>4, <1>5, <1>6, <1>7, <1>8, <1>9, <1>10, <1>11, <1>12 DEF Next, Write

LEMMA AimedNext ==
    ASSUME PingInv, [Next]_vars
    PROVE  Aimed'
<1> USE DEF Aimed, AtRest, Writing
<1>a. PingTypeOK /\ Aimed
  BY DEF PingInv
<1>b. Files' = Files /\ Files \subseteq Confs
  BY FilesStay DEF Files
<1>c. \A c \in Confs : Content(c)' = Content(c)
  BY DEF Content
<1>0. CASE UNCHANGED vars
  BY <1>a, <1>b, <1>0 DEF vars
<1>1. ASSUME NEW c \in Confs, Edit(c) PROVE Aimed'
  BY <1>a, <1>b, <1>1 DEF Edit, Goto, Excuse, Resume, PingTypeOK
<1>2. ASSUME NEW p \in Pings, ListAll(p) PROVE Aimed'
  BY <1>a, <1>b, <1>2 DEF ListAll, Goto, Excuse, Resume, PingTypeOK
<1>3. ASSUME NEW p \in Pings, EndPing(p) PROVE Aimed'
  BY <1>a, <1>b, <1>3 DEF EndPing, Goto, Excuse, Resume, PingTypeOK
<1>4. ASSUME NEW p \in Pings, Kill(p) PROVE Aimed'
  BY <1>a, <1>b, <1>4 DEF Kill, Goto, Excuse, Resume, PingTypeOK
<1>5. ASSUME NEW p \in Pings, NEW s \in Servers, Probe(p, s) PROVE Aimed'
  BY <1>a, <1>b, <1>5 DEF Probe, Goto, Excuse, Resume, PingTypeOK
<1>6. ASSUME NEW p \in Pings, NEW s \in Servers, LeaveUnchanged(p, s) PROVE Aimed'
  BY <1>a, <1>b, <1>6 DEF LeaveUnchanged, Goto, Excuse, Resume, PingTypeOK
<1>7. ASSUME NEW p \in Pings, NEW s \in Servers, SetEnabled(p, s) PROVE Aimed'
  <2>1. PICK c \in Files : AimsAt(p, s, c)
    BY <1>7, SetEnabledAims, Zenon
  <2>2. pc[p] = "collecting"
    BY <1>7 DEF SetEnabled
  <2>3. CASE /\ text' = [text EXCEPT ![p] = Rewritten(Conf(c), verdict[p][s])]
             /\ text'[p] \in Content(c)
             /\ target' = [target EXCEPT ![p] = c]
             /\ pc' = [pc EXCEPT ![p] = "opening"]
             /\ excused' = excused
    BY <1>a, <1>b, <1>c, <2>3 DEF PingTypeOK
  <2>4. CASE /\ UNCHANGED <<target, text, pc>>
             /\ excused' = excused \/ Excuse({p}, c)
    BY <1>a, <1>b, <2>2, <2>4 DEF Excuse, PingTypeOK
  <2> QED BY <2>1, <2>3, <2>4 DEF AimsAt
<1>8. ASSUME NEW p \in Pings, OpenTmp(p) PROVE Aimed'
  BY <1>a, <1>b, <1>8 DEF OpenTmp, Goto, Excuse, Resume, PingTypeOK
<1>9. ASSUME NEW p \in Pings, FillTmp(p) PROVE Aimed'
  <2>1. /\ pc[p] = "filling" /\ UNCHANGED <<target, text>>
        /\ \A q \in Pings : pc'[q] = IF q = p THEN "replacing" ELSE pc[q]
    BY <1>a, <1>9, FillTmpFills DEF PingTypeOK
  <2>2. \A q \in Pings : excused[q] \subseteq excused'[q]
    BY <1>9, FillTmpFills
  <2> QED BY <1>a, <1>b, <1>c, <2>1, <2>2
<1>10. ASSUME NEW p \in Pings, ReplaceConf(p) PROVE Aimed'
  <2>1. \A q \in Pings : q # p => /\ target'[q] = target[q] /\ text'[q] = text[q]
                                 /\ pc'[q] = pc[q] /\ excused[q] \subseteq excused'[q]
    BY <1>a, <1>10, ReplaceConfMoves DEF PingTypeOK
  <2>2. pc[p] = "replacing"
    BY <1>10, ReplaceConfMoves
  <2>3. \/ pc'[p] = "collecting"
        \/ /\ pc'[p] = "unlinking"
           /\ target'[p] = target[p] /\ target[p] \in excused'[p]
    BY <1>a, <1>10, ReplaceConfGives DEF PingTypeOK
  <2> QED BY <1>a, <1>b, <1>c, <2>1, <2>2, <2>3
<1>11. ASSUME NEW p \in Pings, WriteFails(p) PROVE Aimed'
  BY <1>a, <1>b, <1>11 DEF WriteFails, Goto, Excuse, Resume, PingTypeOK
<1>12. ASSUME NEW p \in Pings, UnlinkTmp(p) PROVE Aimed'
  BY <1>a, <1>b, <1>12 DEF UnlinkTmp, Goto, Excuse, Resume, PingTypeOK
<1> QED
  BY <1>0, <1>1, <1>2, <1>3, <1>4, <1>5, <1>6, <1>7, <1>8, <1>9, <1>10, <1>11, <1>12 DEF Next, Write

LEMMA ListedNext ==
    ASSUME PingInv, [Next]_vars
    PROVE  ListedIsThere'
<1> USE DEF ListedIsThere
<1>a. PingTypeOK /\ ListedIsThere
  BY DEF PingInv
<1>b. Files' = Files
  BY FilesStay
<1>0. CASE UNCHANGED vars
  BY <1>a, <1>b, <1>0 DEF vars
<1>1. ASSUME NEW c \in Confs, Edit(c) PROVE ListedIsThere'
  BY <1>a, <1>b, <1>1 DEF Edit, PingTypeOK
<1>2. ASSUME NEW p \in Pings, ListAll(p) PROVE ListedIsThere'
  BY <1>a, <1>b, <1>2 DEF ListAll, PingTypeOK
<1>3. ASSUME NEW p \in Pings, EndPing(p) PROVE ListedIsThere'
  BY <1>a, <1>b, <1>3 DEF EndPing, PingTypeOK
<1>4. ASSUME NEW p \in Pings, Kill(p) PROVE ListedIsThere'
  BY <1>a, <1>b, <1>4 DEF Kill, PingTypeOK
<1>5. ASSUME NEW p \in Pings, NEW s \in Servers, Probe(p, s) PROVE ListedIsThere'
  BY <1>a, <1>b, <1>5 DEF Probe, PingTypeOK
<1>6. ASSUME NEW p \in Pings, NEW s \in Servers, LeaveUnchanged(p, s) PROVE ListedIsThere'
  BY <1>a, <1>b, <1>6 DEF LeaveUnchanged, PingTypeOK
<1>7. ASSUME NEW p \in Pings, NEW s \in Servers, SetEnabled(p, s) PROVE ListedIsThere'
  BY <1>a, <1>b, <1>7 DEF SetEnabled, PingTypeOK
<1>8. ASSUME NEW p \in Pings, OpenTmp(p) PROVE ListedIsThere'
  BY <1>a, <1>b, <1>8 DEF OpenTmp, PingTypeOK
<1>9. ASSUME NEW p \in Pings, FillTmp(p) PROVE ListedIsThere'
  BY <1>a, <1>b, <1>9, FillTmpFills
<1>10. ASSUME NEW p \in Pings, ReplaceConf(p) PROVE ListedIsThere'
  BY <1>a, <1>b, <1>10, ReplaceConfMoves
<1>11. ASSUME NEW p \in Pings, WriteFails(p) PROVE ListedIsThere'
  BY <1>a, <1>b, <1>11 DEF WriteFails, PingTypeOK
<1>12. ASSUME NEW p \in Pings, UnlinkTmp(p) PROVE ListedIsThere'
  BY <1>a, <1>b, <1>12 DEF UnlinkTmp, PingTypeOK
<1> QED
  BY <1>0, <1>1, <1>2, <1>3, <1>4, <1>5, <1>6, <1>7, <1>8, <1>9, <1>10, <1>11, <1>12 DEF Next, Write

LEMMA OverlapNext ==
    ASSUME PingInv, [Next]_vars
    PROVE  Overlap'
<1> USE DEF Overlap, AtRest
<1>a. PingTypeOK /\ Overlap
  BY DEF PingInv
<1>0. CASE UNCHANGED vars
  BY <1>a, <1>0 DEF vars
<1>1. ASSUME NEW c \in Confs, Edit(c) PROVE Overlap'
  BY <1>a, <1>1 DEF Edit, Goto, Resume, PingTypeOK
<1>2. ASSUME NEW p \in Pings, ListAll(p) PROVE Overlap'
  BY <1>a, <1>2 DEF ListAll, Goto, Resume, PingTypeOK
<1>3. ASSUME NEW p \in Pings, EndPing(p) PROVE Overlap'
  BY <1>a, <1>3 DEF EndPing, Goto, Resume, PingTypeOK
<1>4. ASSUME NEW p \in Pings, Kill(p) PROVE Overlap'
  BY <1>a, <1>4 DEF Kill, Goto, Resume, PingTypeOK
<1>5. ASSUME NEW p \in Pings, NEW s \in Servers, Probe(p, s) PROVE Overlap'
  BY <1>a, <1>5 DEF Probe, Goto, Resume, PingTypeOK
<1>6. ASSUME NEW p \in Pings, NEW s \in Servers, LeaveUnchanged(p, s) PROVE Overlap'
  BY <1>a, <1>6 DEF LeaveUnchanged, Goto, Resume, PingTypeOK
<1>7. ASSUME NEW p \in Pings, NEW s \in Servers, SetEnabled(p, s) PROVE Overlap'
  <2>1. PICK c \in Files : AimsAt(p, s, c)
    BY <1>7, SetEnabledAims, Zenon
  <2>2. pc[p] = "collecting" /\ UNCHANGED clashed
    BY <1>7 DEF SetEnabled
  <2>3. /\ \A q \in Pings : q # p => target'[q] = target[q] /\ pc'[q] = pc[q]
        /\ pc'[p] \in {"collecting", "opening"}
    BY <1>a, <2>1, <2>2 DEF AimsAt, PingTypeOK
  <2> QED BY <1>a, <2>2, <2>3
<1>8. ASSUME NEW p \in Pings, OpenTmp(p) PROVE Overlap'
  <2>1. /\ clashed \subseteq clashed' /\ UNCHANGED target
        /\ (\E q \in Pings \ {p} : /\ target[q] = target[p]
                                  /\ pc[q] \in {"filling", "replacing"})
              => target[p] \in clashed'
    BY <1>8, OpenTmpTakes DEF OpenTmp
  <2>2. \A q \in Pings : q # p => pc'[q] = pc[q]
    BY <1>a, <1>8 DEF OpenTmp, Goto, PingTypeOK
  <2> QED BY <1>a, <2>1, <2>2
<1>9. ASSUME NEW p \in Pings, FillTmp(p) PROVE Overlap'
  BY <1>a, <1>9, FillTmpFills DEF PingTypeOK
<1>10. ASSUME NEW p \in Pings, ReplaceConf(p) PROVE Overlap'
  BY <1>a, <1>10, ReplaceConfMoves DEF PingTypeOK
<1>11. ASSUME NEW p \in Pings, WriteFails(p) PROVE Overlap'
  BY <1>a, <1>11 DEF WriteFails, Goto, Resume, PingTypeOK
<1>12. ASSUME NEW p \in Pings, UnlinkTmp(p) PROVE Overlap'
  BY <1>a, <1>12 DEF UnlinkTmp, Goto, Resume, PingTypeOK
<1> QED
  BY <1>0, <1>1, <1>2, <1>3, <1>4, <1>5, <1>6, <1>7, <1>8, <1>9, <1>10, <1>11, <1>12 DEF Next, Write

(* Opened for writing, the temporary file is torn, and no other has        *)
(* changed.                                                                *)
LEMMA OpenTmpTears ==
    ASSUME PingInv, NEW p \in Pings, OpenTmp(p)
    PROVE  /\ pc[p] = "opening" /\ target[p] \in Confs
           /\ \A c \in Confs \ {target[p]} :
                 /\ tmp'[c] = tmp[c]
                 /\ tmp[c] # None => disk'[tmp[c]] = disk[tmp[c]]
           /\ \A c \in Confs :
                 path[c] # None => disk'[path[c]] = disk[path[c]]
           /\ tmp'[target[p]] = fd'[p] /\ disk'[fd'[p]] = Torn
           /\ pc' = [pc EXCEPT ![p] = "filling"]
           /\ UNCHANGED <<path, listed, verdict, handled, target, text, excused>>
<1> DEFINE c == target[p]
<1>1. PICK i \in Inodes :
          /\ \/ i = tmp[c]
             \/ \A d \in Confs : i \notin {path[d], tmp[d]}
          /\ tmp' = [tmp EXCEPT ![c] = i]
          /\ fd' = [fd EXCEPT ![p] = i]
          /\ disk' = [disk EXCEPT ![i] = Torn]
  BY OpenTmpTakes
<1>2. c \in Confs /\ pc[p] = "opening"
  BY AtFile DEF OpenTmp, Writing
<1>3. PingTypeOK /\ InodesApart
  BY DEF PingInv
<1>4. tmp'[c] = i /\ fd'[p] = i /\ disk'[i] = Torn
  BY <1>1, <1>2, <1>3 DEF PingTypeOK
<1>5. i # None
  BY PingAssumption
<1>6. ASSUME NEW d \in Confs, d # c
      PROVE  tmp'[d] = tmp[d] /\ (tmp[d] # None => disk'[tmp[d]] = disk[tmp[d]])
  <2>1. tmp[d] # None => tmp[d] # i /\ tmp[d] \in Inodes
    BY <1>1, <1>2, <1>3, <1>6 DEF InodesApart, PingTypeOK
  <2> QED BY <1>1, <1>3, <1>6, <2>1 DEF PingTypeOK
<1>7. ASSUME NEW d \in Confs, path[d] # None PROVE disk'[path[d]] = disk[path[d]]
  <2>1. path[d] # i /\ path[d] \in Inodes
    BY <1>1, <1>2, <1>3, <1>5, <1>7 DEF InodesApart, PingTypeOK
  <2> QED BY <1>1, <1>3, <2>1 DEF PingTypeOK
<1> QED BY <1>2, <1>4, <1>6, <1>7 DEF OpenTmp, Goto

LEMMA TmpIsMineNext ==
    ASSUME PingInv, [Next]_vars
    PROVE  TmpIsMine'
<1> USE DEF TmpIsMine, AtRest
<1>a. PingTypeOK /\ InodesApart /\ Handles /\ Aimed /\ Overlap /\ TmpIsMine
  BY DEF PingInv
<1>0. CASE UNCHANGED vars
  BY <1>a, <1>0 DEF vars
<1>1. ASSUME NEW c \in Confs, Edit(c) PROVE TmpIsMine'
  <2>1. path[c] # None /\ c \in Confs /\ UNCHANGED <<tmp, pc, target, text, fd, clashed>>
    BY <1>1 DEF Edit, Files
  <2>2. \A d \in Confs : tmp[d] # None => disk'[tmp[d]] = disk[tmp[d]]
    BY <1>a, <1>1, <2>1 DEF Edit, InodesApart, PingTypeOK
  <2>3. \A q \in Pings : pc[q] \in {"filling", "replacing"} => target[q] \in Confs
    BY AtFile DEF Writing
  <2> QED BY <1>a, <2>1, <2>2, <2>3
<1>2. ASSUME NEW p \in Pings, ListAll(p) PROVE TmpIsMine'
  BY <1>a, <1>2 DEF ListAll, Goto, Resume, PingTypeOK
<1>3. ASSUME NEW p \in Pings, EndPing(p) PROVE TmpIsMine'
  BY <1>a, <1>3 DEF EndPing, Goto, Resume, PingTypeOK
<1>4. ASSUME NEW p \in Pings, Kill(p) PROVE TmpIsMine'
  BY <1>a, <1>4 DEF Kill, Goto, Resume, PingTypeOK
<1>5. ASSUME NEW p \in Pings, NEW s \in Servers, Probe(p, s) PROVE TmpIsMine'
  BY <1>a, <1>5 DEF Probe, Goto, Resume, PingTypeOK
<1>6. ASSUME NEW p \in Pings, NEW s \in Servers, LeaveUnchanged(p, s) PROVE TmpIsMine'
  BY <1>a, <1>6 DEF LeaveUnchanged, Goto, Resume, PingTypeOK
<1>7. ASSUME NEW p \in Pings, NEW s \in Servers, SetEnabled(p, s) PROVE TmpIsMine'
  <2>1. PICK c \in Files : AimsAt(p, s, c)
    BY <1>7, SetEnabledAims, Zenon
  <2>2. pc[p] = "collecting" /\ UNCHANGED <<disk, tmp, fd, clashed>>
    BY <1>7 DEF SetEnabled
  <2>3. /\ \A q \in Pings : q # p => /\ target'[q] = target[q] /\ pc'[q] = pc[q]
                                    /\ text'[q] = text[q]
        /\ pc'[p] \in {"collecting", "opening"}
    BY <1>a, <2>1, <2>2 DEF AimsAt, PingTypeOK
  <2> QED BY <1>a, <2>2, <2>3
<1>8. ASSUME NEW p \in Pings, OpenTmp(p) PROVE TmpIsMine'
  <2> SUFFICES ASSUME NEW q \in Pings,
                      pc'[q] \in {"filling", "replacing"},
                      target'[q] \notin clashed', tmp'[target'[q]] # None
               PROVE  /\ pc'[q] = "filling" => tmp'[target'[q]] = fd'[q]
                      /\ pc'[q] = "replacing" => disk'[tmp'[target'[q]]] = text'[q]
    OBVIOUS
  <2>1. /\ tmp'[target[p]] = fd'[p] /\ UNCHANGED <<target, text>>
        /\ pc' = [pc EXCEPT ![p] = "filling"]
    BY <1>8, OpenTmpTears
  <2>2. CASE q = p
    BY <1>a, <2>1, <2>2 DEF PingTypeOK
  <2>3. CASE q # p
    <3>1. pc[q] \in {"filling", "replacing"} /\ pc'[q] = pc[q]
      BY <1>a, <2>1, <2>3 DEF PingTypeOK
    <3>2. target[q] # target[p] /\ target[q] \notin clashed
      BY <1>8, <2>1, <2>3, <3>1, OpenTmpTakes
    <3>3. target[q] \in Confs \ {target[p]}
      BY <3>1, <3>2, AtFile DEF Writing
    <3>4. /\ tmp'[target[q]] = tmp[target[q]]
          /\ tmp[target[q]] # None => disk'[tmp[target[q]]] = disk[tmp[target[q]]]
      BY <1>8, <3>3, OpenTmpTears
    <3>5. fd'[q] = fd[q]
      BY <1>a, <1>8, <2>3, OpenTmpTakes DEF PingTypeOK
    <3> QED BY <1>a, <2>1, <3>1, <3>2, <3>4, <3>5
  <2> QED BY <2>2, <2>3
<1>9. ASSUME NEW p \in Pings, FillTmp(p) PROVE TmpIsMine'
  <2> SUFFICES ASSUME NEW q \in Pings,
                      pc'[q] \in {"filling", "replacing"},
                      target[q] \notin clashed, tmp[target[q]] # None
               PROVE  /\ pc'[q] = "filling" => tmp[target[q]] = fd'[q]
                      /\ pc'[q] = "replacing" => disk'[tmp[target[q]]] = text[q]
    BY <1>9, FillTmpFills
  <2>1. /\ pc[p] = "filling" /\ fd[p] \in Inodes /\ target[p] \in Confs
        /\ \A d \in Confs : fd[p] \in {path[d], tmp[d]} => d = target[p]
        /\ \A i \in Inodes : disk'[i] = IF i = fd[p] THEN text[p] ELSE disk[i]
        /\ \A r \in Pings : /\ pc'[r] = IF r = p THEN "replacing" ELSE pc[r]
                            /\ fd'[r] = IF r = p THEN None ELSE fd[r]
    BY <1>a, <1>9, FillTmpFills DEF PingTypeOK
  <2>2. CASE q = p
    BY <1>a, <2>1, <2>2
  <2>3. CASE q # p
    <3>1. pc[q] \in {"filling", "replacing"}
      BY <2>1, <2>3
    <3>2. target[q] \in Confs /\ target[q] # target[p]
      BY <1>a, <2>1, <2>3, <3>1, AtFile DEF Overlap, Writing
    <3>3. tmp[target[q]] \in Inodes /\ tmp[target[q]] # fd[p]
      BY <1>a, <2>1, <3>2 DEF PingTypeOK
    <3> QED BY <1>a, <2>1, <2>3, <3>1, <3>3
  <2> QED BY <2>2, <2>3
<1>10. ASSUME NEW p \in Pings, ReplaceConf(p) PROVE TmpIsMine'
  <2>1. PICK c \in Confs : c = target[p] /\ path[c] \in Inodes
    BY <1>10, ReplaceConfMoves
  <2>2. pc[p] = "replacing" /\ UNCHANGED <<fd, clashed>>
    BY <1>10, ReplaceConfMoves
  <2>3. CASE UNCHANGED <<disk, tmp, target, text>> /\ pc' = [pc EXCEPT ![p] = "unlinking"]
    BY <1>a, <2>2, <2>3 DEF PingTypeOK
  <2>4. CASE /\ tmp' = [tmp EXCEPT ![c] = None]
             /\ disk' = [disk EXCEPT ![path[c]] = Torn]
             /\ target' = [target EXCEPT ![p] = None]
             /\ text' = [text EXCEPT ![p] = Torn]
             /\ pc' = [pc EXCEPT ![p] = "collecting"]
    <3> SUFFICES ASSUME NEW q \in Pings, q # p,
                        pc[q] \in {"filling", "replacing"},
                        target[q] \notin clashed, tmp'[target[q]] # None
                 PROVE  /\ pc[q] = "filling" => tmp'[target[q]] = fd[q]
                        /\ pc[q] = "replacing" => disk'[tmp'[target[q]]] = text[q]
      BY <1>a, <2>2, <2>4 DEF PingTypeOK
    <3>1. target[q] \in Confs
      BY AtFile DEF Writing
    <3>2. target[q] # c /\ tmp'[target[q]] = tmp[target[q]]
      BY <1>a, <2>4, <3>1 DEF PingTypeOK
    <3>3. tmp[target[q]] \in Inodes /\ tmp[target[q]] # path[c]
      BY <1>a, <2>1, <3>1, <3>2, PingAssumption DEF PingTypeOK, InodesApart
    <3>4. disk'[tmp[target[q]]] = disk[tmp[target[q]]]
      BY <1>a, <2>4, <3>3 DEF PingTypeOK
    <3> QED BY <1>a, <3>2, <3>4
  <2> QED BY <1>10, <2>1, <2>3, <2>4, ReplaceConfMoves
<1>11. ASSUME NEW p \in Pings, WriteFails(p) PROVE TmpIsMine'
  BY <1>a, <1>11 DEF WriteFails, Goto, Resume, PingTypeOK
<1>12. ASSUME NEW p \in Pings, UnlinkTmp(p) PROVE TmpIsMine'
  <2>1. \A q \in Pings : pc[q] \in {"filling", "replacing"} => target[q] \in Confs
    BY AtFile DEF Writing
  <2> QED BY <1>a, <1>12, <2>1 DEF UnlinkTmp, Goto, Resume, PingTypeOK
<1> QED
  BY <1>0, <1>1, <1>2, <1>3, <1>4, <1>5, <1>6, <1>7, <1>8, <1>9, <1>10, <1>11, <1>12 DEF Next, Write

(* os.replace lets one inode go and gives another its name; the other      *)
(* files keep what they have.                                              *)
LEMMA ReplaceConfKeeps ==
    ASSUME PingInv, NEW p \in Pings, ReplaceConf(p), NEW d \in Confs, d # target[p]
    PROVE  /\ path'[d] = path[d] /\ tmp'[d] = tmp[d]
           /\ path[d] # None => disk'[path[d]] = disk[path[d]]
           /\ tmp[d] # None => disk'[tmp[d]] = disk[tmp[d]]
<1>1. PICK c \in Confs : c = target[p] /\ path[c] \in Inodes
  BY ReplaceConfMoves
<1>2. PingTypeOK /\ InodesApart
  BY DEF PingInv
<1>3. CASE UNCHANGED <<disk, path, tmp>>
  BY <1>3
<1>4. CASE /\ path' = [path EXCEPT ![c] = tmp[c]]
           /\ tmp' = [tmp EXCEPT ![c] = None]
           /\ disk' = [disk EXCEPT ![path[c]] = Torn]
  <2>1. /\ path[d] # None => path[d] \in Inodes /\ path[d] # path[c]
        /\ tmp[d] # None => tmp[d] \in Inodes /\ tmp[d] # path[c]
    BY <1>1, <1>2, PingAssumption DEF PingTypeOK, InodesApart
  <2> QED BY <1>1, <1>2, <1>4, <2>1 DEF PingTypeOK
<1> QED BY <1>1, <1>3, <1>4, ReplaceConfMoves

(* So do the files that are not the one filled or edited.                  *)
LEMMA FillTmpKeeps ==
    ASSUME PingInv, NEW p \in Pings, FillTmp(p), NEW d \in Confs, d # target[p]
    PROVE  /\ path[d] # None => disk'[path[d]] = disk[path[d]]
           /\ tmp[d] # None => disk'[tmp[d]] = disk[tmp[d]]
<1>1. /\ fd[p] \in Inodes /\ disk' = [disk EXCEPT ![fd[p]] = text[p]]
      /\ \A c \in Confs : fd[p] \in {path[c], tmp[c]} => c = target[p]
  BY FillTmpFills
<1> QED BY <1>1 DEF PingInv, PingTypeOK

LEMMA EditKeeps ==
    ASSUME PingInv, NEW c \in Files, Edit(c), NEW d \in Confs
    PROVE  /\ d # c /\ path[d] # None => disk'[path[d]] = disk[path[d]]
           /\ tmp[d] # None => disk'[tmp[d]] = disk[tmp[d]]
           /\ \A q \in Pings : excused'[q] = excused[q] \cup {c}
<1>1. path[c] \in Inodes /\ path[c] # None /\ c \in Confs
  BY DEF Files, PingInv, PingTypeOK
<1>2. /\ d # c /\ path[d] # None => path[d] # path[c]
      /\ tmp[d] # None => tmp[d] # path[c]
  BY <1>1 DEF PingInv, InodesApart
<1>3. \A q \in Pings : excused'[q] = excused[q] \cup {c}
  BY DEF Edit, Excuse
<1> QED BY <1>1, <1>2, <1>3 DEF Edit, PingInv, PingTypeOK

LEMMA FillTmpGives ==
    ASSUME PingInv, NEW p \in Pings, FillTmp(p), NEW i \in Inodes
    PROVE  disk'[i] \in {disk[i], text[p]}
BY FillTmpFills DEF PingInv, PingTypeOK

LEMMA MineOrTornNext ==
    ASSUME PingInv, [Next]_vars
    PROVE  TmpIsMineOrTorn'
<1> USE DEF TmpIsMineOrTorn, AtRest
<1>a. PingTypeOK /\ TmpIsMineOrTorn
  BY DEF PingInv
<1>b. \A q \in Pings : pc[q] \in {"filling", "replacing"} => target[q] \in Confs
  BY AtFile DEF Writing
<1>0. CASE UNCHANGED vars
  BY <1>a, <1>0 DEF vars
<1>1. ASSUME NEW c \in Confs, Edit(c) PROVE TmpIsMineOrTorn'
  <2>1. c \in Files /\ UNCHANGED <<path, tmp, pc, target, text>>
    BY <1>1 DEF Edit
  <2>2. ASSUME NEW d \in Confs
        PROVE  /\ d # c /\ path[d] # None => disk'[path[d]] = disk[path[d]]
               /\ tmp[d] # None => disk'[tmp[d]] = disk[tmp[d]]
    BY <1>1, <2>1, EditKeeps
  <2>3. \A q \in Pings : excused'[q] = excused[q] \cup {c}
    BY <1>1, <2>1, EditKeeps
  <2> QED BY <1>a, <1>b, <2>1, <2>2, <2>3
<1>2. ASSUME NEW p \in Pings, ListAll(p) PROVE TmpIsMineOrTorn'
  BY <1>a, <1>2 DEF ListAll, Goto, Excuse, Resume, PingTypeOK
<1>3. ASSUME NEW p \in Pings, EndPing(p) PROVE TmpIsMineOrTorn'
  BY <1>a, <1>3 DEF EndPing, Goto, Excuse, Resume, PingTypeOK
<1>4. ASSUME NEW p \in Pings, Kill(p) PROVE TmpIsMineOrTorn'
  BY <1>a, <1>4 DEF Kill, Goto, Excuse, Resume, PingTypeOK
<1>5. ASSUME NEW p \in Pings, NEW s \in Servers, Probe(p, s) PROVE TmpIsMineOrTorn'
  BY <1>a, <1>5 DEF Probe, Goto, Excuse, Resume, PingTypeOK
<1>6. ASSUME NEW p \in Pings, NEW s \in Servers, LeaveUnchanged(p, s) PROVE TmpIsMineOrTorn'
  BY <1>a, <1>6 DEF LeaveUnchanged, Goto, Excuse, Resume, PingTypeOK
<1>7. ASSUME NEW p \in Pings, NEW s \in Servers, SetEnabled(p, s) PROVE TmpIsMineOrTorn'
  <2>1. PICK c \in Files : AimsAt(p, s, c)
    BY <1>7, SetEnabledAims, Zenon
  <2>2. pc[p] = "collecting" /\ UNCHANGED <<disk, tmp>>
    BY <1>7 DEF SetEnabled
  <2>3. /\ \A q \in Pings : q # p => /\ target'[q] = target[q] /\ pc'[q] = pc[q]
                                    /\ text'[q] = text[q]
        /\ pc'[p] \in {"collecting", "opening"}
    BY <1>a, <2>1, <2>2 DEF AimsAt, PingTypeOK
  <2>4. \A q \in Pings : q # p => excused'[q] = excused[q]
    BY <1>a, <2>1 DEF AimsAt, Excuse, PingTypeOK
  <2> QED BY <1>a, <2>2, <2>3, <2>4
<1>8. ASSUME NEW p \in Pings, OpenTmp(p) PROVE TmpIsMineOrTorn'
  <2> SUFFICES ASSUME NEW q \in Pings,
                      pc'[q] \in {"filling", "replacing"},
                      target[q] \notin excused[q], tmp'[target[q]] # None
               PROVE  disk'[tmp'[target[q]]] \in {Torn, text[q]}
    BY <1>8, OpenTmpTears
  <2>1. CASE target[q] = target[p]
    BY <1>8, <2>1, OpenTmpTears
  <2>2. CASE target[q] # target[p]
    <3>1. pc[q] \in {"filling", "replacing"}
      BY <1>a, <1>8, <2>2, OpenTmpTears DEF PingTypeOK
    <3>2. target[q] \in Confs \ {target[p]}
      BY <1>b, <2>2, <3>1
    <3>3. tmp'[target[q]] = tmp[target[q]]
      BY <1>8, <3>2, OpenTmpTears
    <3>4. disk'[tmp[target[q]]] = disk[tmp[target[q]]]
      BY <1>8, <3>2, <3>3, OpenTmpTears
    <3> QED BY <1>a, <3>1, <3>3, <3>4
  <2> QED BY <2>1, <2>2
<1>9. ASSUME NEW p \in Pings, FillTmp(p) PROVE TmpIsMineOrTorn'
  <2> SUFFICES ASSUME NEW q \in Pings,
                      pc'[q] \in {"filling", "replacing"},
                      target[q] \notin excused'[q], tmp[target[q]] # None
               PROVE  disk'[tmp[target[q]]] \in {Torn, text[q]}
    BY <1>9, FillTmpFills
  <2>1. pc[p] = "filling" /\ pc' = [pc EXCEPT ![p] = "replacing"]
    BY <1>9, FillTmpFills
  <2>2. pc[q] \in {"filling", "replacing"}
    BY <1>a, <2>1 DEF PingTypeOK
  <2>3. target[q] \notin excused[q]
    BY <1>9, FillTmpFills
  <2>4. disk[tmp[target[q]]] \in {Torn, text[q]}
    BY <1>a, <2>2, <2>3
  <2>5. CASE target[q] # target[p]
    BY <1>b, <1>9, <2>2, <2>4, <2>5, FillTmpKeeps
  <2>6. CASE target[q] = target[p]
    <3>1. q = p
      BY <1>9, <2>6, FillTmpFills
    <3>2. tmp[target[p]] \in Inodes
      BY <1>a, <1>b, <2>2, <3>1 DEF PingTypeOK
    <3>3. disk'[tmp[target[p]]] \in {disk[tmp[target[p]]], text[p]}
      BY <1>9, <3>2, FillTmpGives
    <3> QED BY <2>4, <3>1, <3>3
  <2> QED BY <2>5, <2>6
<1>10. ASSUME NEW p \in Pings, ReplaceConf(p) PROVE TmpIsMineOrTorn'
  <2>1. pc[p] = "replacing" /\ target[p] \in Confs
    BY <1>10, ReplaceConfMoves
  <2>2. \A q \in Pings : q # p => /\ target'[q] = target[q] /\ text'[q] = text[q]
                                 /\ pc'[q] = pc[q] /\ excused[q] \subseteq excused'[q]
    BY <1>a, <1>10, ReplaceConfMoves DEF PingTypeOK
  <2>3. pc'[p] \notin {"filling", "replacing"}
    BY <1>a, <1>10, ReplaceConfGives DEF PingTypeOK
  <2> SUFFICES ASSUME NEW q \in Pings, q # p,
                      pc[q] \in {"filling", "replacing"},
                      target[q] \notin excused[q], tmp'[target[q]] # None
               PROVE  disk'[tmp'[target[q]]] \in {Torn, text[q]}
    BY <2>2, <2>3
  <2>4. CASE target[q] # target[p]
    BY <1>a, <1>b, <1>10, <2>4, ReplaceConfKeeps
  <2>5. CASE target[q] = target[p]
    BY <1>a, <1>10, <2>5, ReplaceConfGives
  <2> QED BY <2>4, <2>5
<1>11. ASSUME NEW p \in Pings, WriteFails(p) PROVE TmpIsMineOrTorn'
  BY <1>a, <1>11 DEF WriteFails, Goto, Excuse, Resume, PingTypeOK
<1>12. ASSUME NEW p \in Pings, UnlinkTmp(p) PROVE TmpIsMineOrTorn'
  BY <1>a, <1>b, <1>12 DEF UnlinkTmp, Goto, Resume, PingTypeOK
<1> QED
  BY <1>0, <1>1, <1>2, <1>3, <1>4, <1>5, <1>6, <1>7, <1>8, <1>9, <1>10, <1>11, <1>12 DEF Next, Write

LEMMA MineIsKeptNext ==
    ASSUME PingInv, [Next]_vars
    PROVE  MineIsKept'
<1> USE DEF MineIsKept, Writing, AtRest, Conf
<1>a. PingTypeOK /\ MineIsKept
  BY DEF PingInv
<1>b. \A q \in Pings : pc[q] \in Writing => /\ target[q] \in Confs
                                          /\ path[target[q]] # None
                                          /\ text[q] # Torn
  BY AtFile
<1>0. CASE UNCHANGED vars
  BY <1>a, <1>0 DEF vars
<1>1. ASSUME NEW c \in Confs, Edit(c) PROVE MineIsKept'
  <2>1. c \in Files /\ UNCHANGED <<path, tmp, pc, target, text>>
    BY <1>1 DEF Edit
  <2>2. ASSUME NEW d \in Confs
        PROVE  /\ d # c /\ path[d] # None => disk'[path[d]] = disk[path[d]]
               /\ tmp[d] # None => disk'[tmp[d]] = disk[tmp[d]]
    BY <1>1, <2>1, EditKeeps
  <2>3. \A q \in Pings : q \notin late' /\ pc[q] \in Writing => q \notin late /\ target[q] # c
    BY <1>1 DEF Edit, Overtake
  <2> QED BY <1>a, <1>b, <2>1, <2>2, <2>3
<1>2. ASSUME NEW p \in Pings, ListAll(p) PROVE MineIsKept'
  BY <1>a, <1>2 DEF ListAll, Goto, Excuse, Resume, PingTypeOK
<1>3. ASSUME NEW p \in Pings, EndPing(p) PROVE MineIsKept'
  BY <1>a, <1>3 DEF EndPing, Goto, Excuse, Resume, PingTypeOK
<1>4. ASSUME NEW p \in Pings, Kill(p) PROVE MineIsKept'
  BY <1>a, <1>4 DEF Kill, Goto, Excuse, Resume, PingTypeOK
<1>5. ASSUME NEW p \in Pings, NEW s \in Servers, Probe(p, s) PROVE MineIsKept'
  BY <1>a, <1>5 DEF Probe, Goto, Excuse, Resume, PingTypeOK
<1>6. ASSUME NEW p \in Pings, NEW s \in Servers, LeaveUnchanged(p, s) PROVE MineIsKept'
  BY <1>a, <1>6 DEF LeaveUnchanged, Goto, Excuse, Resume, PingTypeOK
<1>7. ASSUME NEW p \in Pings, NEW s \in Servers, SetEnabled(p, s) PROVE MineIsKept'
  <2>1. PICK c \in Files : AimsAt(p, s, c)
    BY <1>7, SetEnabledAims, Zenon
  <2>2. pc[p] = "collecting" /\ UNCHANGED <<disk, path>>
    BY <1>7 DEF SetEnabled
  <2>3. /\ \A q \in Pings : q # p => /\ target'[q] = target[q] /\ pc'[q] = pc[q]
                                    /\ text'[q] = text[q]
    BY <1>a, <2>1, <2>2 DEF AimsAt, PingTypeOK
  <2>4. \A q \in Pings : q # p /\ q \notin late' => q \notin late
    BY <1>7 DEF SetEnabled
  <2>5. pc'[p] \in Writing =>
           /\ Conf(target'[p]) # Torn
           /\ Conf(target'[p]).mine = text'[p].mine
    BY <1>a, <2>1, <2>2, TornAssumption DEF AimsAt, PingTypeOK, Files
  <2> QED BY <1>a, <2>2, <2>3, <2>4, <2>5
<1>8. ASSUME NEW p \in Pings, OpenTmp(p) PROVE MineIsKept'
  <2>1. /\ pc[p] = "opening" /\ UNCHANGED <<path, target, text, late>>
        /\ pc' = [pc EXCEPT ![p] = "filling"]
        /\ \A c \in Confs : path[c] # None => disk'[path[c]] = disk[path[c]]
    BY <1>8, OpenTmpTears DEF OpenTmp
  <2> QED BY <1>a, <1>b, <2>1 DEF PingTypeOK
<1>9. ASSUME NEW p \in Pings, FillTmp(p) PROVE MineIsKept'
  <2> SUFFICES ASSUME NEW q \in Pings, pc'[q] \in Writing, q \notin late'
               PROVE  /\ disk'[path[target[q]]] # Torn
                      /\ disk'[path[target[q]]].mine = text[q].mine
    BY <1>9, FillTmpFills
  <2>1. pc[p] = "filling" /\ pc' = [pc EXCEPT ![p] = "replacing"]
    BY <1>9, FillTmpFills
  <2>2. pc[q] \in Writing
    BY <1>a, <2>1 DEF PingTypeOK
  <2>3. q \notin late
    BY <1>9, FillTmpFills DEF Overtake
  <2>4. /\ disk[path[target[q]]] # Torn
        /\ disk[path[target[q]]].mine = text[q].mine
    BY <1>a, <2>2, <2>3
  <2>5. CASE target[q] # target[p]
    BY <1>b, <1>9, <2>2, <2>4, <2>5, FillTmpKeeps
  <2>6. CASE target[q] = target[p]
    <3>1. q = p
      BY <1>9, <2>2, <2>6, FillTmpFills DEF Overtake
    <3>2. path[target[p]] \in Inodes /\ text[p] # Torn
      BY <1>a, <1>b, <2>2, <3>1 DEF PingTypeOK
    <3>3. disk'[path[target[p]]] \in {disk[path[target[p]]], text[p]}
      BY <1>9, <3>2, FillTmpGives
    <3> QED BY <2>4, <3>1, <3>2, <3>3
  <2> QED BY <2>5, <2>6
<1>10. ASSUME NEW p \in Pings, ReplaceConf(p) PROVE MineIsKept'
  <2>1. pc[p] = "replacing" /\ target[p] \in Confs
    BY <1>10, ReplaceConfMoves
  <2>2. \A q \in Pings : q # p => /\ target'[q] = target[q] /\ text'[q] = text[q]
                                 /\ pc'[q] = pc[q] /\ (q \in late => q \in late')
    BY <1>a, <1>10, ReplaceConfMoves DEF PingTypeOK, Overtake
  <2>3. pc'[p] \notin Writing
    BY <1>a, <1>10, ReplaceConfGives DEF PingTypeOK
  <2> SUFFICES ASSUME NEW q \in Pings, q # p, pc[q] \in Writing, q \notin late'
               PROVE  /\ disk'[path'[target[q]]] # Torn
                      /\ disk'[path'[target[q]]].mine = text[q].mine
    BY <2>2, <2>3
  <2>4. CASE target[q] # target[p]
    BY <1>a, <1>b, <1>10, <2>2, <2>4, ReplaceConfKeeps
  <2>5. CASE target[q] = target[p]
    <3>1. UNCHANGED <<disk, path>>
      BY <1>10, <2>2, <2>5, ReplaceConfMoves DEF Overtake
    <3> QED BY <1>a, <2>2, <3>1
  <2> QED BY <2>4, <2>5
<1>11. ASSUME NEW p \in Pings, WriteFails(p) PROVE MineIsKept'
  BY <1>a, <1>11 DEF WriteFails, Goto, Excuse, Resume, PingTypeOK
<1>12. ASSUME NEW p \in Pings, UnlinkTmp(p) PROVE MineIsKept'
  BY <1>a, <1>12 DEF UnlinkTmp, Goto, Excuse, Resume, PingTypeOK
<1> QED
  BY <1>0, <1>1, <1>2, <1>3, <1>4, <1>5, <1>6, <1>7, <1>8, <1>9, <1>10, <1>11, <1>12 DEF Next, Write

LEMMA PingInvNext == PingInv /\ [Next]_vars => PingInv'
BY TypeNext, ApartNext, HandlesNext, OwnContentNext, ReadableNext, AimedNext, ListedNext,
   OverlapNext, TmpIsMineNext, MineOrTornNext, MineIsKeptNext DEF PingInv

(* The invariant holds for any pings, files, sections and faults: what     *)
(* ini_server_config.py leaves in a directory, at each step of each ping.  *)
THEOREM PingsInvariant == Spec => []PingInv
BY PingInit, PingInvNext, PTL DEF Spec

-----------------------------------------------------------------------------
(* What it says of the files.                                              *)

(* A reader never finds a file half written unless two pings have been     *)
(* writing it at once, wherever any of them fails or is killed.            *)
THEOREM ReadableTheorem == Spec => []ConfsReadable
<1>1. PingInv => ConfsReadable
  BY DEF PingInv
<1> QED BY PingsInvariant, <1>1, PTL

(* A step changes what the user keeps in a file only as a replacement by a *)
(* ping that read the file before another hand wrote it, or in a file two  *)
(* pings have been writing at once.                                        *)
LEMMA EditsKeptStep ==
    ASSUME PingInv, [Next]_vars, NEW c \in Files,
           Conf(c) # Torn, Conf(c)' # Torn, Conf(c).mine = "edited"
    PROVE  \/ Conf(c)'.mine = "edited"
           \/ c \in clashed
           \/ \E p \in late : pc[p] = "replacing" /\ target[p] = c
<1> USE DEF Conf
<1>a. PingTypeOK /\ path[c] \in Inodes /\ path[c] # None /\ c \in Confs
  BY DEF PingInv, PingTypeOK, Files
<1>0. CASE UNCHANGED <<disk, path>>
  BY <1>0
<1>1. ASSUME NEW d \in Confs, Edit(d) PROVE Conf(c)'.mine = "edited"
  <2>1. CASE d = c
    <3>1. PICK flags \in [In(d) -> {"True", "False"}] :
              disk' = [disk EXCEPT ![path[d]] = [enabled |-> flags, mine |-> "edited"]]
      BY <1>1 DEF Edit
    <3>2. disk'[path[c]] = [enabled |-> flags, mine |-> "edited"] /\ UNCHANGED path
      BY <1>a, <1>1, <2>1, <3>1 DEF PingTypeOK, Edit
    <3> QED BY <3>2
  <2>2. CASE d # c
    <3>1. d \in Files /\ UNCHANGED path
      BY <1>1 DEF Edit
    <3>2. disk'[path[c]] = disk[path[c]]
      BY <1>a, <1>1, <2>2, <3>1, EditKeeps
    <3> QED BY <3>1, <3>2
  <2> QED BY <2>1, <2>2
<1>2. ASSUME NEW p \in Pings, OpenTmp(p) PROVE Conf(c)'.mine = "edited"
  <2>1. UNCHANGED path /\ disk'[path[c]] = disk[path[c]]
    BY <1>a, <1>2, OpenTmpTears
  <2> QED BY <2>1
<1>3. ASSUME NEW p \in Pings, FillTmp(p), c \notin clashed
      PROVE  Conf(c)'.mine = "edited"
  <2>1. fd[p] \in Inodes /\ UNCHANGED path /\ disk' = [disk EXCEPT ![fd[p]] = text[p]]
    BY <1>3, FillTmpFills
  <2>2. fd[p] # path[c]
    BY <1>a, <1>3 DEF PingInv, Handles
  <2>3. disk'[path[c]] = disk[path[c]]
    BY <1>a, <2>1, <2>2 DEF PingTypeOK
  <2> QED BY <2>1, <2>3
<1>4. ASSUME NEW p \in Pings, ReplaceConf(p), c \notin clashed,
             ~(target[p] = c /\ p \in late)
      PROVE  Conf(c)'.mine = "edited"
  <2>1. CASE target[p] # c
    <3>1. path'[c] = path[c] /\ disk'[path[c]] = disk[path[c]]
      BY <1>a, <1>4, <2>1, ReplaceConfKeeps
    <3> QED BY <3>1
  <2>2. CASE target[p] = c /\ p \notin late
    <3>1. pc[p] = "replacing"
      BY <1>4, ReplaceConfMoves
    <3>2. text[p].mine = "edited"
      BY <2>2, <3>1 DEF PingInv, MineIsKept, Writing
    <3>3. tmp[c] # None => disk[tmp[c]] = text[p]
      BY <1>4, <2>2, <3>1 DEF PingInv, TmpIsMine
    <3>4. CASE tmp[c] # None /\ path'[c] = tmp[c] /\ disk'[tmp[c]] = disk[tmp[c]]
      BY <3>2, <3>3, <3>4
    <3>5. CASE UNCHANGED <<disk, path>>
      BY <3>5
    <3> QED BY <1>4, <2>2, <3>4, <3>5, ReplaceConfGives
  <2> QED BY <1>4, <2>1, <2>2
<1>5. ASSUME NEW p \in Pings, ReplaceConf(p) PROVE pc[p] = "replacing"
  BY <1>5, ReplaceConfMoves
<1> QED BY <1>0, <1>1, <1>2, <1>3, <1>4, <1>5 DEF Next, Write, vars, ListAll, EndPing, Kill,
        Probe, LeaveUnchanged, SetEnabled, WriteFails, UnlinkTmp

(* So what the GUI saved stays, but for those two.                         *)
THEOREM EditsKeptTheorem == Spec => EditsKept
<1>1. PingInv /\ [Next]_vars =>
        [\A c \in Files :
           Conf(c) # Torn /\ Conf(c)' # Torn /\ Conf(c).mine = "edited" =>
              \/ Conf(c)'.mine = "edited"
              \/ c \in clashed
              \/ \E p \in late : pc[p] = "replacing" /\ target[p] = c]_vars
  BY EditsKeptStep
<1> QED BY <1>1, PingsInvariant, PTL DEF Spec, EditsKept

-----------------------------------------------------------------------------
(* The result a ping leaves.  Two things the code relies on: every file    *)
(* has a name of its own, and one section.                                 *)

NamesApart == \A c, d \in Confs : NameOf[c] = NameOf[d] => c = d

OneSection == \A s, t \in Servers : ConfOf[s] = ConfOf[t] => s = t

LEMMA SettledInit == Init => HandledIsKnown /\ TextSays /\ Progress
BY DEF Init, HandledIsKnown, TextSays, Progress, Writing

LEMMA HandledNext ==
    ASSUME SettledInv, [Next]_vars
    PROVE  HandledIsKnown'
<1> USE DEF HandledIsKnown, AtRest
<1>a. PingTypeOK /\ HandledIsKnown
  BY DEF SettledInv, PingInv
<1> HIDE DEF SettledInv
<1>0. CASE UNCHANGED vars
  BY <1>a, <1>0 DEF vars
<1>1. ASSUME NEW c \in Confs, Edit(c) PROVE HandledIsKnown'
  BY <1>a, <1>1 DEF Edit, Goto, Resume, Handle, Completed, PingTypeOK
<1>2. ASSUME NEW p \in Pings, ListAll(p) PROVE HandledIsKnown'
  BY <1>a, <1>2 DEF ListAll, Goto, Resume, Handle, Completed, PingTypeOK
<1>3. ASSUME NEW p \in Pings, EndPing(p) PROVE HandledIsKnown'
  BY <1>a, <1>3 DEF EndPing, Goto, Resume, Handle, Completed, PingTypeOK
<1>4. ASSUME NEW p \in Pings, Kill(p) PROVE HandledIsKnown'
  BY <1>a, <1>4 DEF Kill, Goto, PingTypeOK
<1>5. ASSUME NEW p \in Pings, NEW s \in Servers, Probe(p, s) PROVE HandledIsKnown'
  BY <1>a, <1>5 DEF Probe, Goto, Resume, Handle, Completed, PingTypeOK
<1>6. ASSUME NEW p \in Pings, NEW s \in Servers, LeaveUnchanged(p, s) PROVE HandledIsKnown'
  BY <1>a, <1>6 DEF LeaveUnchanged, Goto, Resume, Handle, Completed, PingTypeOK
<1>7. ASSUME NEW p \in Pings, NEW s \in Servers, SetEnabled(p, s) PROVE HandledIsKnown'
  <2>1. PICK c \in Files : AimsAt(p, s, c)
    BY <1>7, SetEnabledAims, Zenon DEF SettledInv
  <2>2. /\ pc[p] = "collecting" /\ UNCHANGED <<listed, verdict>>
        /\ handled' = [handled EXCEPT ![p] = @ \cup {s}]
        /\ verdict[p][s] \in {"True", "False"}
    BY <1>7 DEF SetEnabled, Handle, Completed
  <2>3. \A q \in Pings : pc'[q] = "done" => pc[q] = "done"
    BY <1>a, <2>1 DEF AimsAt, PingTypeOK
  <2> QED BY <1>a, <2>2, <2>3 DEF PingTypeOK
<1>8. ASSUME NEW p \in Pings, OpenTmp(p) PROVE HandledIsKnown'
  BY <1>a, <1>8 DEF OpenTmp, Goto, Resume, Handle, Completed, PingTypeOK
<1>9. ASSUME NEW p \in Pings, FillTmp(p) PROVE HandledIsKnown'
  BY <1>a, <1>9 DEF FillTmp, Goto, Resume, Handle, Completed, PingTypeOK
<1>10. ASSUME NEW p \in Pings, ReplaceConf(p) PROVE HandledIsKnown'
  BY <1>a, <1>10 DEF ReplaceConf, Goto, Resume, Handle, Completed, PingTypeOK
<1>11. ASSUME NEW p \in Pings, WriteFails(p) PROVE HandledIsKnown'
  BY <1>a, <1>11 DEF WriteFails, Goto, Resume, Handle, Completed, PingTypeOK
<1>12. ASSUME NEW p \in Pings, UnlinkTmp(p) PROVE HandledIsKnown'
  BY <1>a, <1>12 DEF UnlinkTmp, Goto, Resume, Handle, Completed, PingTypeOK
<1> QED
  BY <1>0, <1>1, <1>2, <1>3, <1>4, <1>5, <1>6, <1>7, <1>8, <1>9, <1>10, <1>11, <1>12 DEF Next, Write

(* set_enabled finds the file the server is in.                            *)
LEMMA FileOfServer ==
    ASSUME NamesApart, PingInv, NEW p \in Pings, NEW s \in Servers, SetEnabled(p, s)
    PROVE  PathForName(NameOf[ConfOf[s]]) = ConfOf[s]
<1>1. ConfOf[s] \in Files
  BY DEF SetEnabled, Completed, PingInv, ListedIsThere
<1> QED BY <1>1, PathForNameIs DEF NamesApart, Files

LEMMA TextSaysNext ==
    ASSUME NamesApart, OneSection, SettledInv, [Next]_vars
    PROVE  TextSays'
<1> USE DEF TextSays, Writing, AtRest
<1>a. PingInv /\ PingTypeOK /\ TextSays
  BY DEF SettledInv, PingInv
<1>0. CASE UNCHANGED vars
  BY <1>a, <1>0 DEF vars
<1>1. ASSUME NEW c \in Confs, Edit(c) PROVE TextSays'
  BY <1>a, <1>1 DEF Edit, Goto, Resume, Handle, PingTypeOK
<1>2. ASSUME NEW p \in Pings, ListAll(p) PROVE TextSays'
  BY <1>a, <1>2 DEF ListAll, Goto, Resume, Handle, PingTypeOK
<1>3. ASSUME NEW p \in Pings, EndPing(p) PROVE TextSays'
  BY <1>a, <1>3 DEF EndPing, Goto, Resume, Handle, PingTypeOK
<1>4. ASSUME NEW p \in Pings, Kill(p) PROVE TextSays'
  BY <1>a, <1>4 DEF Kill, Goto, Resume, Handle, PingTypeOK
<1>5. ASSUME NEW p \in Pings, NEW s \in Servers, Probe(p, s) PROVE TextSays'
  <2>1. \A q \in Pings, t \in Servers : t \in handled[q] => verdict'[q][t] = verdict[q][t]
    <3>1. HandledIsKnown /\ verdict[p][s] = "unknown"
      BY <1>5 DEF SettledInv, Probe
    <3>2. \A q \in Pings, t \in Servers :
             verdict'[q][t] # verdict[q][t] => q = p /\ t = s
      BY <1>a, <1>5 DEF Probe, PingTypeOK
    <3> QED BY <3>1, <3>2 DEF HandledIsKnown
  <2> QED BY <1>a, <1>5, <2>1 DEF Probe
<1>6. ASSUME NEW p \in Pings, NEW s \in Servers, LeaveUnchanged(p, s) PROVE TextSays'
  BY <1>a, <1>6 DEF LeaveUnchanged, Goto, Resume, Handle, PingTypeOK
<1>7. ASSUME NEW p \in Pings, NEW s \in Servers, SetEnabled(p, s) PROVE TextSays'
  <2>1. PICK c \in Files : AimsAt(p, s, c)
    BY <1>a, <1>7, SetEnabledAims, Zenon
  <2>2. /\ pc[p] = "collecting" /\ UNCHANGED verdict
        /\ handled' = [handled EXCEPT ![p] = @ \cup {s}]
    BY <1>7 DEF SetEnabled, Handle
  <2>3. c = ConfOf[s] /\ c \in Confs
    BY <1>a, <1>7, <2>1, FileOfServer DEF AimsAt, Files
  <2>4. \A q \in Pings : q # p => /\ target'[q] = target[q] /\ pc'[q] = pc[q]
                                 /\ text'[q] = text[q] /\ handled'[q] = handled[q]
    BY <1>a, <2>1, <2>2 DEF AimsAt, PingTypeOK
  <2>5. ASSUME NEW t \in Servers, pc'[p] \in Writing, target'[p] = ConfOf[t]
        PROVE  /\ t \in handled'[p]
               /\ text'[p].enabled[t] \in {"missing", verdict[p][t]}
    <3>1. target'[p] = c /\ \A r \in In(c) :
             text'[p].enabled[r] \in {"missing", verdict[p][s]}
      BY <1>a, <2>1, <2>2, <2>5 DEF AimsAt, PingTypeOK
    <3>2. t = s
      BY <2>3, <2>5, <3>1 DEF OneSection
    <3>3. s \in In(c) /\ s \in handled'[p]
      BY <1>a, <2>2, <2>3 DEF In, PingTypeOK
    <3> QED BY <3>1, <3>2, <3>3
  <2> QED BY <1>a, <2>2, <2>4, <2>5
<1>8. ASSUME NEW p \in Pings, OpenTmp(p) PROVE TextSays'
  BY <1>a, <1>8, OpenTmpTears DEF PingTypeOK
<1>9. ASSUME NEW p \in Pings, FillTmp(p) PROVE TextSays'
  BY <1>a, <1>9, FillTmpFills DEF PingTypeOK
<1>10. ASSUME NEW p \in Pings, ReplaceConf(p) PROVE TextSays'
  <2>1. \A q \in Pings : q # p => /\ target'[q] = target[q] /\ text'[q] = text[q]
                                 /\ pc'[q] = pc[q]
    BY <1>a, <1>10, ReplaceConfMoves DEF PingTypeOK
  <2>2. pc'[p] \in {"collecting", "unlinking"} /\ UNCHANGED <<verdict, handled>>
    BY <1>a, <1>10, ReplaceConfMoves DEF PingTypeOK
  <2> QED BY <1>a, <2>1, <2>2
<1>11. ASSUME NEW p \in Pings, WriteFails(p) PROVE TextSays'
  BY <1>a, <1>11 DEF WriteFails, Goto, Resume, Handle, PingTypeOK
<1>12. ASSUME NEW p \in Pings, UnlinkTmp(p) PROVE TextSays'
  BY <1>a, <1>12 DEF UnlinkTmp, Goto, Resume, Handle, PingTypeOK
<1> QED
  BY <1>0, <1>1, <1>2, <1>3, <1>4, <1>5, <1>6, <1>7, <1>8, <1>9, <1>10, <1>11, <1>12 DEF Next, Write

LEMMA ProgressNext ==
    ASSUME NamesApart, OneSection, SettledInv, [Next]_vars
    PROVE  Progress'
<1> USE DEF Progress, SaysSo, Writing, AtRest, Conf
<1>a. PingInv /\ PingTypeOK /\ Progress /\ HandledIsKnown
  BY DEF SettledInv, PingInv
<1>b. ASSUME NEW q \in Pings, NEW t \in Servers, listed[q][t] # "unlisted"
      PROVE  /\ ConfOf[t] \in Files /\ ConfOf[t] \in Confs
             /\ path[ConfOf[t]] \in Inodes /\ path[ConfOf[t]] # None
  BY <1>a, <1>b DEF PingInv, ListedIsThere, Files, PingTypeOK
<1>c. ASSUME NEW q \in Pings, NEW t \in Servers,
             listed[q][t] # "unlisted", disk[path[ConfOf[t]]] # Torn
      PROVE  disk[path[ConfOf[t]]].enabled[t] \in Flags
  <2>1. disk[path[ConfOf[t]]] \in Content(ConfOf[t])
    BY <1>a, <1>b, <1>c DEF PingInv, OwnContent
  <2>2. t \in In(ConfOf[t])
    BY DEF In
  <2> QED BY <2>1, <2>2 DEF Content
<1>0. CASE UNCHANGED vars
  BY <1>a, <1>0 DEF vars
<1>1. ASSUME NEW c \in Confs, Edit(c) PROVE Progress'
  <2> SUFFICES ASSUME NEW q \in Pings, NEW t \in Servers,
                      listed[q][t] # "unlisted", ConfOf[t] \notin excused'[q],
                      disk'[path[ConfOf[t]]] # Torn
               PROVE  SaysSo(q, t)'
    BY <1>1 DEF Edit
  <2>1. c \in Files /\ UNCHANGED <<path, pc, target, listed, verdict, handled>>
    BY <1>1 DEF Edit
  <2>2. excused'[q] = excused[q] \cup {c}
    BY <1>a, <1>1, <2>1, EditKeeps
  <2>3. disk'[path[ConfOf[t]]] = disk[path[ConfOf[t]]]
    BY <1>a, <1>b, <1>1, <2>1, <2>2, EditKeeps
  <2> QED BY <1>a, <2>1, <2>2, <2>3
<1>2. ASSUME NEW p \in Pings, ListAll(p) PROVE Progress'
  <2> SUFFICES ASSUME NEW q \in Pings, NEW t \in Servers,
                      listed'[q][t] # "unlisted", ConfOf[t] \notin excused'[q],
                      disk[path[ConfOf[t]]] # Torn
               PROVE  SaysSo(q, t)'
    BY <1>2 DEF ListAll
  <2>1. CASE q = p
    <3>1. handled'[p] = {} /\ UNCHANGED <<disk, path>>
      BY <1>a, <1>2 DEF ListAll, PingTypeOK
    <3>2. listed'[p][t] = IF ConfOf[t] \notin Files \/ Conf(ConfOf[t]) = Torn
                          THEN "unlisted"
                          ELSE IF Conf(ConfOf[t]).enabled[t] = "True" THEN "True"
                          ELSE "False"
      BY <1>a, <1>2 DEF ListAll, PingTypeOK
    <3> QED BY <2>1, <3>1, <3>2
  <2>2. CASE q # p
    BY <1>a, <1>2, <2>2 DEF ListAll, Goto, PingTypeOK
  <2> QED BY <2>1, <2>2
<1>3. ASSUME NEW p \in Pings, EndPing(p) PROVE Progress'
  <2>1. /\ UNCHANGED <<disk, path, listed, verdict, handled, excused, target>>
        /\ pc[p] = "collecting"
        /\ \A q \in Pings : q # p => pc'[q] = pc[q]
    BY <1>a, <1>3 DEF EndPing, Goto, PingTypeOK
  <2> QED BY <1>a, <2>1
<1>4. ASSUME NEW p \in Pings, Kill(p) PROVE Progress'
  <2>1. /\ \A t \in Servers : listed'[p][t] = "unlisted"
        /\ \A q \in Pings : q # p => /\ listed'[q] = listed[q] /\ verdict'[q] = verdict[q]
                                    /\ handled'[q] = handled[q] /\ pc'[q] = pc[q]
                                    /\ target'[q] = target[q] /\ excused'[q] = excused[q]
        /\ UNCHANGED <<disk, path>>
    BY <1>a, <1>4 DEF Kill, Goto, PingTypeOK
  <2> QED BY <1>a, <2>1
<1>5. ASSUME NEW p \in Pings, NEW s \in Servers, Probe(p, s) PROVE Progress'
  <2>1. /\ \A q \in Pings, t \in Servers : t \in handled[q] => verdict'[q][t] = verdict[q][t]
        /\ UNCHANGED <<disk, path, pc, listed, handled, target, excused>>
    <3>1. HandledIsKnown /\ verdict[p][s] = "unknown"
      BY <1>a, <1>5 DEF Probe
    <3>2. \A q \in Pings, t \in Servers :
             verdict'[q][t] # verdict[q][t] => q = p /\ t = s
      BY <1>a, <1>5 DEF Probe, PingTypeOK
    <3> QED BY <1>5, <3>1, <3>2 DEF HandledIsKnown, Probe
  <2> QED BY <1>a, <2>1
<1>6. ASSUME NEW p \in Pings, NEW s \in Servers, LeaveUnchanged(p, s) PROVE Progress'
  <2>1. /\ listed[p][s] = verdict[p][s] /\ verdict[p][s] \in {"True", "False"}
        /\ \A q \in Pings : handled'[q] = IF q = p THEN handled[p] \cup {s} ELSE handled[q]
        /\ s \notin handled[p]
        /\ UNCHANGED <<disk, path, pc, listed, verdict, target, excused>>
    BY <1>a, <1>6 DEF LeaveUnchanged, Handle, Completed, PingTypeOK
  <2> SUFFICES ASSUME NEW q \in Pings, NEW t \in Servers,
                      listed[q][t] # "unlisted", ConfOf[t] \notin excused[q],
                      disk[path[ConfOf[t]]] # Torn
               PROVE  SaysSo(q, t)'
    BY <2>1
  <2>2. SaysSo(q, t)
    BY <1>a
  <2>3. CASE q = p /\ t = s
    <3>1. disk[path[ConfOf[t]]].enabled[t] \in Flags
      BY <1>c
    <3> QED BY <2>1, <2>2, <2>3, <3>1 DEF Flags
  <2>4. CASE ~(q = p /\ t = s)
    BY <2>1, <2>2, <2>4
  <2> QED BY <2>3, <2>4
<1>7. ASSUME NEW p \in Pings, NEW s \in Servers, SetEnabled(p, s) PROVE Progress'
  <2>1. PICK c \in Files : AimsAt(p, s, c)
    BY <1>a, <1>7, SetEnabledAims, Zenon
  <2>2. /\ pc[p] = "collecting" /\ UNCHANGED <<disk, path, listed, verdict>>
        /\ \A q \in Pings : handled'[q] = IF q = p THEN handled[p] \cup {s} ELSE handled[q]
        /\ s \notin handled[p] /\ verdict[p][s] \in {"True", "False"}
    BY <1>a, <1>7 DEF SetEnabled, Handle, Completed, PingTypeOK
  <2>3. c = ConfOf[s] /\ c \in Confs
    BY <1>a, <1>7, <2>1, FileOfServer DEF AimsAt, Files
  <2>4. \A q \in Pings : q # p => target'[q] = target[q] /\ pc'[q] = pc[q]
    BY <1>a, <2>1, <2>2 DEF AimsAt, PingTypeOK
  <2>5. \A q \in Pings : excused[q] \subseteq excused'[q]
    <3>1. excused' = excused \/ Excuse({p}, c)
      BY <2>1 DEF AimsAt
    <3> QED BY ONLY <3>1 DEF Excuse
  <2> SUFFICES ASSUME NEW q \in Pings, NEW t \in Servers,
                      listed[q][t] # "unlisted", ConfOf[t] \notin excused'[q],
                      disk[path[ConfOf[t]]] # Torn
               PROVE  SaysSo(q, t)'
    BY <2>2
  <2>6. SaysSo(q, t)
    BY <1>a, <2>5
  <2>7. CASE q # p
    BY <2>2, <2>4, <2>6, <2>7
  <2>8. CASE q = p /\ t # s
    BY <2>2, <2>6, <2>8
  <2>9. CASE q = p /\ t = s
    <3>1. s \in handled'[p]
      BY <2>2
    <3>2. CASE target' = [target EXCEPT ![p] = c] /\ pc' = [pc EXCEPT ![p] = "opening"]
      BY <1>a, <2>3, <2>9, <3>1, <3>2 DEF PingTypeOK
    <3>3. CASE Rewritten(Conf(c), verdict[p][s]) = Conf(c)
      <4>1. Conf(c) \in Content(c)
        BY <1>a, <1>b, <2>3, <2>9 DEF PingInv, OwnContent
      <4>2. Conf(c).enabled[s] \in {"missing", verdict[p][s]}
        BY <2>2, <2>3, <3>3, <4>1, RewrittenIs DEF In
      <4> QED BY <2>2, <2>3, <2>9, <3>1, <4>2
    <3>4. CASE Excuse({p}, c)
      <4>1. c \in excused'[p]
        BY <3>4 DEF Excuse
      <4> QED BY <2>3, <2>9, <4>1
    <3> QED BY <2>1, <3>2, <3>3, <3>4 DEF AimsAt
  <2> QED BY <2>7, <2>8, <2>9
<1>8. ASSUME NEW p \in Pings, OpenTmp(p) PROVE Progress'
  <2>1. /\ UNCHANGED <<path, listed, verdict, handled, target, excused>>
        /\ pc[p] = "opening"
        /\ \A q \in Pings : pc'[q] = IF q = p THEN "filling" ELSE pc[q]
    BY <1>a, <1>8, OpenTmpTears DEF PingTypeOK
  <2>2. ASSUME NEW q \in Pings, NEW t \in Servers, listed[q][t] # "unlisted"
        PROVE  disk'[path[ConfOf[t]]] = disk[path[ConfOf[t]]]
    BY <1>a, <1>b, <1>8, <2>2, OpenTmpTears
  <2> QED BY <1>a, <2>1, <2>2
<1>9. ASSUME NEW p \in Pings, FillTmp(p) PROVE Progress'
  <2>1. /\ UNCHANGED <<path, listed, verdict, handled, target>>
        /\ pc[p] = "filling" /\ target[p] \in Confs
        /\ \A q \in Pings : pc'[q] = IF q = p THEN "replacing" ELSE pc[q]
    BY <1>a, <1>9, FillTmpFills DEF PingTypeOK
  <2>2. \A q \in Pings : excused'[q] = IF q = p THEN excused[q] ELSE excused[q] \cup {target[p]}
    <3>1. excused' = [q \in Pings |-> IF q # p THEN excused[q] \cup {target[p]}
                                     ELSE excused[q]]
      BY <1>a, <1>9, FillTmpFills, Zenon
    <3> QED BY ONLY <3>1
  <2> SUFFICES ASSUME NEW q \in Pings, NEW t \in Servers,
                      listed[q][t] # "unlisted", ConfOf[t] \notin excused'[q],
                      disk'[path[ConfOf[t]]] # Torn
               PROVE  SaysSo(q, t)'
    BY <2>1
  <2>3. CASE ConfOf[t] # target[p]
    <3>1. disk'[path[ConfOf[t]]] = disk[path[ConfOf[t]]]
      BY <1>a, <1>b, <1>9, <2>3, FillTmpKeeps
    <3>2. SaysSo(q, t)
      BY <1>a, <2>2, <3>1
    <3> QED BY <2>1, <2>3, <3>1, <3>2
  <2>4. CASE ConfOf[t] = target[p]
    <3>1. q = p
      BY <2>2, <2>4
    <3>2. t \in handled[p]
      BY <2>1, <2>4 DEF SettledInv, TextSays
    <3> QED BY <2>1, <2>4, <3>1, <3>2
  <2> QED BY <2>3, <2>4
<1>10. ASSUME NEW p \in Pings, ReplaceConf(p) PROVE Progress'
  <2>1. /\ UNCHANGED <<listed, verdict, handled>>
        /\ pc[p] = "replacing" /\ target[p] \in Confs
        /\ \A q \in Pings : q # p => /\ target'[q] = target[q] /\ pc'[q] = pc[q]
    BY <1>a, <1>10, ReplaceConfMoves DEF PingTypeOK
  <2>5. \A q \in Pings : excused[q] \subseteq excused'[q]
    BY ONLY <1>a, <1>10, ReplaceConfMoves
  <2> SUFFICES ASSUME NEW q \in Pings, NEW t \in Servers,
                      listed[q][t] # "unlisted", ConfOf[t] \notin excused'[q],
                      disk'[path'[ConfOf[t]]] # Torn
               PROVE  SaysSo(q, t)'
    BY <2>1
  <2>2. CASE ConfOf[t] # target[p]
    <3>1. path'[ConfOf[t]] = path[ConfOf[t]] /\ disk'[path[ConfOf[t]]] = disk[path[ConfOf[t]]]
      BY <1>a, <1>b, <1>10, <2>2, ReplaceConfKeeps
    <3>2. SaysSo(q, t)
      BY <1>a, <2>5, <3>1
    <3> QED BY <2>1, <2>2, <3>1, <3>2
  <2>3. CASE ConfOf[t] = target[p] /\ q # p
    <3>1. UNCHANGED <<disk, path>>
      BY <1>a, <1>10, <2>3, ReplaceConfMoves
    <3> QED BY <1>a, <2>1, <2>3, <2>5, <3>1
  <2>4. CASE ConfOf[t] = target[p] /\ q = p
    <3>1. /\ t \in handled[p]
          /\ text[p].enabled[t] \in {"missing", verdict[p][t]}
      BY <2>1, <2>4 DEF SettledInv, TextSays
    <3>2. tmp[target[p]] # None => disk[tmp[target[p]]] \in {Torn, text[p]}
      BY <1>a, <2>1, <2>4, <2>5 DEF PingInv, TmpIsMineOrTorn
    <3>3. /\ tmp[target[p]] # None
          /\ path'[target[p]] = tmp[target[p]]
          /\ disk'[tmp[target[p]]] = disk[tmp[target[p]]]
      BY <1>a, <1>10, <2>4, ReplaceConfGives
    <3> QED BY <2>1, <2>4, <3>1, <3>2, <3>3
  <2> QED BY <2>2, <2>3, <2>4
<1>11. ASSUME NEW p \in Pings, WriteFails(p) PROVE Progress'
  <2>1. /\ UNCHANGED <<disk, path, listed, verdict, handled, target>>
        /\ \A q \in Pings : q # p => pc'[q] = pc[q] /\ excused'[q] = excused[q]
        /\ excused'[p] = excused[p] \cup {target[p]}
    BY <1>a, <1>11 DEF WriteFails, Goto, Excuse, PingTypeOK
  <2> QED BY <1>a, <2>1
<1>12. ASSUME NEW p \in Pings, UnlinkTmp(p) PROVE Progress'
  <2>1. /\ UNCHANGED <<disk, path, listed, verdict, handled, excused>>
        /\ pc[p] = "unlinking"
        /\ \A q \in Pings : q # p => pc'[q] = pc[q] /\ target'[q] = target[q]
    BY <1>a, <1>12 DEF UnlinkTmp, Goto, Resume, PingTypeOK
  <2> QED BY <1>a, <2>1
<1> QED
  BY <1>0, <1>1, <1>2, <1>3, <1>4, <1>5, <1>6, <1>7, <1>8, <1>9, <1>10, <1>11, <1>12 DEF Next, Write

(* Where every file has a name of its own and one section, a ping that     *)
(* ends well leaves in each file the result of its probe, unless another   *)
(* hand changed the file meanwhile or the write failed.                    *)
THEOREM SettledTheorem ==
    ASSUME NamesApart, OneSection
    PROVE  Spec => []Settled
<1>1. Init => SettledInv
  BY PingInit, SettledInit DEF SettledInv
<1>2. SettledInv /\ [Next]_vars => SettledInv'
  BY PingInvNext, HandledNext, TextSaysNext, ProgressNext DEF SettledInv
<1>3. SettledInv => Settled
  <2> SUFFICES ASSUME SettledInv, NEW p \in Pings, NEW s \in Servers,
                      pc[p] = "done", listed[p][s] # "unlisted",
                      ConfOf[s] \notin excused[p], Conf(ConfOf[s]) # Torn
               PROVE  Conf(ConfOf[s]).enabled[s] \in {"missing", verdict[p][s]}
    BY DEF Settled
  <2>1. s \in handled[p]
    BY DEF SettledInv, HandledIsKnown
  <2>2. SaysSo(p, s)
    BY DEF SettledInv, Progress
  <2> QED BY <2>1, <2>2 DEF SaysSo, Writing
<1> QED BY <1>1, <1>2, <1>3, PTL DEF Spec
==============================================================================
