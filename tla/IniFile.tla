------------------------------- MODULE IniFile -------------------------------
(***************************************************************************)
(* inifile.cpp: a configuration file, read into sections, edited and       *)
(* written back.  A file is a sequence of lines, a line a sequence of      *)
(* characters, the Words among them runs of any but the four that mean     *)
(* something; blanks around lines, keys and values, which load trims, are  *)
(* left out.  A comment is a sequence of lines: the text between two \n.   *)
(*                                                                         *)
(* One action is one line read or one item rendered, a step on the file,   *)
(* or one call of another method.  An object is used by one thread.        *)
(***************************************************************************)
EXTENDS Integers, Sequences

CONSTANTS
  Words,
  Files,       (* what the file may hold at first                          *)
  Names, Keys, Values, Comments,   (* the arguments of the setters         *)
  FlagLists,   (* the lists of comment flags setCommentFlags is given      *)
  None,        (* no section, no saved state                               *)
  MaxCalls     (* bound: calls in a behaviour                              *)

FlagChar == {"#", ";"}
Char == Words \cup FlagChar \cup {"[", "]", "="}
Text == Seq(Char)

ASSUME IniAssumption ==
  /\ Files \subseteq Seq(Text)
  /\ Names \cup Keys \cup Values \cup Comments \subseteq Text
  /\ FlagLists \subseteq Seq(FlagChar) \ {<<>>}
  /\ None \notin Text
  /\ MaxCalls \in Nat

VARIABLES
  disk,        (* the lines of the file                                    *)
  sections_,   (* comment and items of each section; <<>> is the default   *)
  flags_,
  fname_,      (* has a load given the object a file name?                 *)
  pc,          (* between calls, inside load or saveas, or "gone"          *)
  at,          (* the line of load, the item of saveas                     *)
  section,     (* the section load adds to, or saveas writes               *)
  comment,     (* load: the comment that waits for its item                *)
  left, data,  (* saveas: the sections to come, and the text so far        *)
  ret,         (* what the last load returned                              *)
  calls,
  original,    (* history: the file as the last load found it              *)
  edited,      (* history: set since that load; "spoilt": to what load     *)
               (* cannot read                                              *)
  saved        (* history: what the file was written from, if unspoilt     *)
objectVars  == <<sections_, flags_, fname_>>
loopVars    == <<at, section, comment, left, data>>
historyVars == <<original, edited, saved>>
vars == <<disk, objectVars, pc, loopVars, ret, calls, historyVars>>

-----------------------------------------------------------------------------
(* Lines *)

Flags(flags) == {flags[i] : i \in DOMAIN flags}

(* The first place of a character of S, one past the end if there is none. *)
First(s, S) ==
  CHOOSE i \in 1 .. Len(s) + 1 : /\ i <= Len(s) => s[i] \in S
                                 /\ \A j \in 1 .. i - 1 : s[j] \notin S

Before(s, S) == SubSeq(s, 1, First(s, S) - 1)
After(s, S)  == SubSeq(s, First(s, S) + 1, Len(s))
Free(s, S)   == \A i \in DOMAIN s : s[i] \notin S

isComment(line) == line # <<>> /\ line[1] \in Flags(flags_)

(* Mutant: only the first flag ends a line. *)
CodeOfFirstFlag(line) == IF isComment(line) THEN line ELSE Before(line, {flags_[1]})

(* The line without the comment behind it: it is cut at each of the flags. *)
Code(line) == IF isComment(line) THEN line ELSE Before(line, Flags(flags_))

(* comment += the rest, with nothing in between. *)
Behind(line) == SubSeq(line, Len(Code(line)) + 1, Len(line))

(* Mutant: what is behind a line replaces the comment in front of it. *)
JoinedInPlace(c, text) == IF text = <<>> THEN c ELSE <<text>>

Joined(c, text) ==
  IF text = <<>> THEN c
  ELSE IF c = <<>> THEN <<text>>
  ELSE [c EXCEPT ![Len(c)] = @ \o text]

NewSection(c) == [comment |-> c, items |-> <<>>]

(* Mutant: a new section is not put into the map. *)
WithKnown(s, sect) == [t \in DOMAIN sections_ |-> IF t = s THEN sect ELSE sections_[t]]

With(s, sect) == [t \in DOMAIN sections_ \cup {s} |-> IF t = s THEN sect ELSE sections_[t]]

-----------------------------------------------------------------------------
DefaultFlags == <<"#", ";">>
NoSections == [s \in {} |-> NewSection(<<>>)]

Init ==
  /\ disk \in Files
  /\ sections_ = NoSections /\ flags_ = DefaultFlags /\ fname_ = FALSE
  /\ pc = "ready" /\ at = 1 /\ section = None /\ comment = <<>> /\ left = {} /\ data = <<>>
  /\ ret = 0 /\ calls = 0
  /\ original = <<>> /\ edited = "yes" /\ saved = None

(* The variables of load and saveas go when it returns. *)
Returned == at' = 1 /\ section' = None /\ comment' = <<>> /\ left' = {} /\ data' = <<>>

Call == pc = "ready" /\ calls < MaxCalls /\ calls' = calls + 1

(* load: the object forgets what it held, even if the open then fails. *)
Load ==
  /\ Call
  /\ fname_' = TRUE /\ original' = disk /\ edited' = "no"
  /\ at' = 1 /\ comment' = <<>>
  /\ \/ /\ sections_' = [s \in {<<>>} |-> NewSection(<<>>)]
        /\ section' = <<>> /\ pc' = "load" /\ UNCHANGED ret
     \/ /\ sections_' = NoSections
        /\ section' = None /\ ret' = -1 /\ UNCHANGED pc
  /\ UNCHANGED <<disk, flags_, left, data, saved>>

IsHeader(line) == Code(line) # <<>> /\ Code(line)[1] = "["
HeaderEnd(line) == First(Code(line), {"]"})
HeaderName(line) == SubSeq(Code(line), 2, HeaderEnd(line) - 1)

IsItem(line) == Code(line) # <<>> /\ ~IsHeader(line) /\ ~isComment(line)
Parsed(line) == First(Code(line), {"="}) <= Len(Code(line))

Pending(line) == Joined(comment, Behind(line))

Advance ==
  /\ at' = at + 1
  /\ UNCHANGED <<disk, flags_, fname_, pc, left, data, ret, calls, historyVars>>

Stop == Returned /\ UNCHANGED <<disk, objectVars, calls, historyVars>>

Blank(line) ==
  /\ Code(line) = <<>>
  /\ Advance /\ UNCHANGED <<sections_, section, comment>>

CommentLine(line) ==
  /\ isComment(line)
  /\ comment' = Append(comment, line)
  /\ Advance /\ UNCHANGED <<sections_, section>>

(* Mutant: the comment of a section is not cleared. *)
AfterHeaderKept(line) == Pending(line)

AfterHeader(line) == <<>>

Header(line) ==
  /\ IsHeader(line) /\ HeaderEnd(line) \in 3 .. Len(Code(line))
  /\ HeaderName(line) \notin DOMAIN sections_
  /\ section' = HeaderName(line)
  /\ sections_' = With(HeaderName(line), NewSection(Pending(line)))
  /\ comment' = AfterHeader(line)
  /\ Advance

(* A header without a name is passed over, and leaves section NULL. *)
NamelessHeader(line) ==
  /\ IsHeader(line) /\ HeaderEnd(line) = 2 /\ Len(Code(line)) >= 2
  /\ section' = None
  /\ comment' = Pending(line)
  /\ Advance /\ UNCHANGED sections_

(* No ], or a section that is there already: load gives up, and what it    *)
(* has read so far stays.                                                  *)
BadHeader(line) ==
  /\ IsHeader(line)
  /\ \/ HeaderEnd(line) > Len(Code(line))
     \/ HeaderEnd(line) > 2 /\ HeaderName(line) \in DOMAIN sections_
  /\ ret' = -1 /\ pc' = "ready"
  /\ Stop

Item(line) ==
  [key |-> Before(Code(line), {"="}), value |-> After(Code(line), {"="}),
   comment |-> Pending(line)]

(* section->items where section is NULL ends the process. *)
AddItem(line) ==
  /\ IsItem(line) /\ Parsed(line)
  /\ IF section = None THEN pc' = "gone" /\ Stop /\ UNCHANGED ret
     ELSE /\ sections_' = [sections_ EXCEPT ![section].items = Append(@, Item(line))]
          /\ comment' = <<>>
          /\ Advance /\ UNCHANGED section

(* A line without = is dropped, and its comment with it. *)
DropLine(line) ==
  /\ IsItem(line) /\ ~Parsed(line)
  /\ comment' = <<>>
  /\ Advance /\ UNCHANGED <<sections_, section>>

LoadEnds ==
  /\ pc = "load" /\ at > Len(disk)
  /\ ret' = 0 /\ pc' = "ready"
  /\ Stop

-----------------------------------------------------------------------------
(* saveas, and save, which needs the name load was given: fwrite gets a    *)
(* null file otherwise.                                                    *)
SaveBegins ==
  /\ Call
  /\ pc' = "save" /\ left' = DOMAIN sections_
  /\ section' = None /\ at' = 1 /\ data' = <<>>
  /\ UNCHANGED <<disk, objectVars, comment, ret, historyVars>>

SaveUnnamed ==
  /\ Call /\ ~fname_ /\ pc' = "gone"
  /\ UNCHANGED <<disk, objectVars, loopVars, ret, historyVars>>

ItemsDone == section # None => at > Len(sections_[section].items)

(* The sections come in the order of the map: the default one first.  On   *)
(* the order of the others nothing depends.                                *)
NextSection == CHOOSE s \in left : <<>> \in left => s = <<>>

RenderSection ==
  /\ pc = "save" /\ ItemsDone /\ left # {}
  /\ section' = NextSection /\ at' = 1
  /\ left' = left \ {NextSection}
  /\ data' = data \o sections_[NextSection].comment
                  \o (IF NextSection = <<>> THEN <<>> ELSE <<<<"[">> \o NextSection \o <<"]">>>>)
  /\ UNCHANGED <<disk, objectVars, comment, pc, ret, calls, historyVars>>

Rendered(item) == item.comment \o <<item.key \o <<"=">> \o item.value>>

RenderItem ==
  /\ pc = "save" /\ ~ItemsDone
  /\ data' = data \o Rendered(sections_[section].items[at])
  /\ at' = at + 1
  /\ UNCHANGED <<disk, objectVars, section, comment, left, pc, ret, calls, historyVars>>

(* fopen "w" empties the file; if it fails, fwrite gets a null file. *)
OpenForWriting ==
  /\ pc = "save" /\ ItemsDone /\ left = {}
  /\ \/ pc' = "write" /\ disk' = <<>> /\ saved' = None
     \/ pc' = "gone" /\ UNCHANGED <<disk, saved>>
  /\ UNCHANGED <<objectVars, loopVars, ret, calls, original, edited>>

Write ==
  /\ pc = "write"
  /\ disk' = data /\ pc' = "ready"
  /\ saved' = IF edited = "spoilt" THEN None ELSE [sections |-> sections_, flags |-> flags_]
  /\ Returned /\ UNCHANGED <<objectVars, ret, calls, original, edited>>

(* The process may end between the two, as at any other time. *)
Killed ==
  /\ pc = "write" /\ pc' = "gone"
  /\ UNCHANGED <<disk, objectVars, loopVars, ret, calls, historyVars>>

(* Another process makes a new object. *)
Restart ==
  /\ pc = "gone" /\ pc' = "ready"
  /\ sections_' = NoSections /\ flags_' = DefaultFlags /\ fname_' = FALSE
  /\ edited' = "yes"
  /\ Returned /\ UNCHANGED <<disk, ret, calls, original, saved>>

-----------------------------------------------------------------------------
(* Setters *)

Place(items, k) == First([i \in DOMAIN items |-> items[i].key], {k})

Spoils(clean) == IF clean /\ edited # "spoilt" THEN "yes" ELSE "spoilt"

Edit ==
  /\ Call
  /\ UNCHANGED <<disk, flags_, fname_, pc, loopVars, ret, original, saved>>

(* The first item of the key is changed, or a new one added; the comment   *)
(* gets the first flag.                                                    *)
setValue(s, k, v, c) ==
  /\ Edit
  /\ LET sect == IF s \in DOMAIN sections_ THEN sections_[s] ELSE NewSection(<<>>)
         item == [key |-> k, value |-> v,
                  comment |-> IF c = <<>> THEN <<>> ELSE <<<<flags_[1]>> \o c>>]
         i    == Place(sect.items, k)
     IN  sections_' = With(s, [sect EXCEPT !.items =
                                 IF i <= Len(@) THEN [@ EXCEPT ![i] = item] ELSE Append(@, item)])
  /\ edited' = Spoils(/\ Free(s, {"]"} \cup Flags(flags_))
                      /\ Free(k, {"="} \cup Flags(flags_)) /\ (k # <<>> => k[1] # "[")
                      /\ Free(v, Flags(flags_)))

(* The comment is stored as it is. *)
setSectionComment(s, c) ==
  /\ Edit /\ s \in DOMAIN sections_
  /\ sections_' = [sections_ EXCEPT ![s].comment = IF c = <<>> THEN <<>> ELSE <<c>>]
  /\ edited' = Spoils(c # <<>> => s # <<>> /\ isComment(c))

(* Only the first item of the key goes. *)
deleteKey(s, k) ==
  /\ Edit /\ s \in DOMAIN sections_
  /\ LET items == sections_[s].items
         i     == Place(items, k)
     IN  /\ i <= Len(items)
         /\ sections_' = [sections_ EXCEPT ![s].items =
                            SubSeq(@, 1, i - 1) \o SubSeq(@, i + 1, Len(@))]
  /\ edited' = Spoils(TRUE)

deleteSection(s) ==
  /\ Edit /\ s \in DOMAIN sections_
  /\ sections_' = [t \in DOMAIN sections_ \ {s} |-> sections_[t]]
  /\ edited' = Spoils(TRUE)

setCommentFlags(flags) ==
  /\ Call
  /\ flags_' = flags
  /\ edited' = "spoilt"
  /\ UNCHANGED <<disk, sections_, fname_, pc, loopVars, ret, original, saved>>

(* The next line, or the end of the file. *)
ReadLine ==
  /\ pc = "load" /\ at <= Len(disk)
  /\ LET line == disk[at] IN
       \/ Blank(line) \/ CommentLine(line) \/ Header(line) \/ NamelessHeader(line)
       \/ BadHeader(line) \/ AddItem(line) \/ DropLine(line)

Save == SaveBegins \/ SaveUnnamed \/ RenderSection \/ RenderItem \/ OpenForWriting \/ Write

Setters ==
  \/ \E s \in Names :
       \/ \E k \in Keys : \/ \E v \in Values, c \in Comments : setValue(s, k, v, c)
                          \/ deleteKey(s, k)
       \/ \E c \in Comments : setSectionComment(s, c)
       \/ deleteSection(s)
  \/ \E flags \in FlagLists : setCommentFlags(flags)

Next == Load \/ ReadLine \/ LoadEnds \/ Save \/ Killed \/ Restart \/ Setters

Spec == Init /\ [][Next]_vars
-----------------------------------------------------------------------------
(* Properties *)

Comment == Seq(Text)
ItemType == [key : Text, value : Text, comment : Comment]
SectionType == [comment : Comment, items : Seq(ItemType)]

(* Every variable keeps its type: the pieces that load cuts at computed     *)
(* places are texts, whatever the lines of the file are, and the section    *)
(* that load adds to and saveas writes is one that is there.                *)
TypeOK ==
  /\ disk \in Seq(Text) /\ original \in Seq(Text) /\ data \in Seq(Text)
  /\ DOMAIN sections_ \subseteq Text
  /\ \A s \in DOMAIN sections_ : sections_[s] \in SectionType
  /\ flags_ \in Seq(FlagChar) \ {<<>>}
  /\ fname_ \in BOOLEAN
  /\ pc \in {"ready", "load", "save", "write", "gone"}
  /\ at \in Nat \ {0}
  /\ section \in DOMAIN sections_ \cup {None}
  /\ comment \in Comment
  /\ left \subseteq DOMAIN sections_
  /\ ret \in {0, -1} /\ calls \in 0 .. MaxCalls
  /\ edited \in {"no", "yes", "spoilt"}

CommentStorable(c) == \A i \in DOMAIN c : isComment(c[i])

ItemStorable(item) ==
  /\ Free(item.key, {"="} \cup Flags(flags_)) /\ (item.key # <<>> => item.key[1] # "[")
  /\ Free(item.value, Flags(flags_))
  /\ CommentStorable(item.comment)

Storable(s, sect) ==
  /\ Free(s, {"]"} \cup Flags(flags_))
  /\ s = <<>> => sect.comment = <<>>
  /\ CommentStorable(sect.comment)
  /\ \A i \in DOMAIN sect.items : ItemStorable(sect.items[i])

(* Whatever a file holds, and wherever load gives up in it, the sections    *)
(* can be written as text that means them: only a setter that is given      *)
(* what load never makes can spoil them.                                    *)
OnlyEditsSpoil == edited # "spoilt" => \A s \in DOMAIN sections_ : Storable(s, sections_[s])

(* Loading what an unspoilt object wrote, with the same flags, succeeds and *)
(* gives its sections back, every item and comment in its place (and the    *)
(* default section, which load always makes).                               *)
Saved(s) == IF s \in DOMAIN saved.sections THEN saved.sections[s] ELSE NewSection(<<>>)

ReadsBack ==
  saved # None /\ edited = "no" /\ original = disk /\ flags_ = saved.flags =>
    /\ pc = "load" => section # None
    /\ pc = "ready" /\ sections_ # NoSections =>
         ret = 0 /\ sections_ = [s \in DOMAIN saved.sections \cup {<<>>} |-> Saved(s)]

(* What a load has read to the end and a save has written without an edit   *)
(* in between holds every item of the file, and every comment in front of   *)
(* one: load passes over lines, but loses none of these.                    *)
InFrontOfItem(i) ==
  \E n \in i + 1 .. Len(original) :
    /\ IsItem(original[n]) /\ Parsed(original[n])
    /\ \A m \in i .. n - 1 : isComment(original[m])

Begins(s, t) == Len(s) <= Len(t) /\ SubSeq(t, 1, Len(s)) = s

KeepsItems ==
  pc = "ready" /\ ret = 0 /\ edited = "no" =>
    \A i \in DOMAIN original :
      /\ IsItem(original[i]) /\ Parsed(original[i]) =>
           \E j \in DOMAIN disk : Code(disk[j]) = Code(original[i])
      /\ InFrontOfItem(i) => \E j \in DOMAIN disk : Begins(original[i], disk[j])
=============================================================================
