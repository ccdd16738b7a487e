------------------------ MODULE OpenCodeTranscript ------------------------
(***************************************************************************)
(* OpenCode keeps a session as a tree of files, one for each message and   *)
(* one for each part of a message, which it rewrites and removes.  The     *)
(* history of the tree is a sequence of records: a record with the id of   *)
(* an earlier one rewrites its file, and one of type "gone" removes it.    *)
(* Ids grow with the time of creation.  Tokens are left out, and so is the *)
(* database that serves sessions without a tree.                           *)
(***************************************************************************)
EXTENDS Integers, Sequences, FiniteSets
LOCAL INSTANCE SequencesExt
LOCAL INSTANCE FiniteSetsExt

Roles == {"user", "assistant", "system"}
PartTypes == {"text", "tool", "reasoning", "patch"}
Thinking == "[Thinking]"

(* The files of the tree.                                                  *)
Files(records) ==
    {records[i] : i \in {j \in DOMAIN records :
        /\ records[j].type # "gone"
        /\ \A k \in (j + 1)..Len(records) : records[k].id # records[j].id}}

ById(files) == SetToSortSeq(files, LAMBDA a, b : a.id < b.id)

Each(f(_), s) == FoldLeft(LAMBDA done, e : done \o f(e), <<>>, s)

loadOpenCodeStorageMessages(records) ==
    ById({f \in Files(records) : f.type \in Roles})

loadOpenCodeStorageParts(records, message) ==
    ById({f \in Files(records) : f.type \in PartTypes /\ f.parent = message.id})

(* Text and thoughts make the content; a tool without a name is no call.   *)
buildOpenCodeMessage(message, parts) ==
    LET said(p) == CASE p.type = "text" -> p.text
                     [] p.type = "reasoning" /\ p.text # <<>> -> <<Thinking>> \o p.text
                     [] OTHER -> <<>>
        used(p) == IF p.type = "tool" THEN p.calls ELSE <<>>
    IN  [role |-> message.type, sys |-> FALSE, text |-> Each(said, parts),
         calls |-> Each(used, parts), results |-> <<>>]

(* Messages of another role, and those without content and tools, go.      *)
buildOpenCodeParsedSession(messages, parts) ==
    LET emit(m) ==
            LET msg == buildOpenCodeMessage(m, parts[m])
            IN  IF \/ m.type = "system"
                   \/ msg.text = <<>> /\ \A p \in ToSet(parts[m]) : p.type # "tool"
                THEN <<>> ELSE <<msg>>
    IN  Each(emit, messages)

ParseOpenCodeFile(records) ==
    LET messages == loadOpenCodeStorageMessages(records)
    IN  buildOpenCodeParsedSession(messages,
            [m \in ToSet(messages) |-> loadOpenCodeStorageParts(records, m)])

-----------------------------------------------------------------------------
(* What is stored is kept when the tree lost something.                    *)

(* The fingerprint: the messages and their parts, as they are written.     *)
buildOpenCodeStorageFingerprint(records) ==
    LET messages == ToSet(loadOpenCodeStorageMessages(records))
    IN  messages \cup UNION {ToSet(loadOpenCodeStorageParts(records, m)) : m \in messages}

(* A file that was rewritten counts as missing, like one that is gone.     *)
OpenCodeStorageFingerprintMissing(stored, current) ==
    ~(buildOpenCodeStorageFingerprint(stored) \subseteq
      buildOpenCodeStorageFingerprint(current))

openCodeMessageLooksIncomplete(parsed, stored) ==
    /\ parsed.ord = stored.ord /\ parsed.role = stored.role
    /\ \/ Len(parsed.text) < Len(stored.text)
       \/ Thinking \in ToSet(stored.text) \ ToSet(parsed.text)
       \/ Len(parsed.calls) < Len(stored.calls)

openCodeLegacyArchiveLooksIncomplete(parsed, stored) ==
    \/ Len(parsed) < Len(stored)
    \/ \E i \in DOMAIN stored : openCodeMessageLooksIncomplete(parsed[i], stored[i])

(* "before" is the tree the rows "stored" come from.                       *)
shouldPreserveOpenCodeArchive(before, stored, records, parsed) ==
    /\ stored # <<>>
    /\ OpenCodeStorageFingerprintMissing(before, records)
    /\ openCodeLegacyArchiveLooksIncomplete(parsed, stored)
=============================================================================
