------------------------- MODULE KnowledgeStoreProofs -------------------------
(***************************************************************************)
(* Proofs about KnowledgeStore, for any number of documents, tenants,      *)
(* sessions and transactions.                                              *)
(*                                                                         *)
(* The invariant adds to the promises of the store what makes them hold.   *)
(* A session never deletes a row it has not chosen (DeletedMatch), because *)
(* a row it has chosen and that is still the same has kept its source      *)
(* (TargetsMatch), because no two rows of an id are born in one run        *)
(* (RunsFresh), and what it has locked no other session changes            *)
(* (LocksDisjoint).  And where the row a session is about to update was    *)
(* not chosen by its DELETE, another session has replaced it meanwhile or  *)
(* it has another name (OldRowChosen).                                     *)
(***************************************************************************)
EXTENDS KnowledgeStore, TLAPS

Active(x) == phase[x] # "idle" /\ write[x] # NoWrite

\* The row the session is about to write is not there, or has another name, or
\* the session deletes it first, or sessions have overlapped.
OldRowChosen ==
  \A x \in Sessions :
    LET d == write[x].doc IN
    Active(x) /\ d \notin spoiled /\ docs[d] # NoDoc /\ d \notin deleted[x] =>
      \/ docs[d].source # write[x].source
      \/ [doc |-> d, born |-> docs[d].born] \in targets[x]

LocksDisjoint ==
  \A x, y \in Sessions : x # y => Locks(x) \cap Locks(y) = {}

\* A row a session may delete.
Matches(x, d) ==
  write[x] # NoWrite =>
    tenant[d] = tenant[write[x].doc] /\ docs[d].source = write[x].source

DeletedMatch ==
  \A x \in Sessions : \A d \in deleted[x] : docs[d] # NoDoc /\ Matches(x, d)

TargetsMatch ==
  \A x \in Sessions : \A r \in targets[x] :
    docs[r.doc] # NoDoc /\ docs[r.doc].born = r.born => Matches(x, r.doc)

\* A run that has not committed has left no trace.
RunsFresh ==
  /\ \A d \in Documents : docs[d] # NoDoc => docs[d].born <= runs
  /\ \A x \in Sessions : \A r \in targets[x] : r.born <= runs
  /\ \A x \in Sessions : Active(x) =>
       /\ write[x].run <= runs
       /\ \A d \in Documents : docs[d] # NoDoc => docs[d].born # write[x].run
       /\ \A y \in Sessions : \A r \in targets[y] : r.born # write[x].run
       /\ \A y \in Sessions : x # y /\ Active(y) => write[x].run # write[y].run

IInv ==
  /\ StoreTypeOK
  /\ DocumentAndChunksAgree
  /\ StaleChunksExplained
  /\ OldRowChosen
  /\ LocksDisjoint
  /\ DeletedMatch
  /\ TargetsMatch
  /\ RunsFresh


(***************************************************************************)
(* The steps.                                                              *)
(***************************************************************************)

LEMMA BeginKeeps ==
  ASSUME IInv, NEW x \in Sessions, NEW chosen \in SUBSET Documents,
         NEW w \in Writes \cup {NoWrite}, Begin(x, chosen, w),
         \A d \in chosen : docs[d] # NoDoc,
         w # NoWrite => w.run = runs + 1 /\ chosen = SourceDocuments(tenant[w.doc], w.source)
  PROVE  IInv'
PROOF
<1> DEFINE picked == {[doc |-> d, born |-> docs[d].born] : d \in chosen}
<1> USE BoundsAssumption
<1>1. /\ docs' = docs /\ chunks' = chunks /\ spoiled' = spoiled
      /\ tenant' = tenant /\ deleted' = deleted /\ storeFaults' = storeFaults
      /\ runs' = runs + 1 /\ runs < MaxRuns /\ phase[x] = "idle"
  BY DEF Begin, rowVars
<1>2. /\ phase' = [phase EXCEPT ![x] = IF w = NoWrite THEN "commit" ELSE "replace"]
      /\ write' = [write EXCEPT ![x] = w]
      /\ targets' = [targets EXCEPT ![x] = picked]
  BY DEF Begin
<1>3. /\ phase'[x] = IF w = NoWrite THEN "commit" ELSE "replace"
      /\ write'[x] = w /\ targets'[x] = picked /\ deleted[x] = {}
      /\ \A y \in Sessions : y # x =>
           phase'[y] = phase[y] /\ write'[y] = write[y] /\ targets'[y] = targets[y]
  BY <1>1, <1>2 DEF IInv, StoreTypeOK
<1>4. picked \subseteq [doc : Documents, born : 0 .. MaxRuns]
  BY DEF IInv, StoreTypeOK, Rows
<1>5. \A r \in picked :
        /\ r.doc \in chosen /\ docs[r.doc] # NoDoc /\ r.born = docs[r.doc].born
        /\ r.born <= runs
  BY DEF IInv, RunsFresh
<1>6. StoreTypeOK'
  <2>1. targets' \in [Sessions -> SUBSET [doc : Documents, born : 0 .. MaxRuns]]
    BY <1>2, <1>4 DEF IInv, StoreTypeOK
  <2>2. write' \in [Sessions -> Writes \cup {NoWrite}]
    BY <1>2 DEF IInv, StoreTypeOK
  <2>3. phase' \in [Sessions -> {"idle", "replace", "embed", "commit"}]
    BY <1>2 DEF IInv, StoreTypeOK
  <2>4. \A y \in Sessions : phase'[y] = "idle" =>
          write'[y] = NoWrite /\ targets'[y] = {} /\ deleted'[y] = {}
    BY <1>1, <1>3 DEF IInv, StoreTypeOK
  <2>5. runs' \in 0 .. MaxRuns
    BY <1>1 DEF IInv, StoreTypeOK
  <2> QED  BY <1>1, <2>1, <2>2, <2>3, <2>4, <2>5 DEF IInv, StoreTypeOK
<1>7. DocumentAndChunksAgree' /\ StaleChunksExplained'
  BY <1>1 DEF IInv, DocumentAndChunksAgree, StaleChunksExplained
<1>8. OldRowChosen'
  <2> SUFFICES ASSUME NEW y \in Sessions, Active(y)', (write[y].doc \notin spoiled)',
                      (docs[write[y].doc] # NoDoc)', (write[y].doc \notin deleted[y])'
               PROVE  (\/ docs[write[y].doc].source # write[y].source
                       \/ [doc |-> write[y].doc, born |-> docs[write[y].doc].born]
                            \in targets[y])'
    BY DEF OldRowChosen
  <2>1. CASE y = x
    <3>1. w # NoWrite /\ w \in Writes /\ w.doc \in Documents
      BY <1>3, <2>1 DEF Active, Writes
    <3>2. docs[w.doc] # NoDoc
      BY <1>1, <1>3, <2>1
    <3>3. docs[w.doc].source = w.source => w.doc \in chosen
      BY <3>1, <3>2 DEF SourceDocuments
    <3>4. docs[w.doc].source = w.source =>
            [doc |-> w.doc, born |-> docs[w.doc].born] \in picked
      BY <3>3
    <3> QED  BY <1>1, <1>3, <2>1, <3>4
  <2>2. CASE y # x
    BY <1>1, <1>3, <2>2 DEF IInv, OldRowChosen, Active
  <2> QED  BY <2>1, <2>2
<1>9. LocksDisjoint'
  <2>1. \A y \in Sessions : y # x => Locks(y)' = Locks(y)
    BY <1>1, <1>3 DEF Locks
  <2>2. Locks(x)' = {}
    BY <1>1, <1>3 DEF Locks
  <2> QED  BY <2>1, <2>2 DEF IInv, LocksDisjoint
<1>10. DeletedMatch'
  BY <1>1, <1>3 DEF IInv, DeletedMatch, Matches
<1>11. TargetsMatch'
  <2> SUFFICES ASSUME NEW y \in Sessions, NEW r \in targets'[y], docs[r.doc] # NoDoc,
                      docs[r.doc].born = r.born, write'[y] # NoWrite
               PROVE  /\ tenant[r.doc] = tenant[write'[y].doc]
                      /\ docs[r.doc].source = write'[y].source
    BY <1>1 DEF TargetsMatch, Matches
  <2>1. CASE y = x
    BY <1>3, <1>5, <2>1 DEF SourceDocuments
  <2>2. CASE y # x
    BY <1>3, <2>2 DEF IInv, TargetsMatch, Matches
  <2> QED  BY <2>1, <2>2
<1>12. RunsFresh'
  <2>1. runs \in Nat /\ \A d \in Documents : docs[d] # NoDoc => docs[d].born \in Nat
    BY DEF IInv, StoreTypeOK, Rows
  <2>2. \A y \in Sessions : \A r \in targets[y] : r.born \in Nat
    BY DEF IInv, StoreTypeOK
  <2>3. \A y \in Sessions : \A r \in targets'[y] :
          /\ r.born \in Nat /\ r.born <= runs
          /\ \A z \in Sessions : Active(z) => r.born # write[z].run
    <3> SUFFICES ASSUME NEW y \in Sessions, NEW r \in targets'[y]
                 PROVE  /\ r.born \in Nat /\ r.born <= runs
                        /\ \A z \in Sessions : Active(z) => r.born # write[z].run
      OBVIOUS
    <3>1. CASE y = x
      BY <1>3, <1>5, <2>1, <3>1 DEF IInv, RunsFresh
    <3>2. CASE y # x
      BY <1>3, <2>2, <3>2 DEF IInv, RunsFresh
    <3> QED  BY <3>1, <3>2
  <2>4. \A y \in Sessions : y # x => (Active(y)' <=> Active(y))
    BY <1>3 DEF Active
  <2>5. \A y \in Sessions : Active(y) => write[y].run \in Nat /\ write[y].run <= runs
    BY DEF IInv, RunsFresh, StoreTypeOK, Active, Writes
  <2>6. Active(x)' => write'[x].run = runs + 1
    BY <1>3 DEF Active
  <2>7. \A d \in Documents : docs[d] # NoDoc => docs[d].born <= runs
    BY DEF IInv, RunsFresh
  <2>8. ASSUME NEW y \in Sessions, Active(y)'
        PROVE  /\ write'[y].run <= runs + 1
               /\ \A d \in Documents : docs[d] # NoDoc => docs[d].born # write'[y].run
               /\ \A z \in Sessions : \A r \in targets'[z] : r.born # write'[y].run
               /\ \A z \in Sessions : y # z /\ Active(z)' => write'[y].run # write'[z].run
    <3>1. CASE y = x
      <4>1. \A z \in Sessions : x # z /\ Active(z)' => write'[z].run \in Nat /\ write'[z].run <= runs
        BY <1>3, <2>4, <2>5
      <4> QED  BY <2>1, <2>3, <2>6, <2>7, <2>8, <3>1, <4>1
    <3>2. CASE y # x
      <4>1. Active(y) /\ write'[y] = write[y] /\ write[y].run \in Nat /\ write[y].run <= runs
        BY <1>3, <2>4, <2>5, <2>8, <3>2
      <4>2. \A z \in Sessions : y # z /\ Active(z)' => write'[y].run # write'[z].run
        BY <1>3, <2>1, <2>4, <2>6, <4>1 DEF IInv, RunsFresh
      <4>3. \A d \in Documents : docs[d] # NoDoc => docs[d].born # write'[y].run
        BY <4>1 DEF IInv, RunsFresh
      <4> QED  BY <2>1, <2>3, <4>1, <4>2, <4>3
    <3> QED  BY <3>1, <3>2
  <2>9. /\ \A d \in Documents : docs[d] # NoDoc => docs[d].born <= runs + 1
        /\ \A y \in Sessions : \A r \in targets'[y] : r.born <= runs + 1
    BY <2>1, <2>3, <2>7
  <2> QED  BY <1>1, <2>8, <2>9 DEF RunsFresh
<1> QED  BY <1>6, <1>7, <1>8, <1>9, <1>10, <1>11, <1>12 DEF IInv

LEMMA DeleteRowKeeps ==
  ASSUME IInv, NEW x \in Sessions, DeleteRow(x)
  PROVE  IInv'
PROOF
<1>1. PICK r \in targets[x] :
        /\ ~LockedByOther(x, r.doc)
        /\ targets' = [targets EXCEPT ![x] = @ \ {r}]
        /\ deleted' = [deleted EXCEPT ![x] =
             IF docs[r.doc] # NoDoc /\ docs[r.doc].born = r.born
             THEN @ \cup {r.doc} ELSE @]
        /\ UNCHANGED <<tenant, phase, write, runs, rowVars, storeFaults>>
  BY DEF DeleteRow
<1>2. /\ docs' = docs /\ chunks' = chunks /\ spoiled' = spoiled /\ tenant' = tenant
      /\ phase' = phase /\ write' = write /\ runs' = runs /\ storeFaults' = storeFaults
  BY <1>1 DEF rowVars
<1>3. r \in [doc : Documents, born : 0 .. MaxRuns] /\ r.doc \in Documents
      /\ r = [doc |-> r.doc, born |-> r.born]
  BY DEF IInv, StoreTypeOK
<1>4. \A y \in Sessions : targets'[y] \subseteq targets[y]
  BY <1>1 DEF IInv, StoreTypeOK
<1>5. \A y \in Sessions : y # x => targets'[y] = targets[y] /\ deleted'[y] = deleted[y]
  BY <1>1 DEF IInv, StoreTypeOK
<1>6. /\ targets'[x] = targets[x] \ {r}
      /\ docs[r.doc] # NoDoc /\ docs[r.doc].born = r.born =>
           deleted'[x] = deleted[x] \cup {r.doc}
      /\ ~(docs[r.doc] # NoDoc /\ docs[r.doc].born = r.born) => deleted'[x] = deleted[x]
  BY <1>1 DEF IInv, StoreTypeOK
<1>7. StoreTypeOK'
  <2>1. targets' \in [Sessions -> SUBSET [doc : Documents, born : 0 .. MaxRuns]]
    BY <1>1 DEF IInv, StoreTypeOK
  <2>2. deleted' \in [Sessions -> SUBSET Documents]
    BY <1>1, <1>3 DEF IInv, StoreTypeOK
  <2>3. phase[x] # "idle"
    BY DEF IInv, StoreTypeOK
  <2>4. \A y \in Sessions : phase'[y] = "idle" =>
          write'[y] = NoWrite /\ targets'[y] = {} /\ deleted'[y] = {}
    BY <1>2, <1>5, <2>3 DEF IInv, StoreTypeOK
  <2> QED  BY <1>2, <2>1, <2>2, <2>4 DEF IInv, StoreTypeOK
<1>8. DocumentAndChunksAgree' /\ StaleChunksExplained'
  BY <1>2 DEF IInv, DocumentAndChunksAgree, StaleChunksExplained
<1>9. OldRowChosen'
  <2> SUFFICES ASSUME NEW y \in Sessions, Active(y)', (write[y].doc \notin spoiled)',
                      (docs[write[y].doc] # NoDoc)', (write[y].doc \notin deleted[y])'
               PROVE  (\/ docs[write[y].doc].source # write[y].source
                       \/ [doc |-> write[y].doc, born |-> docs[write[y].doc].born]
                            \in targets[y])'
    BY DEF OldRowChosen
  <2> DEFINE d == write[y].doc
  <2>1. Active(y) /\ d \notin spoiled /\ docs[d] # NoDoc /\ d \notin deleted'[y]
    BY <1>2 DEF Active
  <2>2. d \notin deleted[y]
    BY <1>5, <1>6, <2>1
  <2>3. docs[d].source # write[y].source \/ [doc |-> d, born |-> docs[d].born] \in targets[y]
    BY <2>1, <2>2 DEF IInv, OldRowChosen
  <2>4. y = x => [doc |-> d, born |-> docs[d].born] # r
    BY <1>6, <2>1
  <2> QED  BY <1>2, <1>5, <1>6, <2>3, <2>4
<1>10. LocksDisjoint'
  <2>1. \A y \in Sessions : y # x => Locks(y)' = Locks(y)
    BY <1>2, <1>5 DEF Locks
  <2>2. Locks(x)' \subseteq Locks(x) \cup {r.doc}
    BY <1>2, <1>6 DEF Locks
  <2>3. \A y \in Sessions : y # x => r.doc \notin Locks(y)
    BY <1>1 DEF LockedByOther
  <2> QED  BY <2>1, <2>2, <2>3 DEF IInv, LocksDisjoint
<1>11. DeletedMatch'
  <2>1. docs[r.doc] # NoDoc /\ docs[r.doc].born = r.born => Matches(x, r.doc)
    BY DEF IInv, TargetsMatch
  <2>2. \A y \in Sessions : \A d \in deleted'[y] : docs[d] # NoDoc /\ Matches(y, d)
    BY <1>5, <1>6, <2>1 DEF IInv, DeletedMatch
  <2> QED  BY <1>2, <2>2 DEF DeletedMatch, Matches
<1>12. TargetsMatch'
  BY <1>2, <1>4 DEF IInv, TargetsMatch, Matches
<1>13. RunsFresh'
  BY <1>2, <1>4 DEF IInv, RunsFresh, Active
<1> QED  BY <1>7, <1>8, <1>9, <1>10, <1>11, <1>12, <1>13 DEF IInv

LEMMA InsertKeeps ==
  ASSUME IInv, NEW x \in Sessions, InsertDocument(x) \/ StoreChunks(x)
  PROVE  IInv'
PROOF
<1>1. /\ docs' = docs /\ chunks' = chunks /\ spoiled' = spoiled /\ tenant' = tenant
      /\ targets' = targets /\ deleted' = deleted /\ write' = write /\ runs' = runs
      /\ storeFaults' = storeFaults
  BY DEF InsertDocument, StoreChunks, rowVars
<1>2. /\ phase' \in [Sessions -> {"idle", "replace", "embed", "commit"}]
      /\ phase'[x] \in {"embed", "commit"} /\ phase[x] \in {"replace", "embed"}
      /\ \A y \in Sessions : y # x => phase'[y] = phase[y]
  BY DEF InsertDocument, StoreChunks, IInv, StoreTypeOK
<1>3. \A y \in Sessions : Active(y)' <=> Active(y)
  BY <1>1, <1>2 DEF Active
<1>4. StoreTypeOK'
  BY <1>1, <1>2 DEF IInv, StoreTypeOK
<1>5. DocumentAndChunksAgree' /\ StaleChunksExplained' /\ DeletedMatch' /\ TargetsMatch'
  BY <1>1 DEF IInv, DocumentAndChunksAgree, StaleChunksExplained, DeletedMatch,
              TargetsMatch, Matches
<1>6. OldRowChosen'
  BY <1>1, <1>3 DEF IInv, OldRowChosen
<1>7. LocksDisjoint'
  <2>1. \A y \in Sessions : y # x => Locks(y)' = Locks(y)
    BY <1>1, <1>2 DEF Locks
  <2>2. CASE InsertDocument(x)
    <3>1. Locks(x)' \subseteq Locks(x) \cup {write[x].doc}
      BY <1>1 DEF Locks
    <3>2. \A y \in Sessions : y # x => write[x].doc \notin Locks(y)
      BY <2>2 DEF InsertDocument, LockedByOther
    <3> QED  BY <2>1, <3>1, <3>2 DEF IInv, LocksDisjoint
  <2>3. CASE StoreChunks(x)
    <3>1. Locks(x)' = Locks(x)
      BY <1>1, <1>2, <2>3 DEF Locks, StoreChunks
    <3> QED  BY <2>1, <3>1 DEF IInv, LocksDisjoint
  <2> QED  BY <2>2, <2>3
<1>8. RunsFresh'
  BY <1>1, <1>3 DEF IInv, RunsFresh
<1> QED  BY <1>4, <1>5, <1>6, <1>7, <1>8 DEF IInv

\* A session that ends its transaction leaves the others as they are.
LEMMA EndTxFrame ==
  ASSUME StoreTypeOK, NEW x \in Sessions, EndTx(x)
  PROVE  /\ phase' \in [Sessions -> {"idle", "replace", "embed", "commit"}]
         /\ write' \in [Sessions -> Writes \cup {NoWrite}]
         /\ targets' \in [Sessions -> SUBSET [doc : Documents, born : 0 .. MaxRuns]]
         /\ deleted' \in [Sessions -> SUBSET Documents]
         /\ phase'[x] = "idle" /\ write'[x] = NoWrite
         /\ targets'[x] = {} /\ deleted'[x] = {}
         /\ \A y \in Sessions : y # x =>
              /\ phase'[y] = phase[y] /\ write'[y] = write[y]
              /\ targets'[y] = targets[y] /\ deleted'[y] = deleted[y]
         /\ \A y \in Sessions : Active(y)' <=> y # x /\ Active(y)
         /\ Locks(x)' = {}
         /\ \A y \in Sessions : y # x => Locks(y)' = Locks(y)
PROOF
<1>1. /\ phase' \in [Sessions -> {"idle", "replace", "embed", "commit"}]
      /\ write' \in [Sessions -> Writes \cup {NoWrite}]
      /\ targets' \in [Sessions -> SUBSET [doc : Documents, born : 0 .. MaxRuns]]
      /\ deleted' \in [Sessions -> SUBSET Documents]
  BY DEF EndTx, StoreTypeOK
<1>2. phase'[x] = "idle" /\ write'[x] = NoWrite /\ targets'[x] = {} /\ deleted'[x] = {}
  BY DEF EndTx, StoreTypeOK
<1>3. \A y \in Sessions : y # x =>
        /\ phase'[y] = phase[y] /\ write'[y] = write[y]
        /\ targets'[y] = targets[y] /\ deleted'[y] = deleted[y]
  BY DEF EndTx, StoreTypeOK
<1>4. \A y \in Sessions : Active(y)' <=> y # x /\ Active(y)
  BY <1>2, <1>3 DEF Active
<1>5. Locks(x)' = {} /\ \A y \in Sessions : y # x => Locks(y)' = Locks(y)
  BY <1>2, <1>3 DEF Locks
<1> QED  BY <1>1, <1>2, <1>3, <1>4, <1>5

LEMMA RollbackKeeps ==
  ASSUME IInv, NEW x \in Sessions, TxFails(x) \/ Victim(x)
  PROVE  IInv'
PROOF
<1> USE BoundsAssumption
<1>1. /\ docs' = docs /\ chunks' = chunks /\ spoiled' = spoiled /\ tenant' = tenant
      /\ runs' = runs /\ storeFaults' \in 0 .. MaxFaults /\ EndTx(x)
  BY DEF TxFails, Victim, rowVars, IInv, StoreTypeOK
<1>2. /\ phase' \in [Sessions -> {"idle", "replace", "embed", "commit"}]
      /\ write' \in [Sessions -> Writes \cup {NoWrite}]
      /\ targets' \in [Sessions -> SUBSET [doc : Documents, born : 0 .. MaxRuns]]
      /\ deleted' \in [Sessions -> SUBSET Documents]
      /\ phase'[x] = "idle" /\ write'[x] = NoWrite /\ targets'[x] = {} /\ deleted'[x] = {}
  BY <1>1, EndTxFrame DEF IInv
<1>3. \A y \in Sessions : y # x =>
        /\ phase'[y] = phase[y] /\ write'[y] = write[y]
        /\ targets'[y] = targets[y] /\ deleted'[y] = deleted[y] /\ Locks(y)' = Locks(y)
  BY <1>1, EndTxFrame DEF IInv
<1>4. Locks(x)' = {} /\ \A y \in Sessions : Active(y)' <=> y # x /\ Active(y)
  BY <1>1, EndTxFrame DEF IInv
<1>5. StoreTypeOK'
  BY <1>1, <1>2, <1>3 DEF IInv, StoreTypeOK
<1>6. DocumentAndChunksAgree' /\ StaleChunksExplained'
  BY <1>1 DEF IInv, DocumentAndChunksAgree, StaleChunksExplained
<1>7. OldRowChosen'
  BY <1>1, <1>3, <1>4 DEF IInv, OldRowChosen
<1>8. LocksDisjoint'
  BY <1>3, <1>4 DEF IInv, LocksDisjoint
<1>9. DeletedMatch' /\ TargetsMatch'
  BY <1>1, <1>2, <1>3 DEF IInv, DeletedMatch, TargetsMatch, Matches
<1>10. RunsFresh'
  <2>1. \A y \in Sessions : targets'[y] \subseteq targets[y]
    BY <1>2, <1>3
  <2> QED  BY <1>1, <1>3, <1>4, <2>1 DEF IInv, RunsFresh
<1> QED  BY <1>5, <1>6, <1>7, <1>8, <1>9, <1>10 DEF IInv

\* The row a session is about to commit.
LEMMA UpsertedRow ==
  ASSUME IInv, NEW x \in Sessions, write[x] \in Writes
  PROVE  LET w == write[x] s == Upserted(x) IN
         /\ s \in Rows /\ s.run = w.run /\ s.chunked = w.chunked
         /\ docs[w.doc] = NoDoc \/ w.doc \in deleted[x] =>
              s.source = w.source /\ s.born = w.run
         /\ ~(docs[w.doc] = NoDoc \/ w.doc \in deleted[x]) =>
              s.source = docs[w.doc].source /\ s.born = docs[w.doc].born
PROOF
<1> DEFINE w == write[x]
           fresh == docs[w.doc] = NoDoc \/ w.doc \in deleted[x]
<1>1. /\ w.doc \in Documents /\ w.source \in Names /\ w.content \in Contents
      /\ w.chunked \in BOOLEAN /\ w.run \in 1 .. MaxRuns
  BY DEF Writes
<1>2. CASE fresh
  <2>1. Upserted(x) = [source |-> w.source, content |-> w.content,
                       chunked |-> w.chunked, run |-> w.run, born |-> w.run]
    BY <1>2 DEF Upserted
  <2>2. w.run \in 0 .. MaxRuns
    BY <1>1, BoundsAssumption
  <2>3. Upserted(x) \in Rows
    BY <1>1, <2>1, <2>2 DEF Rows
  <2> QED  BY <1>2, <2>1, <2>3
<1>3. CASE ~fresh
  <2>1. PICK r \in Rows : r = docs[w.doc]
    BY <1>1, <1>3 DEF IInv, StoreTypeOK
  <2>2. Upserted(x) = [r EXCEPT !.content = w.content, !.chunked = w.chunked,
                                !.run = w.run]
    BY <1>3, <2>1 DEF Upserted
  <2>3. w.run \in 0 .. MaxRuns
    BY <1>1, BoundsAssumption
  <2> DEFINE s == [r EXCEPT !.content = w.content, !.chunked = w.chunked, !.run = w.run]
  <2>4. /\ s \in Rows
        /\ s.source = r.source /\ s.born = r.born /\ s.run = w.run /\ s.chunked = w.chunked
    BY <1>1, <2>3 DEF Rows
  <2> HIDE DEF s
  <2> QED  BY <1>3, <2>1, <2>2, <2>4 DEF s, fresh
<1> QED  BY <1>2, <1>3

\* What a commit leaves of each document and of its chunks.
LEMMA CommitEffect ==
  ASSUME IInv, NEW x \in Sessions, Commit(x)
  PROVE  /\ EndTx(x) /\ tenant' = tenant /\ runs' = runs /\ storeFaults' = storeFaults
         /\ phase[x] = "commit" /\ targets[x] = {}
         /\ docs' \in [Documents -> Rows \cup {NoDoc}]
         /\ chunks' \subseteq Batches /\ spoiled' \subseteq Documents
         /\ \A d \in Documents \ Locks(x) :
              /\ docs'[d] = docs[d]
              /\ \A b \in Batches : b.doc = d => (b \in chunks' <=> b \in chunks)
              /\ d \in spoiled' <=> d \in spoiled
         /\ \A d \in deleted[x] : (write[x] = NoWrite \/ d # write[x].doc) =>
              /\ docs'[d] = NoDoc
              /\ \A b \in chunks' : b.doc # d
         /\ write[x] # NoWrite =>
              LET w == write[x] IN
              /\ w \in Writes
              /\ docs'[w.doc] = Upserted(x)
              /\ w.chunked => [doc |-> w.doc, run |-> w.run] \in chunks'
              /\ \A b \in chunks' : b.doc = w.doc =>
                   b = [doc |-> w.doc, run |-> w.run] \/ (b \in chunks /\ w.doc \notin deleted[x])
              /\ Overlapped(x) \/ Renamed(x) => w.doc \in spoiled'
              /\ w.doc \in spoiled \ deleted[x] => w.doc \in spoiled'
PROOF
<1> DEFINE w == write[x]
           left == [d \in Documents |-> IF d \in deleted[x] THEN NoDoc ELSE docs[d]]
<1>1. /\ EndTx(x) /\ tenant' = tenant /\ runs' = runs /\ storeFaults' = storeFaults
      /\ phase[x] = "commit" /\ targets[x] = {}
  BY DEF Commit
<1>2. left \in [Documents -> Rows \cup {NoDoc}] /\ Kept(x) \subseteq Batches
  BY DEF IInv, StoreTypeOK, Kept
<1>3. deleted[x] \subseteq Documents /\ w \in Writes \cup {NoWrite}
  BY DEF IInv, StoreTypeOK
<1>4. CASE w = NoWrite
  <2>1. docs' = left /\ chunks' = Kept(x) /\ spoiled' = spoiled \ deleted[x]
    BY <1>4 DEF Commit
  <2>2. Locks(x) = deleted[x]
    BY <1>4 DEF Locks
  <2>3. \A d \in Documents \ Locks(x) :
          /\ docs'[d] = docs[d]
          /\ \A b \in Batches : b.doc = d => (b \in chunks' <=> b \in chunks)
          /\ d \in spoiled' <=> d \in spoiled
    BY <2>1, <2>2 DEF Kept
  <2>4. \A d \in deleted[x] : docs'[d] = NoDoc /\ \A b \in chunks' : b.doc # d
    BY <1>3, <2>1 DEF Kept
  <2>5. spoiled' \subseteq Documents
    BY <2>1 DEF IInv, StoreTypeOK
  <2> QED  BY <1>1, <1>2, <1>4, <2>1, <2>3, <2>4, <2>5
<1>5. CASE w # NoWrite
  <2> DEFINE own == [doc |-> w.doc, run |-> w.run]
  <2>1. /\ docs' = [left EXCEPT ![w.doc] = Upserted(x)]
        /\ chunks' = Kept(x) \cup (IF w.chunked THEN {own} ELSE {})
        /\ spoiled' = (spoiled \ deleted[x]) \cup
             (IF Overlapped(x) \/ Renamed(x) THEN {w.doc} ELSE {})
    BY <1>5 DEF Commit
  <2>2. w \in Writes /\ w.doc \in Documents /\ own \in Batches
    BY <1>3, <1>5 DEF Writes, Batches
  <2>3. Locks(x) = deleted[x] \cup {w.doc}
    BY <1>1, <1>5 DEF Locks
  <2>4. Upserted(x) \in Rows
    BY <2>2, UpsertedRow
  <2>5. docs' \in [Documents -> Rows \cup {NoDoc}]
    BY <1>2, <2>1, <2>2, <2>4
  <2>6. chunks' \subseteq Batches /\ spoiled' \subseteq Documents
    BY <1>2, <2>1, <2>2 DEF IInv, StoreTypeOK
  <2>7. docs'[w.doc] = Upserted(x) /\ \A d \in Documents : d # w.doc => docs'[d] = left[d]
    BY <1>2, <2>1, <2>2
  <2>8. \A d \in Documents \ Locks(x) :
          /\ docs'[d] = docs[d]
          /\ \A b \in Batches : b.doc = d => (b \in chunks' <=> b \in chunks)
          /\ d \in spoiled' <=> d \in spoiled
    <3> SUFFICES ASSUME NEW d \in Documents, d \notin deleted[x], d # w.doc
                 PROVE  /\ docs'[d] = docs[d]
                        /\ \A b \in Batches : b.doc = d => (b \in chunks' <=> b \in chunks)
                        /\ d \in spoiled' <=> d \in spoiled
      BY <2>3
    <3>1. docs'[d] = docs[d]
      BY <2>7
    <3>2. \A b \in Batches : b.doc = d => (b \in chunks' <=> b \in chunks)
      BY <2>1 DEF Kept
    <3>3. d \in spoiled' <=> d \in spoiled
      BY <2>1
    <3> QED  BY <3>1, <3>2, <3>3
  <2>9. \A d \in deleted[x] : d # w.doc => docs'[d] = NoDoc /\ \A b \in chunks' : b.doc # d
    BY <1>3, <2>1, <2>7 DEF Kept
  <2>10. /\ w.chunked => own \in chunks'
         /\ \A b \in chunks' : b.doc = w.doc =>
              b = own \/ (b \in chunks /\ w.doc \notin deleted[x])
    BY <2>1 DEF Kept
  <2>11. /\ Overlapped(x) \/ Renamed(x) => w.doc \in spoiled'
         /\ w.doc \in spoiled \ deleted[x] => w.doc \in spoiled'
    BY <2>1
  <2> QED  BY <1>1, <1>5, <2>2, <2>5, <2>6, <2>7, <2>8, <2>9, <2>10, <2>11
<1> QED  BY <1>4, <1>5

LEMMA CommitKeeps ==
  ASSUME IInv, NEW x \in Sessions, Commit(x)
  PROVE  IInv'
PROOF
<1> DEFINE w == write[x]
           A(d) == /\ docs'[d] = docs[d]
                   /\ \A b \in Batches : b.doc = d => (b \in chunks' <=> b \in chunks)
                   /\ d \in spoiled' <=> d \in spoiled
           B(d) == docs'[d] = NoDoc /\ \A b \in chunks' : b.doc # d
           C(d) == w # NoWrite /\ d = w.doc
<1>1. /\ EndTx(x) /\ tenant' = tenant /\ runs' = runs /\ storeFaults' = storeFaults
      /\ phase[x] = "commit" /\ targets[x] = {}
      /\ docs' \in [Documents -> Rows \cup {NoDoc}]
      /\ chunks' \subseteq Batches /\ spoiled' \subseteq Documents
  BY CommitEffect
<1>2. /\ phase' \in [Sessions -> {"idle", "replace", "embed", "commit"}]
      /\ write' \in [Sessions -> Writes \cup {NoWrite}]
      /\ targets' \in [Sessions -> SUBSET [doc : Documents, born : 0 .. MaxRuns]]
      /\ deleted' \in [Sessions -> SUBSET Documents]
      /\ phase'[x] = "idle" /\ write'[x] = NoWrite /\ targets'[x] = {} /\ deleted'[x] = {}
  BY <1>1, EndTxFrame DEF IInv
<1>3. \A y \in Sessions : y # x =>
        /\ phase'[y] = phase[y] /\ write'[y] = write[y]
        /\ targets'[y] = targets[y] /\ deleted'[y] = deleted[y] /\ Locks(y)' = Locks(y)
  BY <1>1, EndTxFrame DEF IInv
<1>4. Locks(x)' = {} /\ \A y \in Sessions : Active(y)' <=> y # x /\ Active(y)
  BY <1>1, EndTxFrame DEF IInv
<1>5. \A d \in Documents : A(d) \/ B(d) \/ C(d)
  <2>1. \A d \in Documents \ Locks(x) : A(d)
    BY CommitEffect
  <2>2. \A d \in deleted[x] : (w = NoWrite \/ d # w.doc) => B(d)
    BY CommitEffect
  <2>3. \A d \in Locks(x) : d \in deleted[x] \/ C(d)
    BY DEF Locks
  <2> HIDE DEF A, B
  <2> QED  BY <2>1, <2>2, <2>3
<1>6. ASSUME w # NoWrite
      PROVE  /\ w \in Writes /\ w.doc \in Documents /\ Active(x)
             /\ docs'[w.doc] = Upserted(x)
             /\ w.chunked => [doc |-> w.doc, run |-> w.run] \in chunks'
             /\ \A b \in chunks' : b.doc = w.doc =>
                  b = [doc |-> w.doc, run |-> w.run] \/ (b \in chunks /\ w.doc \notin deleted[x])
             /\ Overlapped(x) \/ Renamed(x) => w.doc \in spoiled'
             /\ w.doc \in spoiled /\ w.doc \notin deleted[x] => w.doc \in spoiled'
  BY <1>1, <1>6, CommitEffect DEF Active, Writes
<1>7. ASSUME w # NoWrite
      PROVE  LET s == Upserted(x) IN
             /\ s # NoDoc /\ s.run = w.run /\ s.chunked = w.chunked
             /\ docs[w.doc] = NoDoc \/ w.doc \in deleted[x] =>
                  s.source = w.source /\ s.born = w.run
             /\ ~(docs[w.doc] = NoDoc \/ w.doc \in deleted[x]) =>
                  s.source = docs[w.doc].source /\ s.born = docs[w.doc].born
  <2>1. w \in Writes
    BY <1>6, <1>7
  <2>2. NoDoc \notin Rows
    BY RowsAssumption, BoundsAssumption DEF Rows
  <2>3. Upserted(x) \in Rows
    BY <2>1, UpsertedRow
  <2>4. Upserted(x) # NoDoc
    BY <2>2, <2>3
  <2> QED  BY <2>1, <2>4, UpsertedRow
<1> HIDE DEF w
<1>8. StoreTypeOK'
  <2>1. \A y \in Sessions : phase'[y] = "idle" =>
          write'[y] = NoWrite /\ targets'[y] = {} /\ deleted'[y] = {}
    BY <1>2, <1>3 DEF IInv, StoreTypeOK
  <2> QED  BY <1>1, <1>2, <2>1 DEF IInv, StoreTypeOK
<1>9. DocumentAndChunksAgree'
  <2>1. ASSUME NEW d \in Documents, docs'[d] # NoDoc, docs'[d].chunked
        PROVE  [doc |-> d, run |-> docs'[d].run] \in chunks'
    <3>1. CASE A(d)
      <4>1. docs[d] \in Rows
        BY <2>1, <3>1 DEF IInv, StoreTypeOK
      <4>2. [doc |-> d, run |-> docs[d].run] \in chunks
        BY <2>1, <3>1 DEF IInv, DocumentAndChunksAgree
      <4>3. [doc |-> d, run |-> docs[d].run] \in Batches
        BY <4>2 DEF IInv, StoreTypeOK
      <4> QED  BY <3>1, <4>2, <4>3
    <3>2. CASE C(d)
      BY <2>1, <3>2, <1>6, <1>7
    <3> QED  BY <1>5, <2>1, <3>1, <3>2
  <2>2. ASSUME NEW b \in chunks'
        PROVE  docs'[b.doc] # NoDoc
    <3>1. b \in Batches /\ b.doc \in Documents
      BY <1>1 DEF Batches
    <3>2. CASE A(b.doc)
      BY <2>2, <3>1, <3>2 DEF IInv, DocumentAndChunksAgree
    <3>3. CASE C(b.doc)
      BY <1>6, <1>7, <3>3
    <3> QED  BY <1>5, <2>2, <3>1, <3>2, <3>3
  <2> QED  BY <2>1, <2>2 DEF DocumentAndChunksAgree
<1>10. StaleChunksExplained'
  <2> SUFFICES ASSUME NEW b \in chunks', b.run # docs'[b.doc].run
               PROVE  b.doc \in spoiled'
    BY DEF StaleChunksExplained
  <2>1. b \in Batches /\ b.doc \in Documents
    BY <1>1 DEF Batches
  <2>2. CASE A(b.doc)
    BY <2>1, <2>2 DEF IInv, StaleChunksExplained
  <2>3. CASE C(b.doc)
    <3>1. b \in chunks /\ w.doc \notin deleted[x]
      BY <1>6, <1>7, <2>3
    <3>2. docs[w.doc] # NoDoc
      BY <2>3, <3>1 DEF IInv, DocumentAndChunksAgree
    <3>3. w.doc \in spoiled \/ docs[w.doc].source # w.source
      BY <1>1, <1>6, <2>3, <3>1, <3>2 DEF IInv, OldRowChosen, w
    <3>4. docs[w.doc].source # w.source => Renamed(x)
      BY <3>1, <3>2 DEF Renamed, w
    <3> QED  BY <1>6, <2>3, <3>1, <3>3, <3>4
  <2> QED  BY <1>5, <2>1, <2>2, <2>3
<1>11. OldRowChosen'
  <2> SUFFICES ASSUME NEW y \in Sessions, y # x, Active(y), write[y].doc \notin spoiled',
                      docs'[write[y].doc] # NoDoc, write[y].doc \notin deleted[y]
               PROVE  \/ docs'[write[y].doc].source # write[y].source
                      \/ [doc |-> write[y].doc, born |-> docs'[write[y].doc].born]
                           \in targets[y]
    BY <1>3, <1>4 DEF OldRowChosen
  <2>1. write[y].doc \in Documents
    BY DEF Active, IInv, StoreTypeOK, Writes
  <2>2. CASE A(write[y].doc)
    BY <2>1, <2>2 DEF IInv, OldRowChosen
  <2>3. CASE C(write[y].doc)
    <3>1. Overlapped(x)
      BY <2>3 DEF Overlapped, Active, w
    <3> QED  BY <1>6, <2>3, <3>1
  <2> QED  BY <1>5, <2>1, <2>2, <2>3
<1>12. LocksDisjoint'
  BY <1>3, <1>4 DEF IInv, LocksDisjoint
<1>13. DeletedMatch'
  <2> SUFFICES ASSUME NEW y \in Sessions, y # x, NEW d \in deleted[y]
               PROVE  /\ docs'[d] # NoDoc
                      /\ write[y] # NoWrite =>
                           /\ tenant[d] = tenant[write[y].doc]
                           /\ docs'[d].source = write[y].source
    BY <1>1, <1>2, <1>3 DEF DeletedMatch, Matches
  <2>1. d \in Documents /\ d \notin Locks(x)
    BY DEF IInv, StoreTypeOK, LocksDisjoint, Locks
  <2>2. docs'[d] = docs[d]
    BY <2>1, CommitEffect
  <2> QED  BY <2>2 DEF IInv, DeletedMatch, Matches
<1>14. TargetsMatch'
  <2> SUFFICES ASSUME NEW y \in Sessions, y # x, NEW r \in targets[y],
                      docs'[r.doc] # NoDoc, docs'[r.doc].born = r.born, write[y] # NoWrite
               PROVE  /\ tenant[r.doc] = tenant[write[y].doc]
                      /\ docs'[r.doc].source = write[y].source
    BY <1>1, <1>2, <1>3 DEF TargetsMatch, Matches
  <2>1. r.doc \in Documents
    BY DEF IInv, StoreTypeOK
  <2>2. CASE A(r.doc)
    BY <2>2 DEF IInv, TargetsMatch, Matches
  <2>3. CASE C(r.doc)
    <3>1. r.born # w.run
      BY <1>6, <2>3 DEF IInv, RunsFresh, w
    <3>2. docs[r.doc] # NoDoc /\ docs[r.doc].born = r.born /\ docs'[r.doc].source = docs[r.doc].source
      BY <1>6, <1>7, <2>3, <3>1
    <3> QED  BY <3>2 DEF IInv, TargetsMatch, Matches
  <2> QED  BY <1>5, <2>1, <2>2, <2>3
<1>15. RunsFresh'
  <2>1. \A d \in Documents : docs'[d] # NoDoc =>
          \/ docs[d] # NoDoc /\ docs'[d].born = docs[d].born
          \/ w # NoWrite /\ docs'[d].born = w.run
    <3> SUFFICES ASSUME NEW d \in Documents, docs'[d] # NoDoc
                 PROVE  \/ docs[d] # NoDoc /\ docs'[d].born = docs[d].born
                        \/ w # NoWrite /\ docs'[d].born = w.run
      OBVIOUS
    <3>1. CASE C(d)
      BY <1>6, <1>7, <3>1
    <3> QED  BY <1>5, <3>1
  <2>2. \A y \in Sessions : targets'[y] \subseteq targets[y]
    BY <1>2, <1>3
  <2>3. w # NoWrite => w.run <= runs /\ Active(x)
    BY <1>6 DEF IInv, RunsFresh, w
  <2>4. \A d \in Documents : docs'[d] # NoDoc => docs'[d].born <= runs
    BY <2>1, <2>3 DEF IInv, RunsFresh
  <2>5. ASSUME NEW y \in Sessions, y # x, Active(y)
        PROVE  /\ write[y].run <= runs
               /\ \A d \in Documents : docs'[d] # NoDoc => docs'[d].born # write[y].run
               /\ \A z \in Sessions : \A r \in targets'[z] : r.born # write[y].run
               /\ \A z \in Sessions : y # z /\ Active(z) => write[y].run # write[z].run
    <3>1. w # NoWrite => w.run # write[y].run
      BY <2>3, <2>5 DEF IInv, RunsFresh, w
    <3>2. \A d \in Documents : docs'[d] # NoDoc => docs'[d].born # write[y].run
      BY <2>1, <2>5, <3>1 DEF IInv, RunsFresh
    <3> QED  BY <2>2, <2>5, <3>2 DEF IInv, RunsFresh
  <2> HIDE DEF A, B, C
  <2>6. \A y \in Sessions : Active(y)' =>
          /\ write'[y].run <= runs
          /\ \A d \in Documents : docs'[d] # NoDoc => docs'[d].born # write'[y].run
          /\ \A z \in Sessions : \A r \in targets'[z] : r.born # write'[y].run
          /\ \A z \in Sessions : y # z /\ Active(z)' => write'[y].run # write'[z].run
    BY <1>3, <1>4, <2>5
  <2>7. \A y \in Sessions : \A r \in targets'[y] : r.born <= runs
    BY <2>2 DEF IInv, RunsFresh
  <2> QED  BY <1>1, <2>4, <2>6, <2>7 DEF RunsFresh
<1> QED  BY <1>8, <1>9, <1>10, <1>11, <1>12, <1>13, <1>14, <1>15 DEF IInv

LEMMA InitIInv == StoreInit => IInv
PROOF
<1> SUFFICES ASSUME StoreInit
             PROVE  IInv
  OBVIOUS
<1>1. StoreTypeOK
  BY BoundsAssumption DEF StoreInit, StoreTypeOK, Batches
<1>2. DocumentAndChunksAgree /\ StaleChunksExplained
  BY DEF StoreInit, DocumentAndChunksAgree, StaleChunksExplained
<1>3. OldRowChosen /\ LocksDisjoint /\ DeletedMatch /\ TargetsMatch
  BY DEF StoreInit, OldRowChosen, LocksDisjoint, DeletedMatch, TargetsMatch, Active, Locks
<1>4. RunsFresh
  BY DEF StoreInit, RunsFresh, Active
<1> QED  BY <1>1, <1>2, <1>3, <1>4 DEF IInv

LEMMA NextIInv == IInv /\ [StoreNext]_storeVars => IInv'
PROOF
<1> SUFFICES ASSUME IInv, [StoreNext]_storeVars
             PROVE  IInv'
  OBVIOUS
<1>1. ASSUME NEW x \in Sessions, NEW d \in Documents, NEW name \in Names,
             NEW content \in Contents, NEW chunked \in BOOLEAN,
             ReplaceSource(x, d, name, content, chunked)
      PROVE  IInv'
  <2> DEFINE w == [doc |-> d, source |-> name, content |-> content,
                   chunked |-> chunked, run |-> runs + 1]
  <2>1. w \in Writes
    BY <1>1, BoundsAssumption DEF ReplaceSource, Begin, Writes, IInv, StoreTypeOK
  <2>2. /\ SourceDocuments(tenant[d], name) \in SUBSET Documents
        /\ \A e \in SourceDocuments(tenant[d], name) : docs[e] # NoDoc
    BY DEF SourceDocuments
  <2>3. Begin(x, SourceDocuments(tenant[d], name), w)
    BY <1>1 DEF ReplaceSource
  <2> QED  BY <2>1, <2>2, <2>3, BeginKeeps
<1>2. ASSUME NEW x \in Sessions, NEW t \in Tenants, DeleteTenantData(x, t)
      PROVE  IInv'
  <2> DEFINE all == {d \in Documents : docs[d] # NoDoc /\ tenant[d] = t}
  <2>1. Begin(x, all, NoWrite)
    BY <1>2 DEF DeleteTenantData
  <2> QED  BY <2>1, BeginKeeps
<1>3. ASSUME NEW x \in Sessions, Proceed(x)
      PROVE  IInv'
  BY <1>3, DeleteRowKeeps, InsertKeeps, RollbackKeeps, CommitKeeps DEF Proceed
<1>4. ASSUME NEW x \in Sessions, TxFails(x)
      PROVE  IInv'
  BY <1>4, RollbackKeeps
<1>5. CASE UNCHANGED storeVars
  <2>1. /\ docs' = docs /\ chunks' = chunks /\ spoiled' = spoiled /\ tenant' = tenant
        /\ phase' = phase /\ write' = write /\ targets' = targets /\ deleted' = deleted
        /\ runs' = runs /\ storeFaults' = storeFaults
    BY <1>5 DEF storeVars, rowVars, txVars
  <2>2. StoreTypeOK' /\ DocumentAndChunksAgree' /\ StaleChunksExplained'
    BY <2>1 DEF IInv, StoreTypeOK, DocumentAndChunksAgree, StaleChunksExplained
  <2>3. OldRowChosen' /\ LocksDisjoint' /\ DeletedMatch' /\ TargetsMatch' /\ RunsFresh'
    BY <2>1 DEF IInv, OldRowChosen, LocksDisjoint, DeletedMatch, TargetsMatch, RunsFresh,
                Active, Locks, Matches
  <2> QED  BY <2>2, <2>3 DEF IInv
<1> QED  BY <1>1, <1>2, <1>3, <1>4, <1>5 DEF StoreNext

(***************************************************************************)
(* The theorems.                                                           *)
(***************************************************************************)

\* The inductive invariant holds in every reachable state of the store, whatever its
\* transactions (knowledge/store.go) do at once.
THEOREM Invariant == StoreSpec => []IInv
PROOF
  BY InitIInv, NextIInv, PTL DEF StoreSpec

\* Every variable of the store has its type in every reachable state: among
\* others a session that is idle holds no row, so that every way out of a
\* transaction of ReplaceSource releases what it locked.
THEOREM StoreTyped == StoreSpec => []StoreTypeOK
PROOF
<1>1. IInv => StoreTypeOK
  BY DEF IInv
<1> QED  BY <1>1, Invariant, PTL

\* ReplaceSource replaces a source's data whole or not at all: whatever
\* sessions run at once, fail or are aborted, a stored document has the chunks
\* of the run that wrote it and no chunk is without its document.
THEOREM ReplacedWhole == StoreSpec => []DocumentAndChunksAgree
PROOF
<1>1. IInv => DocumentAndChunksAgree
  BY DEF IInv
<1> QED  BY <1>1, Invariant, PTL

\* Chunks of an earlier run outlive a re-ingest only where two ingests of the
\* document overlapped or the source was ingested under a new name: the
\* delete-then-insert of ReplaceSource leaves none otherwise.
THEOREM NoOtherStaleChunks == StoreSpec => []StaleChunksExplained
PROOF
<1>1. IInv => StaleChunksExplained
  BY DEF IInv
<1> QED  BY <1>1, Invariant, PTL

\* A document disappears only at the commit of a DELETE of its own tenant that
\* its name, or the whole tenant, was given to, and never by its own ingest:
\* no reader sees a re-ingested source without its document.
THEOREM RemovedOnlyByItsTenant == StoreSpec => RemovedByItsTenant
PROOF
<1> DEFINE Removal(d) ==
      docs[d] # NoDoc /\ docs'[d] = NoDoc =>
        \E x \in Sessions :
          /\ phase[x] = "commit"
          /\ phase'[x] = "idle"
          /\ d \in deleted[x]
          /\ write[x] # NoWrite =>
               /\ write[x].doc # d
               /\ tenant[write[x].doc] = tenant[d]
               /\ write[x].source = docs[d].source
<1>1. ASSUME IInv, [StoreNext]_storeVars, NEW d \in Documents
      PROVE  Removal(d)
  <2>1. ASSUME NEW x \in Sessions, Commit(x)
        PROVE  Removal(d)
    <3>1. CASE d \notin Locks(x)
      <4>1. docs'[d] = docs[d]
        BY <1>1, <2>1, <3>1, CommitEffect
      <4> QED  BY <4>1
    <3>2. CASE write[x] # NoWrite /\ d = write[x].doc
      <4>1. docs'[d] = Upserted(x) /\ write[x] \in Writes
        BY <1>1, <2>1, <3>2, CommitEffect
      <4>2. Upserted(x) \in Rows
        BY <1>1, <4>1, UpsertedRow
      <4>3. NoDoc \notin Rows
        BY RowsAssumption, BoundsAssumption DEF Rows
      <4> QED  BY <4>1, <4>2, <4>3
    <3>3. CASE d \in deleted[x] /\ (write[x] # NoWrite => d # write[x].doc)
      <4>1. phase[x] = "commit" /\ EndTx(x)
        BY <1>1, <2>1, CommitEffect
      <4>2. phase'[x] = "idle"
        BY <1>1, <4>1, EndTxFrame DEF IInv
      <4>3. write[x] # NoWrite =>
              tenant[d] = tenant[write[x].doc] /\ docs[d].source = write[x].source
        BY <1>1, <3>3 DEF IInv, DeletedMatch, Matches
      <4> QED  BY <3>3, <4>1, <4>2, <4>3
    <3> QED  BY <3>1, <3>2, <3>3 DEF Locks
  <2>2. CASE docs' = docs
    BY <2>2
  <2>3. (\E x \in Sessions : Commit(x)) \/ docs' = docs
    BY <1>1 DEF StoreNext, Proceed, ReplaceSource, DeleteTenantData, Begin, DeleteRow,
                InsertDocument, StoreChunks, Victim, TxFails, rowVars, storeVars
  <2> QED  BY <2>1, <2>2, <2>3
<1>2. IInv /\ [StoreNext]_storeVars => \A d \in Documents : Removal(d)
  BY <1>1
<1>3. IInv /\ [StoreNext]_storeVars => [\A d \in Documents : Removal(d)]_storeVars
  BY <1>2
<1> QED  BY <1>3, Invariant, PTL DEF StoreSpec, RemovedByItsTenant
=============================================================================
