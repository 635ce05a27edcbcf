------------------------------- MODULE Effects ------------------------------
(***************************************************************************)
(* What S3 and Azure do with what they are asked to do: a deed.  The       *)
(* services are external.  They keep two objects, k and s, with versions   *)
(* (but a directory bucket and a hierarchical account) and, on Azure,      *)
(* snapshots.  A copy of Azure may end after it was answered, and one that *)
(* was sent no tags is assumed to keep its source's, which no request asks *)
(* for.                                                                    *)
(***************************************************************************)
EXTENDS Calls, SequencesExt

S3Services == {"aws", "directory", "compatible"}
Versioned(service) == service \in {"aws", "compatible", "flat", "cUnknown", "cFlat"}

Now == <<"current", None>>
Always == <<None, Unset>>
NoSource == <<>>
Deed == [verb |-> None, key |-> None, at |-> Now, when |-> Always, from |-> NoSource,
         content |-> None, metadata |-> None, tags |-> None, tier |-> None, property |-> None,
         extent |-> None]

Absent == [tag |-> None]
NotRestored == <<None, None>>
Order == <<"t1", "t2", "t3", "t4", "t5", "t6", "t7">>
Place(tag) == CHOOSE i \in DOMAIN Order : Order[i] = tag
Stored(tag, content) ==
  [tag |-> tag, content |-> content, metadata |-> None, tags |-> None, tier |-> None,
   property |-> None, restored |-> NotRestored]

Missing == <<"missing">>
Unmet == <<"unmet">>
Rejected == <<"rejected">>
OtherTarget == <<"container">>
Done(what) == <<"done", what>>

Ended(objects, result) == [objects |-> objects, result |-> result]
NextTag(objects) == Order[objects.writes + 1]

\* The object that a revision names: the one there is now, or a kept one.
Found(objects, key, at) ==
  IF at[1] = "current" THEN objects.now[key]
  ELSE LET named == {one \in objects.kept : one.key = key /\ one.at = at}
       IN IF named = {} THEN Absent ELSE (CHOOSE one \in named : TRUE).object

\* RFC 9110: what a condition compares; a tag with tags, a time with times.
Names(value, object) == value[1] = "tag" /\ value[2] \in {"*", object.tag}
Earlier(value, object) == value[1] = "time" /\ value[2] < Place(object.tag)
Holds(when, object) ==
  CASE when[1] = None          -> TRUE
    [] when[1] = "IfMatch"     -> object # Absent /\ Names(when[2], object)
    [] when[1] = "IfNoneMatch" -> object = Absent \/ ~ Names(when[2], object)
    [] object = Absent         -> TRUE
    [] when[1] = "IfModifiedSince"   -> Earlier(when[2], object)
    [] when[1] = "IfUnmodifiedSince" -> ~ Earlier(when[2], object)

\* A write keeps what it replaces, where there are versions.
KeptBy(service, objects, key) ==
  IF Versioned(service) /\ objects.now[key] # Absent
  THEN objects.kept \cup {[key |-> key, at |-> <<"version", objects.now[key].tag>>,
                           object |-> objects.now[key]]}
  ELSE objects.kept
Written(service, objects, key, object) ==
  [objects EXCEPT !.now[key] = [object EXCEPT !.tag = NextTag(objects)],
                  !.kept = KeptBy(service, objects, key), !.writes = @ + 1,
                  !.pending = {copy \in @ : copy.key # key}]
Changed(objects, key, at, object) ==
  IF at[1] = "current" THEN [objects EXCEPT !.now[key] = object]
  ELSE [objects EXCEPT !.kept = {IF one.key = key /\ one.at = at THEN [one EXCEPT !.object = object]
                                 ELSE one : one \in @}]
Snapshots(objects, key) == {one \in objects.kept : one.key = key /\ one.at[1] = "snapshot"}

-----------------------------------------------------------------------------
(* Each operation, on the objects of a service.                            *)

\* An operation on an object that must be there, under its condition.
OnObject(deed, objects, ends) ==
  LET object == Found(objects, deed.key, deed.at)
  IN IF object = Absent
     THEN {Ended(objects, why) : why \in IF Holds(deed.when, Absent) THEN {Missing}
                                          ELSE {Missing, Unmet}}
     ELSE IF ~ Holds(deed.when, object) THEN {Ended(objects, Unmet)} ELSE ends

Read(deed, objects) ==
  OnObject(deed, objects,
           {Ended(objects, Done(<<deed.verb, Found(objects, deed.key, deed.at), deed.extent>>))})

Put(service, deed, objects) ==
  IF ~ Holds(deed.when, objects.now[deed.key])
  THEN {Ended(objects, Unmet)}
       \cup (IF objects.now[deed.key] = Absent THEN {Ended(objects, Missing)} ELSE {})
  ELSE {Ended(Written(service, objects, deed.key,
                      [Stored(None, deed.content) EXCEPT
                         !.metadata = deed.metadata, !.tags = deed.tags, !.tier = deed.tier,
                         !.property = deed.property]),
              Done(<<"written", NextTag(objects)>>))}

\* S3 answers the removal of what is not there as any other.
Delete(service, deed, objects) ==
  LET object == Found(objects, deed.key, deed.at)
      snapshots == Snapshots(objects, deed.key)
      gone == CASE deed.extent = "only" -> [objects EXCEPT !.kept = @ \ snapshots]
                [] deed.at # Now ->
                     [objects EXCEPT !.kept = {one \in @ : one.key # deed.key \/ one.at # deed.at}]
                [] OTHER -> [objects EXCEPT !.now[deed.key] = Absent,
                                            !.kept = KeptBy(service, objects, deed.key) \ snapshots,
                                            !.pending = {copy \in @ : copy.key # deed.key}]
  IN IF object = Absent /\ deed.when = Always /\ service \in S3Services
     THEN {Ended(objects, Done("removed"))}
     ELSE OnObject(deed, objects,
                   IF deed.at = Now /\ deed.extent = "object" /\ snapshots # {}
                   THEN {Ended(objects, Rejected)} ELSE {Ended(gone, Done("removed"))})

\* Metadata and properties are another version of the object, tags are not.
Update(service, deed, objects) ==
  LET object == Found(objects, deed.key, deed.at)
      change(after) == {Ended(Changed(objects, deed.key, deed.at, after), Done("updated"))}
      write(after) == {Ended(Written(service, objects, deed.key, after),
                             Done(<<"written", NextTag(objects)>>))}
  IN OnObject(deed, objects,
              CASE deed.verb = "setMetadata"   -> write([object EXCEPT !.metadata = deed.metadata])
                [] deed.verb = "setProperties" -> write([object EXCEPT !.property = deed.property])
                [] deed.verb = "setTags"       -> change([object EXCEPT !.tags = deed.tags])
                [] deed.verb = "setTier"       -> change([object EXCEPT !.tier = deed.tier])
                [] deed.verb = "restore"       ->
                     change([object EXCEPT !.tier = Or(deed.tier, @), !.restored = deed.extent]))

Snapshot(deed, objects) ==
  LET object == objects.now[deed.key]
      id == NextTag(objects)
  IN OnObject(deed, objects,
              {Ended([objects EXCEPT
                        !.kept = @ \cup {[key |-> deed.key, at |-> <<"snapshot", id>>,
                                          object |-> [object EXCEPT
                                                        !.metadata = Or(deed.metadata, @)]]},
                        !.writes = @ + 1],
                     Done(<<"snapshot", id>>))})

\* The keys of a page, and what it says of each.
List(deed, objects) ==
  LET page == deed.extent
      keys == {key \in {"k", "s"} : /\ page.prefix \in {"", key}
                                    /\ ~ (key = "k" /\ "k" \in {page.after, page.marker[1]})}
      now == {<<key, Now>> : key \in {key \in keys : objects.now[key] # Absent}}
      before(one) == one.key = page.marker[1] /\ page.marker[2] \notin {None, ""}
                       /\ one.at[2] # page.marker[2]
      kept == {<<one.key, one.at>> : one \in {one \in objects.kept :
                 (one.key \in keys \/ before(one)) /\ ((one.at[1] = "version" /\ "versions" \in page.include)
                                      \/ (one.at[1] = "snapshot" /\ "snapshots" \in page.include))}}
  IN {Ended(objects, Done(<<"listed", now \cup kept, page.include \ {"versions", "snapshots"},
                           page.delimiter>>))}

\* A copy of the container that the caller named, or of its own.
Copy(service, deed, objects) ==
  LET source == Found(objects, deed.from.key, deed.from.at)
      copied == [source EXCEPT
                   !.metadata = IF deed.metadata = "replaced" THEN None ELSE Or(deed.metadata, @),
                   !.property = IF deed.property = "replaced" THEN None ELSE Or(deed.property, @),
                   !.tags = IF deed.tags = "empty" THEN None ELSE Or(deed.tags, @),
                   !.tier = deed.tier, !.restored = NotRestored]
      done == Ended(Written(service, objects, deed.key, copied), Done(<<"written", NextTag(objects)>>))
      begun == Ended([Written(service, objects, deed.key, [copied EXCEPT !.content = "pending"])
                        EXCEPT !.pending = @ \cup {[key |-> deed.key, id |-> "c1", content |-> source.content]}],
                     Done(<<"pending", "c1">>))
  IN IF deed.from.container # "own" THEN {Ended(objects, Missing)}
     ELSE IF source = Absent THEN {Ended(objects, Missing)}
     ELSE IF ~ Holds(deed.from.when, source) \/ ~ Holds(deed.when, objects.now[deed.key])
          THEN {Ended(objects, Unmet)}
          ELSE IF deed.verb = "stage"
               THEN {Ended([objects EXCEPT !.staged = @ \cup {<<deed.key, deed.extent, source>>}],
                           Done("staged"))}
               ELSE {done} \cup (IF deed.verb = "copy" /\ service \notin S3Services THEN {begun} ELSE {})

\* What was pending ends, and an abort leaves an empty object behind.
Finished(objects, copy) ==
  [objects EXCEPT !.now[copy.key].content = copy.content, !.pending = @ \ {copy}]
Abort(deed, objects) ==
  LET named == {copy \in objects.pending : copy.key = deed.key /\ copy.id = deed.extent}
  IN {IF named = {} THEN Ended(objects, Rejected)
      ELSE Ended([objects EXCEPT !.now[deed.key].content = "empty", !.pending = @ \ named], Done("updated"))}

\* A batch removes one object after another, and answers each by itself.
DeleteMany(service, deed, objects) ==
  LET one(ended, target) ==
        LET next == CHOOSE next \in Delete(service, [Deed EXCEPT !.key = target.key, !.extent = "object",
                                                     !.at = <<target.kind, target.id>>],
                                           ended.objects) : TRUE
        IN Ended(next.objects, Append(ended.result, next.result))
      all == FoldLeft(one, Ended(objects, <<>>), deed.extent)
  IN {Ended(all.objects, Done(<<"each", all.result>>))}

Effects(service, deed, objects) ==
  CASE deed.verb \in {"get", "head", "getTags"}  -> Read(deed, objects)
    [] deed.verb = "put"                         -> Put(service, deed, objects)
    [] deed.verb = "delete"                      -> Delete(service, deed, objects)
    [] deed.verb \in {"setMetadata", "setProperties", "setTags", "setTier", "restore"} ->
         Update(service, deed, objects)
    [] deed.verb = "snapshot"                    -> Snapshot(deed, objects)
    [] deed.verb = "list"                        -> List(deed, objects)
    [] deed.verb \in {"copy", "copyFromUrl", "putFromUrl", "stage"} -> Copy(service, deed, objects)
    [] deed.verb = "abortCopy"                   -> Abort(deed, objects)
    [] deed.verb = "deleteMany"                  -> DeleteMany(service, deed, objects)
    [] deed.verb = "container"                   -> {Ended(objects, OtherTarget)}
=============================================================================
