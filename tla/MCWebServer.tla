---------------------------- MODULE MCWebServer ----------------------------
(***************************************************************************)
(* Model checking of the web server, the tool, and the files they share.   *)
(***************************************************************************)
EXTENDS WebServer, TLC

OneItem == {"tld" :> ("com" :> 1)}

(* The archive of another day, in which an item has the empty value. *)
Hour == "hour" :> ("_info" :> NoCounts @@ "tld" :> ("org" :> 1) @@ "port" :> ("nothing" :> 1))

Plain == {NoItems, "tld" :> ("org" :> 1), "tld" :> ("org" :> 2)} \cup OneItem

(* Bounds: an open snapshot has one item.  Two are open, or one while      *)
(* another is opened, only when the tool is not running; then neither has  *)
(* an item that cannot be written, or that no reader looks at.             *)
Unusual == {k :> ("org" :> 1) : k \in HiddenKeys \cup BadKeys}

Opened == Len(open_snapshots) + (IF request.op = "open" THEN 1 ELSE 0)

FewItems ==
  /\ \A i \in Els : open_snapshots[i].items \in
       Plain \cup IF Opened = 1 THEN Unusual ELSE {}
  /\ Opened > 1 => ToolFree

=============================================================================
