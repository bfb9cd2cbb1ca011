----------------------------- MODULE LuaModules -----------------------------
(***************************************************************************)
(* lib/modules.c: which modules a handler has, and what they do to a URL   *)
(* before it is decoded and before it is printed.  A URL is its text, the  *)
(* modules that changed it, and the modules that changed the positions of  *)
(* its parts.                                                              *)
(***************************************************************************)
EXTENDS Lists, SequencesExt

CONSTANTS Enabled,    \* names of modules, in the order of their directory
          LocalFiles, \* the files a name can stand for
          Transforms, \* modules with a faup_url_in that returns a string,
          Nils,       \* or something that is not a string
          Outputs     \* modules with a faup_output that returns two values

ASSUME HooksAssumption == Transforms \cap Nils = {}
ASSUME EnabledAssumption == Enabled \in Seq(Range(Enabled))

Lua == Transforms \cup Nils \cup Outputs

(* faup_modules_load_from_arg: a name that is no file is looked for, and   *)
(* not found, as the directory modules_available.  The slot of a module    *)
(* that does not load is used by the next.                                 *)
Registered == LocalFiles \cap Lua
LoadFromArg(argv) == Those(argv, Registered)

(* faup_modules_new *)
ModulesNew(opts) ==
  CASE opts.exec_modules = "noexec" -> <<>>
    [] opts.exec_modules = "path" -> Enabled
    [] opts.exec_modules = "arg" -> LoadFromArg(opts.modules_argv)

(* faup_modules_decode_url_start.  After a module that returns no string   *)
(* the next one is given the URL as it was at first; so is the decoder.    *)
Changed(url, m) == [url EXCEPT !.changed = Append(@, m)]

DecodeUrlStart_FromOriginal(modules, url) ==
  IF \E i \in DOMAIN modules : modules[i] \in Transforms
  THEN Changed(url, Last(Those(modules, Transforms)))
  ELSE url

DecodeUrlStart(modules, url) ==
  LET Call(found, m) ==
        CASE m \in Transforms -> <<Changed(IF found = <<>> THEN url ELSE found[1], m)>>
          [] m \in Nils -> <<>>
          [] OTHER -> found
      new_url[i \in 0 .. Len(modules)] ==
        IF i = 0 THEN <<>> ELSE Call(new_url[i - 1], modules[i])
      new == new_url[Len(modules)]
  IN IF new = <<>> THEN url ELSE new[1]

(* faup_modules_url_output: what the modules may print, and the URL with   *)
(* the positions they return.                                              *)
OutputHooks(modules) == Those(modules, Outputs)

ShownByModules(modules, url) ==
  LET hooks == OutputHooks(modules)
  IN [i \in DOMAIN hooks |->
        [column |-> "module", of |-> [url EXCEPT !.placed = SubSeq(hooks, 1, i - 1)],
         ends |-> hooks[i]]]

UrlOutput(modules, url) == [url EXCEPT !.placed = OutputHooks(modules)]
=============================================================================
