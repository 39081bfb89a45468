----------------------------- MODULE MCPreview -----------------------------
(* Platforms and display settings for Preview. *)
EXTENDS Preview

\* A platform without edits, Telegram's kind, Feishu's kind, and one that edits
\* and cannot delete.
AllPlatforms == {{}, {"update", "clean"}, {"update", "clean", "keep"}, {"update"}}
AllDisplays == {{"thinking", "tool"}, {"thinking"}, {}, {"quiet"}}

=============================================================================
