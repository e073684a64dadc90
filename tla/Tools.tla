-------------------------------- MODULE Tools --------------------------------
(***************************************************************************)
(* The tools of the MCP server (src/src/index_server/mcp_server.py): which *)
(* permission a call needs, and what execute_tool checks a second time     *)
(* before it hands the call to the service operation of the same name.     *)
(*                                                                         *)
(* The second check of a tool is its guard:                                *)
(*   "collection"  the permission again, on the collection of the call     *)
(*   "flat"        the permission again, without a collection              *)
(*   "role"        the service itself asks for the role admin              *)
(*   "owner"       the caller's own job, or any job for an administrator   *)
(*   "none"        no second check                                         *)
(***************************************************************************)
Each(names, x) == [n \in names |-> x]

\* the tables have no name in common
Merged(tables) ==
  [n \in UNION {DOMAIN t : t \in tables} |-> (CHOOSE t \in tables : n \in DOMAIN t)[n]]

-----------------------------------------------------------------------------
(* The branches of execute_tool.                                             *)

AccountTools ==
  Merged({Each({"profiles_list", "profile_get", "users_list", "user_get", "groups_list",
                "group_get", "api_keys_list"}, "none"),
          Each({"admin_profile_create", "admin_profile_update", "admin_profile_delete",
                "admin_user_create", "admin_user_update", "admin_user_delete",
                "admin_group_create", "admin_group_update", "admin_group_delete",
                "admin_api_key_create"}, "role")})

CatalogueTools ==
  Merged({Each({"a2a_config_events", "index_list", "collections_list", "list_collections",
                "collection_get", "source_configs_list", "source_config_get", "hdro_extract",
                "rbac_bindings_list"}, "none"),
          Each({"admin_api_key_revoke", "admin_collection_create",
                "admin_collection_update", "admin_collection_delete",
                "admin_source_config_create", "admin_source_config_update",
                "admin_source_config_delete", "admin_rbac_bind", "admin_rbac_unbind"}, "role")})

IngestTools ==
  Merged({Each({"ingest_upload", "ingest_text", "ingest_text_long", "ingest_file_async",
                "ingest_file_async_blocking", "ingest_reference"}, "collection"),
          Each({"bulk_index"}, "flat")})

ParserTools ==
  Each({"parsers_list", "parser_test", "ingest_preview", "extract_only", "ocr_run",
        "table_extract"}, "none")

SearchTools == Each({"search", "search_explain", "retrieve"}, "collection")

RemovalTools ==
  Merged({Each({"delete_by_id", "delete_by_filter", "delete_by_filter_async", "retention_run",
                "reindex_run"}, "collection"),
          Each({"bulk_ingest"}, "flat")})

\* job_stream is registered and answers without doing anything
JobTools ==
  Merged({Each({"job_get", "job_wait", "job_list", "job_cancel", "job_retry"}, "owner"),
          Each({"job_delete", "job_stream"}, "none")})

ServiceTools ==
  Each({"backend_health_check", "embedding_health_check", "ingest_health", "file_upload",
        "file_list", "file_get", "file_download", "file_delete", "queue_status",
        "w28a_693_lifecycle_job", "ingest_stream_open", "ingest_stream_event",
        "ingest_stream_close"}, "none")

DocumentTools ==
  Each({"structure_health", "structure_document_create", "structure_document_get",
        "structure_document_list", "structure_document_delete", "structure_outline_get",
        "structure_pages_list", "structure_sections_list", "structure_extract"}, "none")

CorpusTools ==
  Each({"structure_corpus_create", "structure_corpus_list", "structure_corpus_get",
        "structure_corpus_update", "structure_corpus_delete", "structure_corpus_analyse",
        "structure_corpus_patterns_get", "structure_template_generate",
        "structure_template_get", "structure_template_list",
        "structure_template_export", "structure_template_match",
        "structure_template_delete", "structure_link_to_vdb_records"}, "none")

\* the adapter of the watches checks the tenant of the watch
WatchTools ==
  Each({"index_watch_create", "index_watch_list", "index_watch_status",
        "index_watch_get_batch", "index_watch_ack", "index_watch_recover",
        "index_watch_pause", "index_watch_resume", "index_watch_delete",
        "index_watch_test_event"}, "none")

Guards ==
  Merged({AccountTools, CatalogueTools, IngestTools, ParserTools,
          SearchTools, RemovalTools, JobTools, ServiceTools,
          DocumentTools, CorpusTools, WatchTools})

Tools == DOMAIN Guards

-----------------------------------------------------------------------------
(* The first check.                                                          *)

Administrative ==
  {t \in Tools : Guards[t] = "role"}
    \cup {"job_delete", "users_list", "user_get", "groups_list", "group_get",
          "api_keys_list", "rbac_bindings_list"}

Configuring == {"parser_test", "ocr_run", "table_extract"}

Reading ==
  {"index_watch_list", "index_watch_status", "index_watch_get_batch",
   "index_watch_ack", "index_watch_recover", "parsers_list", "search",
   "search_explain", "retrieve", "profiles_list", "profile_get", "a2a_config_events",
   "index_list", "collections_list", "list_collections", "collection_get",
   "source_configs_list", "source_config_get", "hdro_extract",
   "backend_health_check", "embedding_health_check", "file_list", "file_get",
   "file_download", "structure_health", "structure_document_get",
   "structure_document_list", "structure_outline_get", "structure_pages_list",
   "structure_sections_list", "structure_corpus_list", "structure_corpus_get",
   "structure_corpus_patterns_get", "structure_template_get",
   "structure_template_list", "structure_template_export", "structure_template_match"}

\* variant: every watch tool reads
RequiredPermissionWatchReads(t) ==
  CASE t \in Administrative -> "admin"
    [] t \in Configuring -> "source.configure"
    [] t \in Reading \cup DOMAIN WatchTools -> "collection.read"
    [] OTHER -> "collection.write"

RequiredPermission(t) ==
  CASE t \in Administrative -> "admin"
    [] t \in Configuring -> "source.configure"
    [] t \in Reading -> "collection.read"
    [] OTHER -> "collection.write"

\* tools whose first check knows the collection of the call
PointTools ==
  Merged({Each({"search", "search_explain", "retrieve", "collection_get", "index_list"},
                "collection.read"),
          Each({"ingest_text", "ingest_upload", "ingest_reference", "ingest_preview",
                "bulk_index", "delete_by_id", "delete_by_filter", "reindex_run",
                "retention_run"}, "collection.write")})

=============================================================================
