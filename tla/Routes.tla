------------------------------- MODULE Routes -------------------------------
(***************************************************************************)
(* The other two doors to the service: the REST routes of                  *)
(* src/src/index_server/api_server.py, each of which demands one           *)
(* permission whatever the resource, and the skills of the A2A interface,  *)
(* each of which is a call of a tool.                                      *)
(*                                                                         *)
(* A route is named for the operation of the service that it performs: by  *)
(* the name of the tool where there is one.                                *)
(***************************************************************************)
EXTENDS Tools

SystemRoutes ==
  Each({"logs", "a2a_config_events", "docs_catalogue", "raw_document",
        "record_docs_action"}, "collection.read")

AccountRoutes ==
  Merged({Each({"profiles_list", "profile_get", "user_get"}, "collection.read"),
          Each({"admin_profile_create", "admin_profile_update", "admin_profile_delete",
                "users_list", "admin_user_create", "admin_user_update",
                "admin_user_delete"}, "admin")})

GroupRoutes ==
  Merged({Each({"group_get"}, "collection.read"),
          Each({"roles_list", "role_get", "admin_role_create", "admin_role_update",
                "admin_role_delete", "groups_list", "admin_group_create",
                "admin_group_update", "admin_group_delete"}, "admin")})

KeyRoutes ==
  Each({"policies_list", "policies_update", "api_keys_list", "admin_api_key_create",
        "admin_api_key_revoke", "admin_api_key_revoke_token_hash"}, "admin")

CollectionRoutes ==
  Merged({Each({"collections_list", "collection_get"}, "collection.read"),
          Each({"admin_collection_create", "admin_collection_update",
                "admin_collection_delete"}, "admin")})

WatchRoutes ==
  Merged({Each({"index_watch_list", "index_watch_get", "index_watch_status",
                "index_watch_get_batch", "index_watch_ack", "index_watch_recover"},
                "collection.read"),
          Each({"index_watch_create"}, "collection.write")})

WatchChangeRoutes ==
  Each({"index_watch_pause", "index_watch_resume", "index_watch_test_event",
        "index_watch_delete"}, "collection.write")

SourceRoutes ==
  Merged({Each({"source_configs_list", "source_config_get"}, "collection.read"),
          Each({"admin_source_config_create", "admin_source_config_update",
                "admin_source_config_delete"}, "admin")})

\* the update of the shared pages is an unbind and a bind
BindingRoutes ==
  Each({"rbac_bindings_list", "admin_rbac_bind", "admin_rbac_unbind",
        "idam_permissions", "idam_resource_registry", "idam_binding_update"}, "admin")

FileRoutes ==
  Merged({Each({"ingest_upload", "file_upload"}, "collection.write"),
          Each({"file_list", "file_get", "file_download"}, "collection.read"),
          Each({"file_delete"}, "source.configure")})

DocumentRoutes ==
  Merged({Each({"structure_document_create", "structure_document_delete"}, "collection.write"),
          Each({"structure_health", "structure_document_list", "structure_document_get",
                "structure_outline_get", "structure_pages_list",
                "structure_sections_list"}, "collection.read")})

\* the job of an extraction is read without a look at its owner
ExtractRoutes ==
  Merged({Each({"structure_extract", "structure_link_to_vdb_records"}, "collection.write"),
          Each({"structure_extract_job_get"}, "collection.read")})

CorpusRoutes ==
  Merged({Each({"structure_corpus_create", "structure_corpus_update", "structure_corpus_delete",
                "structure_corpus_analyse"}, "collection.write"),
          Each({"structure_corpus_list", "structure_corpus_get",
                "structure_corpus_patterns_get"}, "collection.read")})

TemplateRoutes ==
  Merged({Each({"structure_template_generate", "structure_template_delete"}, "collection.write"),
          Each({"structure_template_list", "structure_template_get",
                "structure_template_export", "structure_template_match"}, "collection.read")})

RoutePermission ==
  Merged({SystemRoutes, AccountRoutes, GroupRoutes, KeyRoutes,
          CollectionRoutes, WatchRoutes, WatchChangeRoutes, SourceRoutes,
          BindingRoutes, FileRoutes, DocumentRoutes, ExtractRoutes,
          CorpusRoutes, TemplateRoutes})

\* GET /a2a/events asks for nothing but an API key
OpenRoutes == {"a2a_config_events"}

\* what the middleware demands of every path below /api/v1/tools
ToolsPathPermission == "collection.read"

-----------------------------------------------------------------------------
(* The skills that a task may name; most have the name of their tool.        *)

Skills ==
  Merged({[source_config_create |-> "admin_source_config_create",
           source_config_list   |-> "source_configs_list",
           source_config_update |-> "admin_source_config_update",
           source_config_delete |-> "admin_source_config_delete",
           collection_list      |-> "collections_list"],
          [t \in {"index_list", "bulk_index", "file_upload", "file_list", "file_get",
                  "file_download", "file_delete", "source_config_get", "hdro_extract",
                  "profiles_list", "backend_health_check", "ingest_health", "ingest_text",
                  "search", "retrieve", "structure_extract", "structure_document_get",
                  "structure_outline_get", "structure_corpus_create",
                  "structure_corpus_analyse", "structure_corpus_patterns_get",
                  "structure_template_generate", "structure_template_export",
                  "structure_template_match", "structure_template_delete"}
                   \cup DOMAIN WatchTools |-> t]})

=============================================================================
