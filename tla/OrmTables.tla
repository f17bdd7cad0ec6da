------------------------------- MODULE OrmTables -------------------------------
(* What the ORM classes of app/models expect of the database: the columns they  *)
(* read and write, those they never leave NULL (required), the references and   *)
(* the uniqueness they rely on.                                                 *)
EXTENDS SchemaOps

Model(t, req, opt, refs, uniques) ==
    [table |-> t, required |-> req, optional |-> opt, refs |-> refs, uniques |-> uniques]

\* app/models/account.py
AccountModel == Model("accounts",
  {"bank_name", "account_number", "account_holder", "currency", "id", "created_at"},
  {"business_registration_no", "is_active", "account_type", "current_balance", "last_synced_at",
  "account_label", "alias", "updated_at"}, {}, {{"account_number"}})

\* app/models/account_balance_snapshot.py
AccountBalanceSnapshotModel == Model("account_balance_snapshots",
  {"id", "account_id", "snapshot_date", "balance", "currency", "created_at"}, {},
  {<<"account_id", "accounts">>}, {{"account_id", "snapshot_date"}})

\* app/models/category.py
CategoryModel == Model("categories",
  {"id", "name", "depth", "created_at"}, {"parent_id", "code", "color", "updated_at"},
  {<<"parent_id", "categories">>}, {{"code"}})

\* app/models/counterpart.py
CounterpartModel == Model("counterparts",
  {"id", "name", "created_at"}, {"aliases", "business_registration_no", "default_category_id",
  "updated_at"}, {<<"default_category_id", "categories">>}, {})

\* app/models/department_module_grant.py
DepartmentModuleGrantModel == Model("department_module_grants",
  {"department", "module", "created_at"}, {"updated_at"}, {}, {})

\* app/models/distribution.py
DistributionPersonaModel == Model("distribution_personas",
  {"id", "account_label", "role", "display_name", "telegram_phone", "daily_msg_limit", "active",
  "created_at"}, {"telegram_user_id", "telegram_username", "api_id_enc", "api_hash_enc",
  "business_name", "session_path", "tone_profile", "warmup_until", "last_login_at", "updated_at"},
  {}, {{"account_label"}, {"telegram_phone"}, {"telegram_user_id"}})
DistributionBlRecordModel == Model("distribution_bl_records",
  {"id", "imported_at"}, {"bl_number", "container_no", "product", "quantity", "departure_date",
  "arrival_date", "destination", "raw_row", "source_file", "imported_by"},
  {<<"imported_by", "users">>}, {{"bl_number", "container_no"}})
DistributionScenarioModel == Model("distribution_scenarios",
  {"id", "name", "trigger_event", "sender_role", "receiver_role", "beats", "language", "active",
  "attachment_required", "created_at"}, {"raw_text", "example_msgs", "instruction"}, {}, {})
DistributionSessionModel == Model("distribution_sessions",
  {"id", "scenario_id", "sender_persona_id", "receiver_persona_id", "status", "language",
  "generated_at"}, {"bl_record_id", "group_chat_id", "approved_by", "approved_at",
  "scheduled_start", "completed_at", "llm_cost_usd", "llm_input_tok", "llm_output_tok"},
  {<<"bl_record_id", "distribution_bl_records">>, <<"scenario_id", "distribution_scenarios">>,
  <<"sender_persona_id", "distribution_personas">>,
  <<"receiver_persona_id", "distribution_personas">>, <<"approved_by", "users">>}, {})
DistributionMessageModel == Model("distribution_messages",
  {"id", "session_id", "order_index", "sender_persona_id", "content", "user_edited",
  "send_after_sec", "typing_sec", "status", "send_state"}, {"edited_content", "scheduled_at",
  "sent_at", "telegram_message_id", "scheduled_send_at", "attachment_path", "attachment_filename",
  "attachment_mime", "attachment_kind", "attachment_caption"},
  {<<"session_id", "distribution_sessions">>, <<"sender_persona_id", "distribution_personas">>}, {})
DistributionWeeklySummaryModel == Model("distribution_weekly_summary",
  {"id", "company_label", "period_label", "period_start", "period_end", "imported_at"},
  {"kr_purchase", "vn_inventory_move", "vn_sales_completed", "kr_purchase_deposit_req",
  "vn_inventory_deposit_req", "vn_sales_deposit_req", "account_deposit", "cash_deposit", "raw_row",
  "source_file", "imported_by"}, {<<"imported_by", "users">>}, {{"company_label", "period_start",
  "period_end"}})
DistributionProductModel == Model("distribution_products",
  {"id", "brand", "imported_at"}, {"company_label", "product_name_en", "product_code", "category",
  "purchase_qty", "domestic_stock_qty", "vn_inventory_move_qty", "vn_sales_completed_qty",
  "vn_local_stock_qty", "supply_price", "vat", "purchase_price", "approval_number",
  "purchase_date", "raw_row", "source_file", "imported_by"}, {<<"imported_by", "users">>}, {})
DistributionSendLogModel == Model("distribution_send_log",
  {"id", "message_id", "persona_id", "attempt", "attempted_at"}, {"success", "error_code",
  "error_detail"}, {<<"message_id", "distribution_messages">>,
  <<"persona_id", "distribution_personas">>}, {})
DistributionCustomsDeclarationModel == Model("distribution_customs_declarations",
  {"id", "raw_row", "imported_at"}, {"company_label", "declaration_type", "bl_number",
  "declaration_number", "item_name", "product", "unit_price", "declared_price",
  "declared_price_krw", "actual_price", "currency", "stock_qty", "declared_at", "source_file",
  "imported_by"}, {<<"imported_by", "users">>}, {})

\* app/models/docgen.py
DocgenDocumentModel == Model("docgen_documents",
  {"user_id", "title", "sections", "id", "created_at"}, {"department", "topic", "doc_type",
  "source_mode", "sources", "model", "updated_at"}, {<<"user_id", "users">>}, {})
DocgenRetouchPromptModel == Model("docgen_retouch_prompts",
  {"user_id", "title", "target", "prompt_text", "is_shared", "id", "created_at"}, {"department",
  "source_document_id", "doc_type", "palette_primary", "palette_accent", "palette_text",
  "heading_font", "body_font", "shared_at", "updated_at"}, {<<"user_id", "users">>,
  <<"source_document_id", "docgen_documents">>}, {})

\* app/models/form_filler.py
FormTemplateModel == Model("form_templates",
  {"id", "name", "version", "file_hash", "file_path", "file_format", "variables", "usage_count",
  "is_active", "is_deleted", "created_at"}, {"department_tags", "owner_dept", "created_by",
  "updated_at"}, {<<"created_by", "users">>, <<"file_format", "form_file_format">>},
  {{"file_hash"}})
FormJobModel == Model("form_jobs",
  {"id", "user_id", "kind", "status", "cost_usd", "total_tokens_in", "total_tokens_out",
  "created_at"}, {"template_id", "department", "source_mode", "output_path", "langfuse_trace_id",
  "error_message", "completed_at"}, {<<"template_id", "form_templates">>, <<"user_id", "users">>,
  <<"status", "form_job_status">>, <<"kind", "form_job_kind">>}, {})
FormDataSourceModel == Model("form_data_sources",
  {"id", "job_id", "kind", "is_excluded", "created_at"}, {"nas_file_id", "upload_path",
  "nas_chunk_ids", "extracted_text"}, {<<"job_id", "form_jobs">>, <<"nas_file_id", "nas_files">>,
  <<"kind", "form_source_kind">>}, {})
FormMappingModel == Model("form_mappings",
  {"id", "job_id", "variable_key", "manual_override", "confirmed", "created_at"}, {"value",
  "source_id", "source_excerpt", "llm_confidence", "reasoning", "updated_at"},
  {<<"job_id", "form_jobs">>, <<"source_id", "form_data_sources">>}, {{"job_id", "variable_key"}})
FormRevisionModel == Model("form_revisions",
  {"id", "job_id", "variable_key", "change_type", "changed_at"}, {"previous_value", "new_value",
  "feedback_comment", "changed_by"}, {<<"job_id", "form_jobs">>, <<"changed_by", "users">>,
  <<"change_type", "form_change_type">>}, {})

\* app/models/nas_file.py
NasFileModel == Model("nas_files",
  {"path", "file_type", "id", "created_at"}, {"name", "mime_type", "size_bytes", "mtime",
  "file_hash", "indexed_at", "last_error", "updated_at"}, {}, {{"path"}})

\* app/models/playground.py
PlaygroundSessionModel == Model("playground_sessions",
  {"user_id", "provider", "model", "temperature", "id", "created_at"}, {"title", "system_prompt",
  "updated_at"}, {<<"user_id", "users">>}, {})
PlaygroundMessageModel == Model("playground_messages",
  {"session_id", "role", "content", "created_at", "id"}, {"input_tokens", "output_tokens",
  "reasoning_tokens", "cached_tokens", "total_tokens", "latency_ms", "model", "cost_usd",
  "raw_request", "raw_response"}, {<<"session_id", "playground_sessions">>}, {})
PlaygroundAttachmentModel == Model("playground_attachments",
  {"user_id", "kind", "filename", "mime", "size_bytes", "file_path", "created_at", "id"},
  {"session_id", "extracted_text"}, {<<"user_id", "users">>,
  <<"session_id", "playground_sessions">>}, {})
PlaygroundMediaModel == Model("playground_media",
  {"user_id", "media_type", "status", "is_shared", "created_at", "id"}, {"session_id",
  "source_media_id", "task_id", "model_key", "prompt", "error_message", "url", "file_path",
  "duration_sec", "width", "height", "cost_usd", "expires_at", "shared_at"},
  {<<"session_id", "playground_sessions">>, <<"user_id", "users">>,
  <<"source_media_id", "playground_media">>}, {{"task_id"}})

\* app/models/review_translation.py
ReviewTranslationModel == Model("review_translations",
  {"id", "created_at", "source_text", "translated_text", "model_used"}, {"updated_at", "campaign",
  "reviewer_name", "platform", "input_tokens", "output_tokens", "cost_usd", "created_by_id"},
  {<<"created_by_id", "users">>}, {})

\* app/models/sns.py
SocialAccountModel == Model("social_accounts",
  {"platform", "language", "is_active", "id", "created_at"}, {"handle", "page_url", "external_id",
  "client", "extra_metadata", "updated_at"}, {}, {})
SocialWeeklySnapshotModel == Model("social_weekly_snapshots",
  {"account_id", "year", "month", "week_number", "followers", "captured_at", "id", "created_at"},
  {"updated_at"}, {<<"account_id", "social_accounts">>}, {})
SocialPostModel == Model("social_posts",
  {"account_id", "posted_at", "is_manual", "id", "created_at"}, {"title", "content_type",
  "producer", "view_count", "reach_count", "comment_count", "like_count", "share_count",
  "save_count", "repost_count", "total_engagement", "url", "data_recorded_at", "external_id",
  "category", "extra_metadata", "comment_summary", "comment_summary_at", "updated_at"},
  {<<"account_id", "social_accounts">>}, {})
SocialPostMetricSnapshotModel == Model("social_post_metric_snapshots",
  {"post_id", "captured_at", "period", "id", "created_at"}, {"views", "reach", "likes", "comments",
  "shares", "engagement_total", "raw", "updated_at"}, {<<"post_id", "social_posts">>}, {})
SocialPostCommentModel == Model("social_post_comments",
  {"post_id", "id", "created_at"}, {"external_comment_id", "author", "text", "translated_text",
  "commented_at", "like_count", "raw", "updated_at"}, {<<"post_id", "social_posts">>}, {{"post_id",
  "external_comment_id"}})

\* app/models/tax_invoice.py
TaxInvoiceModel == Model("tax_invoices",
  {"invoice_type", "issue_date", "supplier_name", "supply_amount", "tax_amount", "total_amount",
  "id", "created_at"}, {"invoice_number", "supplier_biz_no", "buyer_name", "buyer_biz_no",
  "matched_transaction_id", "match_status", "memo", "upload_log_id", "updated_at"},
  {<<"matched_transaction_id", "transactions">>, <<"upload_log_id", "upload_logs">>},
  {{"invoice_number"}})

\* app/models/transaction.py
TransactionModel == Model("transactions",
  {"account_id", "transaction_date", "amount", "transaction_type", "is_deleted", "id",
  "created_at"}, {"balance", "counterpart_name", "description", "matched_transaction_id",
  "match_status", "memo", "upload_log_id", "transaction_hash", "category_id", "counterpart_id",
  "tags", "attachment_url", "updated_at"}, {<<"account_id", "accounts">>,
  <<"matched_transaction_id", "transactions">>, <<"upload_log_id", "upload_logs">>,
  <<"category_id", "categories">>, <<"counterpart_id", "counterparts">>}, {})

\* app/models/upload_log.py
UploadLogModel == Model("upload_logs",
  {"user_id", "filename", "upload_type", "status", "duplicate_count", "imported_count", "id",
  "created_at"}, {"account_id", "row_count", "error_count", "error_detail", "bank_key",
  "period_label", "updated_at"}, {<<"user_id", "users">>, <<"account_id", "accounts">>}, {})

\* app/models/user.py
UserModel == Model("users",
  {"email", "hashed_password", "name", "department", "role", "status", "monthly_quota_usd", "id",
  "created_at"}, {"is_active", "updated_at"}, {}, {{"email"}})

\* app/models/user_department.py
UserDepartmentModel == Model("user_departments",
  {"user_id", "department", "id", "created_at"}, {"updated_at"}, {<<"user_id", "users">>},
  {{"user_id", "department"}})

Models == {AccountModel, AccountBalanceSnapshotModel, CategoryModel, CounterpartModel,
  DepartmentModuleGrantModel, DistributionPersonaModel, DistributionBlRecordModel,
  DistributionScenarioModel, DistributionSessionModel, DistributionMessageModel,
  DistributionWeeklySummaryModel, DistributionProductModel, DistributionSendLogModel,
  DistributionCustomsDeclarationModel, DocgenDocumentModel, DocgenRetouchPromptModel,
  FormTemplateModel, FormJobModel, FormDataSourceModel, FormMappingModel, FormRevisionModel,
  NasFileModel, PlaygroundSessionModel, PlaygroundMessageModel, PlaygroundAttachmentModel,
  PlaygroundMediaModel, ReviewTranslationModel, SocialAccountModel, SocialWeeklySnapshotModel,
  SocialPostModel, SocialPostMetricSnapshotModel, SocialPostCommentModel, TaxInvoiceModel,
  TransactionModel, UploadLogModel, UserModel, UserDepartmentModel}

(* The unique indexes that INSERT ... ON CONFLICT names as its target; without  *)
(* the index the statement is an error.                                         *)
ConflictTargets == {
  <<"transactions", {"account_id", "transaction_hash", "is_deleted"}>>,
  <<"account_balance_snapshots", {"account_id", "snapshot_date"}>>}

(* The schema S serves class m: no column is missing, no column is in the way   *)
(* of an INSERT, the references and the uniqueness are enforced.                *)
HasUnique(S, t, cols) == \E o \in S[t].objs : o.kind = "unique" /\ o.cols = cols
Serves(S, m) ==
    /\ m.table \in DOMAIN S
    /\ S[m.table].cols = m.required \cup m.optional
    /\ S[m.table].required \subseteq m.required
    /\ {<<o.name, o.to>> : o \in {r \in S[m.table].objs : r.kind = "reference"}} = m.refs
    /\ \A u \in m.uniques : HasUnique(S, m.table, u)
================================================================================
