------------------------- MODULE ProviderCatalogue --------------------------
(***************************************************************************)
(* The provider adapters (src/providers/*/__init__.py): what the           *)
(* capability of an action says its payload has, which parameters the      *)
(* method behind it takes, and what the method does to the provider.       *)
(*                                                                         *)
(* A method is a sequence of steps: a "read", a "write", a "probe", whose  *)
(* errors the method swallows, or an "attempt", of which it swallows only  *)
(* an IntegrationError.  They are made                                     *)
(*   "http"     by _request with the class's retry_policy                  *)
(*   "once"     by _request with retry=False                               *)
(*   "sdk"      by a client library: done when the call returns            *)
(*   "commit"   by SQL in a session that is committed                      *)
(*   "session"  by SQL in a session that is closed without a COMMIT        *)
(*   "local"    without a request                                          *)
(* Actions are named as the code names them.                               *)
(***************************************************************************)
EXTENDS Sequences

Vias == {"http", "once", "sdk", "commit", "session", "local"}
Steps == {"read", "write", "probe", "attempt"}

\* params_schema: the keys it requires, and the other keys of its properties.
Accepts(required, others) == [required |-> required, properties |-> required \cup others]

\* A method with parameters without and with a default.
Does(needs, defaults, via, steps) ==
    [needs |-> needs, takes |-> needs \cup defaults, open |-> FALSE,
     via |-> via, steps |-> steps]
Fetches(needs, defaults) == Does(needs, defaults, "http", <<"read">>)
Changes(needs, defaults) == Does(needs, defaults, "http", <<"write">>)
Reads(needs, defaults, via) == Does(needs, defaults, via, <<"read">>)
Committed(needs, defaults) == Does(needs, defaults, "commit", <<"write">>)
Uncommitted(needs, defaults) == Does(needs, defaults, "session", <<"write">>)
\* ... and with **kwargs.
AnyKey(needs, defaults) ==
    [needs |-> needs, takes |-> needs \cup defaults, open |-> TRUE,
     via |-> "http", steps |-> <<"write">>]

airtable_capabilities == [
    list_bases |-> Accepts({}, {}),
    list_tables |-> Accepts({}, {"base_id"}),
    list_records |-> Accepts({"table"}, {"base_id", "view", "page_size",
        "filter_by_formula"}),
    create_record |-> Accepts({"table", "fields"}, {"base_id"}),
    get_record |-> Accepts({"table", "record_id"}, {"base_id"}),
    update_record |-> Accepts({"table", "record_id", "fields"}, {"base_id"}),
    delete_record |-> Accepts({"table", "record_id"}, {"base_id"}),
    batch_create_records |-> Accepts({"table", "records"}, {"base_id"})]

airtable_methods == [
    validate_connection |-> Does({}, {}, "http", <<"read", "probe">>),
    list_bases |-> Fetches({}, {}),
    list_tables |-> Fetches({}, {"base_id"}),
    list_records |-> Fetches({"table"}, {"base_id", "view", "page_size",
        "filter_by_formula"}),
    create_record |-> Changes({"table", "fields"}, {"base_id"}),
    get_record |-> Fetches({"table", "record_id"}, {"base_id"}),
    update_record |-> Changes({"table", "record_id", "fields"}, {"base_id"}),
    delete_record |-> Changes({"table", "record_id"}, {"base_id"}),
    batch_create_records |-> Changes({"table", "records"}, {"base_id"})]

aws_s3_capabilities == [
    upload_file |-> Accepts({"key", "content"}, {"bucket", "content_type"}),
    download_file |-> Accepts({"key"}, {"bucket"}),
    delete_file |-> Accepts({"key"}, {"bucket"}),
    list_files |-> Accepts({}, {"prefix", "bucket", "max_keys"}),
    presigned_upload_url |-> Accepts({"key"}, {"expires_in", "bucket"}),
    presigned_download_url |-> Accepts({"key"}, {"expires_in"}),
    file_exists |-> Accepts({"key"}, {"bucket"}),
    create_folder |-> Accepts({"prefix"}, {"bucket"})]

aws_s3_methods == [
    validate_connection |-> Does({}, {}, "sdk", <<"probe", "probe">>),
    upload_file |-> Does({"key", "content"}, {"bucket", "content_type"}, "sdk",
        <<"write">>),
    download_file |-> Does({"key"}, {"bucket"}, "sdk", <<"read">>),
    delete_file |-> Does({"key"}, {"bucket"}, "sdk", <<"write">>),
    list_files |-> Does({}, {"prefix", "bucket", "max_keys"}, "sdk", <<"read">>),
    presigned_upload_url |-> Does({"key"}, {"expires_in", "bucket"}, "local", <<>>),
    presigned_download_url |-> Does({"key"}, {"expires_in"}, "local", <<>>),
    file_exists |-> Does({"key"}, {"bucket"}, "sdk", <<"probe">>),
    create_folder |-> Does({"prefix"}, {"bucket"}, "sdk", <<"write">>)]

discord_capabilities == [
    send_message |-> Accepts({"channel_id", "content"}, {"tts"}),
    read_channel |-> Accepts({"channel_id"}, {"limit"}),
    list_guilds |-> Accepts({}, {"limit"}),
    list_channels |-> Accepts({"guild_id"}, {}),
    create_channel |-> Accepts({"guild_id", "name"}, {"channel_type"}),
    send_typing |-> Accepts({"channel_id"}, {}),
    get_user |-> Accepts({"user_id"}, {})]

discord_methods == [
    validate_connection |-> Does({}, {}, "http", <<"read", "probe">>),
    send_message |-> Changes({"channel_id", "content"}, {"tts"}),
    read_channel |-> Fetches({"channel_id"}, {"limit"}),
    list_guilds |-> Fetches({}, {"limit"}),
    list_channels |-> Fetches({"guild_id"}, {}),
    create_channel |-> Changes({"guild_id", "name"}, {"channel_type"}),
    send_typing |-> Changes({"channel_id"}, {}),
    get_user |-> Fetches({"user_id"}, {})]

dropbox_capabilities == [
    upload_file |-> Accepts({"path", "content"}, {"mode", "autorename"}),
    download_file |-> Accepts({"path"}, {}),
    list_folder |-> Accepts({}, {"path", "recursive"}),
    get_metadata |-> Accepts({"path"}, {}),
    create_folder |-> Accepts({"path"}, {}),
    create_shared_link |-> Accepts({"path"}, {}),
    delete |-> Accepts({"path"}, {}),
    search |-> Accepts({"query"}, {"path"})]

dropbox_methods == [
    validate_connection |-> Does({}, {}, "once", <<"read", "probe">>),
    upload_file |-> Changes({"path", "content"}, {"mode", "autorename"}),
    download_file |-> Fetches({"path"}, {}),
    list_folder |-> Fetches({}, {"path", "recursive"}),
    get_metadata |-> Fetches({"path"}, {}),
    create_folder |-> Changes({"path"}, {}),
    create_shared_link |-> Changes({"path"}, {}),
    delete |-> Changes({"path"}, {}),
    search |-> Fetches({"query"}, {"path"})]

github_capabilities == [
    list_repositories |-> Accepts({}, {"per_page", "page"}),
    get_repository |-> Accepts({"owner", "repo"}, {}),
    create_issue |-> Accepts({"owner", "repo", "title"}, {"body", "labels"}),
    list_issues |-> Accepts({"owner", "repo"}, {"state", "per_page"}),
    get_issue |-> Accepts({"owner", "repo", "issue_number"}, {}),
    update_issue |-> Accepts({"owner", "repo", "issue_number"}, {}),
    create_pull_request |-> Accepts({"owner", "repo", "title", "head", "base"},
        {"body"}),
    list_pull_requests |-> Accepts({"owner", "repo"}, {"state", "per_page"}),
    list_commits |-> Accepts({"owner", "repo"}, {"per_page"}),
    list_branches |-> Accepts({"owner", "repo"}, {}),
    create_branch |-> Accepts({"owner", "repo", "branch", "from_sha"}, {}),
    get_file_content |-> Accepts({"owner", "repo", "path"}, {}),
    create_comment |-> Accepts({"owner", "repo", "issue_number", "body"}, {})]

github_methods == [
    validate_connection |-> Does({}, {}, "http", <<"read", "probe">>),
    list_repositories |-> Fetches({}, {"per_page", "page"}),
    get_repository |-> Fetches({"owner", "repo"}, {}),
    create_issue |-> Changes({"owner", "repo", "title"}, {"body", "labels"}),
    list_issues |-> Fetches({"owner", "repo"}, {"state", "per_page"}),
    get_issue |-> Fetches({"owner", "repo", "issue_number"}, {}),
    update_issue |-> AnyKey({"owner", "repo", "issue_number"}, {}),
    create_pull_request |-> Changes({"owner", "repo", "title", "head", "base"},
        {"body"}),
    list_pull_requests |-> Fetches({"owner", "repo"}, {"state", "per_page"}),
    list_commits |-> Fetches({"owner", "repo"}, {"per_page"}),
    list_branches |-> Fetches({"owner", "repo"}, {}),
    create_branch |-> Changes({"owner", "repo", "branch", "from_sha"}, {}),
    get_file_content |-> Fetches({"owner", "repo", "path"}, {}),
    create_comment |-> Changes({"owner", "repo", "issue_number", "body"}, {})]

gmail_capabilities == [
    send_email |-> Accepts({"to"}, {"subject", "body", "html", "cc", "bcc",
        "attachments"}),
    draft_email |-> Accepts({"to"}, {"subject", "body"}),
    search_emails |-> Accepts({"query"}, {"max_results"}),
    read_email |-> Accepts({"email_id"}, {}),
    list_messages |-> Accepts({}, {"max_results", "label_ids"}),
    list_labels |-> Accepts({}, {}),
    mark_read |-> Accepts({"email_id"}, {}),
    get_thread |-> Accepts({"thread_id"}, {})]

gmail_methods == [
    validate_connection |-> Does({}, {}, "http", <<"read", "probe">>),
    send_email |-> Does({"to"}, {"subject", "body", "html", "cc", "bcc", "attachments"},
        "http", <<"read", "write">>),
    draft_email |-> Does({"to"}, {"subject", "body", "html", "cc"}, "http", <<"read",
        "write">>),
    search_emails |-> Fetches({"query"}, {"max_results"}),
    read_email |-> Fetches({"email_id"}, {"format"}),
    list_messages |-> Fetches({}, {"max_results", "label_ids"}),
    list_labels |-> Fetches({}, {}),
    mark_read |-> Changes({"email_id"}, {}),
    get_thread |-> Fetches({"thread_id"}, {})]

google_calendar_capabilities == [
    list_calendars |-> Accepts({}, {}),
    create_event |-> Accepts({"summary", "start", "end"}, {"description", "location",
        "attendees", "calendar_id"}),
    update_event |-> Accepts({"event_id"}, {"calendar_id"}),
    delete_event |-> Accepts({"event_id"}, {"calendar_id"}),
    list_events |-> Accepts({}, {"calendar_id", "time_min", "time_max", "max_results"}),
    get_event |-> Accepts({"event_id"}, {"calendar_id"})]

google_calendar_methods == [
    validate_connection |-> Does({}, {}, "http", <<"read", "probe">>),
    list_calendars |-> Fetches({}, {}),
    create_event |-> Changes({"summary", "start", "end"}, {"description", "location",
        "attendees", "calendar_id"}),
    update_event |-> AnyKey({"event_id"}, {"calendar_id"}),
    delete_event |-> Changes({"event_id"}, {"calendar_id"}),
    list_events |-> Fetches({}, {"calendar_id", "time_min", "time_max", "max_results"}),
    get_event |-> Fetches({"event_id"}, {"calendar_id"})]

google_drive_capabilities == [
    list_files |-> Accepts({}, {"page_size", "q", "page_token"}),
    get_file |-> Accepts({"file_id"}, {}),
    upload_file |-> Accepts({"name", "content"}, {"mime_type", "parent_id"}),
    download_file |-> Accepts({"file_id"}, {}),
    delete_file |-> Accepts({"file_id"}, {}),
    list_folders |-> Accepts({}, {"page_size"}),
    create_folder |-> Accepts({"name"}, {"parent_id"})]

google_drive_methods == [
    validate_connection |-> Does({}, {}, "http", <<"read", "probe">>),
    list_files |-> Fetches({}, {"page_size", "q", "page_token"}),
    get_file |-> Fetches({"file_id"}, {}),
    upload_file |-> Changes({"name", "content"}, {"mime_type", "parent_id"}),
    download_file |-> Fetches({"file_id"}, {}),
    delete_file |-> Changes({"file_id"}, {}),
    list_folders |-> Fetches({}, {"page_size"}),
    create_folder |-> Changes({"name"}, {"parent_id"})]

hubspot_capabilities == [
    list_contacts |-> Accepts({}, {"limit", "after"}),
    create_contact |-> Accepts({"properties"}, {}),
    get_contact |-> Accepts({"contact_id"}, {}),
    update_contact |-> Accepts({"contact_id", "properties"}, {}),
    list_deals |-> Accepts({}, {"limit"}),
    create_deal |-> Accepts({"properties"}, {}),
    update_deal |-> Accepts({"deal_id", "properties"}, {}),
    list_companies |-> Accepts({}, {"limit"}),
    create_company |-> Accepts({"properties"}, {}),
    create_note |-> Accepts({"properties"}, {"associations"}),
    search_objects |-> Accepts({"object_type", "query"}, {"limit"})]

hubspot_methods == [
    validate_connection |-> Does({}, {}, "http", <<"read", "probe">>),
    list_contacts |-> Fetches({}, {"limit", "after"}),
    create_contact |-> Changes({"properties"}, {}),
    get_contact |-> Fetches({"contact_id"}, {}),
    update_contact |-> Changes({"contact_id", "properties"}, {}),
    list_deals |-> Fetches({}, {"limit"}),
    create_deal |-> Changes({"properties"}, {}),
    update_deal |-> Changes({"deal_id", "properties"}, {}),
    list_companies |-> Fetches({}, {"limit"}),
    create_company |-> Changes({"properties"}, {}),
    create_note |-> Changes({"properties"}, {"associations"}),
    search_objects |-> Fetches({"object_type", "query"}, {"limit"})]

jira_capabilities == [
    create_issue |-> Accepts({"project_key", "summary"}, {"issue_type", "description",
        "priority", "assignee"}),
    get_issue |-> Accepts({"issue_key"}, {"fields"}),
    update_issue |-> Accepts({"issue_key"}, {}),
    search_issues |-> Accepts({"jql"}, {"max_results"}),
    get_sprint |-> Accepts({"board_id"}, {"state"}),
    list_projects |-> Accepts({}, {}),
    add_comment |-> Accepts({"issue_key", "body"}, {}),
    get_user |-> Accepts({"account_id"}, {})]

jira_methods == [
    validate_connection |-> Does({}, {}, "http", <<"read", "probe">>),
    create_issue |-> Changes({"project_key", "summary"}, {"issue_type", "description",
        "priority", "assignee"}),
    get_issue |-> Fetches({"issue_key"}, {"fields"}),
    update_issue |-> AnyKey({"issue_key"}, {}),
    search_issues |-> Fetches({"jql"}, {"max_results"}),
    get_sprint |-> Fetches({"board_id"}, {"state"}),
    list_projects |-> Fetches({}, {}),
    add_comment |-> Changes({"issue_key", "body"}, {}),
    get_user |-> Fetches({"account_id"}, {})]

mongodb_capabilities == [
    list_collections |-> Accepts({}, {}),
    insert_one |-> Accepts({"collection", "document"}, {}),
    insert_many |-> Accepts({"collection", "documents"}, {}),
    find |-> Accepts({"collection"}, {"filter", "limit", "sort"}),
    find_one |-> Accepts({"collection"}, {"filter"}),
    update_one |-> Accepts({"collection", "filter", "update"}, {"upsert"}),
    delete_one |-> Accepts({"collection", "filter"}, {}),
    delete_many |-> Accepts({"collection", "filter"}, {}),
    aggregate |-> Accepts({"collection", "pipeline"}, {}),
    count_documents |-> Accepts({"collection"}, {"filter"})]

mongodb_methods == [
    validate_connection |-> Does({}, {}, "sdk", <<"read", "probe">>),
    list_collections |-> Does({}, {}, "sdk", <<"read">>),
    insert_one |-> Does({"collection", "document"}, {}, "sdk", <<"write">>),
    insert_many |-> Does({"collection", "documents"}, {}, "sdk", <<"write">>),
    find |-> Does({"collection"}, {"filter", "limit", "sort"}, "sdk", <<"read">>),
    find_one |-> Does({"collection"}, {"filter"}, "sdk", <<"read">>),
    update_one |-> Does({"collection", "filter", "update"}, {"upsert"}, "sdk",
        <<"write">>),
    delete_one |-> Does({"collection", "filter"}, {}, "sdk", <<"write">>),
    delete_many |-> Does({"collection", "filter"}, {}, "sdk", <<"write">>),
    aggregate |-> Does({"collection", "pipeline"}, {}, "sdk", <<"read">>),
    count_documents |-> Does({"collection"}, {"filter"}, "sdk", <<"read">>)]

mysql_capabilities == [
    execute_query |-> Accepts({"query"}, {"params", "limit", "force"}),
    list_tables |-> Accepts({}, {}),
    get_table_schema |-> Accepts({"table"}, {}),
    insert_row |-> Accepts({"table", "row"}, {}),
    update_row |-> Accepts({"table", "updates", "where"}, {}),
    delete_row |-> Accepts({"table", "where"}, {}),
    count_rows |-> Accepts({"table"}, {"where"})]

mysql_methods == [
    validate_connection |-> Does({}, {}, "session", <<"read", "probe">>),
    execute_query |-> Uncommitted({"query"}, {"params", "limit", "force"}),
    list_tables |-> Reads({}, {}, "session"),
    get_table_schema |-> Reads({"table"}, {}, "session"),
    insert_row |-> Committed({"table", "row"}, {}),
    update_row |-> Committed({"table", "updates", "where"}, {}),
    delete_row |-> Committed({"table", "where"}, {}),
    count_rows |-> Reads({"table"}, {"where"}, "session")]

notion_capabilities == [
    search |-> Accepts({}, {"query", "filter_object"}),
    get_page |-> Accepts({"page_id"}, {}),
    get_block_children |-> Accepts({"block_id"}, {}),
    create_page |-> Accepts({"parent_id", "properties"}, {"parent_type", "children"}),
    update_page |-> Accepts({"page_id"}, {"properties", "archived"}),
    append_block_children |-> Accepts({"block_id", "children"}, {}),
    create_database |-> Accepts({"parent_page_id", "title", "properties"}, {}),
    query_database |-> Accepts({"database_id"}, {"filter", "sorts", "page_size"})]

notion_methods == [
    validate_connection |-> Does({}, {}, "http", <<"read", "probe">>),
    search |-> Fetches({}, {"query", "filter_object"}),
    get_page |-> Fetches({"page_id"}, {}),
    get_block_children |-> Fetches({"block_id"}, {}),
    create_page |-> Changes({"parent_id"}, {"parent_type", "properties", "children"}),
    update_page |-> Changes({"page_id"}, {"properties", "archived"}),
    append_block_children |-> Changes({"block_id", "children"}, {}),
    create_database |-> Changes({"parent_page_id", "title", "properties"}, {}),
    query_database |-> Fetches({"database_id"}, {"filter", "sorts", "page_size"})]

onedrive_capabilities == [
    list_drive_root |-> Accepts({}, {}),
    list_folder |-> Accepts({}, {"folder_path"}),
    upload_file |-> Accepts({"name", "content"}, {"folder_path"}),
    download_file |-> Accepts({"path"}, {}),
    delete_file |-> Accepts({"item_id"}, {}),
    search_files |-> Accepts({"query"}, {}),
    get_metadata |-> Accepts({"item_id"}, {}),
    create_folder |-> Accepts({"name"}, {"parent_path"})]

onedrive_methods == [
    validate_connection |-> Does({}, {}, "once", <<"read", "probe">>),
    list_drive_root |-> Fetches({}, {}),
    list_folder |-> Fetches({}, {"folder_path"}),
    upload_file |-> Changes({"name", "content"}, {"folder_path"}),
    download_file |-> Fetches({"path"}, {}),
    delete_file |-> Changes({"item_id"}, {}),
    search_files |-> Fetches({"query"}, {}),
    get_metadata |-> Fetches({"item_id"}, {}),
    create_folder |-> Changes({"name"}, {"parent_path"})]

postgres_capabilities == [
    execute_query |-> Accepts({"query"}, {"params", "limit", "force"}),
    list_tables |-> Accepts({}, {"schema"}),
    get_table_schema |-> Accepts({"table"}, {}),
    insert_row |-> Accepts({"table", "row"}, {}),
    update_row |-> Accepts({"table", "updates", "where"}, {}),
    delete_row |-> Accepts({"table", "where"}, {}),
    count_rows |-> Accepts({"table"}, {"where"})]

postgres_methods == [
    validate_connection |-> Does({}, {}, "session", <<"read", "probe">>),
    execute_query |-> Uncommitted({"query"}, {"params", "limit", "force"}),
    list_tables |-> Reads({}, {"schema"}, "session"),
    get_table_schema |-> Reads({"table"}, {}, "session"),
    insert_row |-> Uncommitted({"table", "row"}, {}),
    update_row |-> Uncommitted({"table", "updates", "where"}, {}),
    delete_row |-> Uncommitted({"table", "where"}, {}),
    count_rows |-> Reads({"table"}, {"where"}, "session")]

salesforce_capabilities == [
    whoami |-> Accepts({}, {}),
    list_objects |-> Accepts({}, {}),
    describe_object |-> Accepts({"sobject"}, {}),
    create_record |-> Accepts({"sobject", "fields"}, {}),
    get_record |-> Accepts({"sobject", "record_id"}, {}),
    update_record |-> Accepts({"sobject", "record_id", "fields"}, {}),
    delete_record |-> Accepts({"sobject", "record_id"}, {}),
    query |-> Accepts({"soql"}, {}),
    search |-> Accepts({"q"}, {}),
    list_accounts |-> Accepts({}, {"limit"}),
    list_contacts |-> Accepts({}, {"limit"}),
    list_opportunities |-> Accepts({}, {"limit"})]

salesforce_methods == [
    validate_connection |-> Does({}, {}, "http", <<"read", "probe">>),
    whoami |-> Fetches({}, {}),
    list_objects |-> Fetches({}, {}),
    describe_object |-> Fetches({"sobject"}, {}),
    create_record |-> Changes({"sobject", "fields"}, {}),
    get_record |-> Fetches({"sobject", "record_id"}, {}),
    update_record |-> Changes({"sobject", "record_id", "fields"}, {}),
    delete_record |-> Changes({"sobject", "record_id"}, {}),
    query |-> Fetches({"soql"}, {}),
    search |-> Fetches({"q"}, {}),
    list_accounts |-> Fetches({}, {"limit"}),
    list_contacts |-> Fetches({}, {"limit"}),
    list_opportunities |-> Fetches({}, {"limit"})]

sendgrid_capabilities == [
    send_email |-> Accepts({"to", "subject"}, {"body", "html", "from_email",
        "from_name", "cc", "bcc"}),
    list_templates |-> Accepts({}, {"page_size"}),
    get_template |-> Accepts({"template_id"}, {}),
    send_template_email |-> Accepts({"to", "template_id"}, {"dynamic_data",
        "from_email"}),
    list_suppression_blocks |-> Accepts({}, {"limit"}),
    list_api_keys |-> Accepts({}, {"limit"})]

sendgrid_methods == [
    validate_connection |-> Does({}, {}, "once", <<"read", "probe">>),
    send_email |-> Changes({"to", "subject"}, {"body", "html", "from_email",
        "from_name", "cc", "bcc"}),
    list_templates |-> Fetches({}, {"page_size"}),
    get_template |-> Fetches({"template_id"}, {}),
    send_template_email |-> Changes({"to", "template_id"}, {"dynamic_data",
        "from_email"}),
    list_suppression_blocks |-> Fetches({}, {"limit"}),
    list_api_keys |-> Fetches({}, {"limit"})]

slack_capabilities == [
    send_message |-> Accepts({"channel", "text"}, {"thread_ts"}),
    post_message_in_thread |-> Accepts({"channel", "text", "thread_ts"}, {}),
    list_channels |-> Accepts({}, {"limit", "cursor", "exclude_archived"}),
    create_channel |-> Accepts({"name"}, {"is_private"}),
    get_channel_info |-> Accepts({"channel"}, {}),
    send_message_to_user |-> Accepts({"user"}, {"text"}),
    list_users |-> Accepts({}, {"limit"}),
    archive_channel |-> Accepts({"channel"}, {})]

slack_methods == [
    validate_connection |-> Does({}, {}, "once", <<"read", "probe">>),
    send_message |-> Changes({"channel", "text"}, {"thread_ts"}),
    post_message_in_thread |-> Changes({"channel", "text", "thread_ts"}, {}),
    list_channels |-> Fetches({}, {"limit", "cursor", "exclude_archived"}),
    create_channel |-> Changes({"name"}, {"is_private"}),
    get_channel_info |-> Fetches({"channel"}, {}),
    send_message_to_user |-> Does({"user"}, {"text"}, "http", <<"write", "write">>),
    list_users |-> Fetches({}, {"limit"}),
    archive_channel |-> Changes({"channel"}, {})]

stripe_capabilities == [
    list_customers |-> Accepts({}, {"limit"}),
    create_customer |-> Accepts({}, {"email", "name", "metadata", "description"}),
    get_customer |-> Accepts({"customer_id"}, {}),
    update_customer |-> Accepts({"customer_id"}, {}),
    list_charges |-> Accepts({}, {"limit"}),
    create_charge |-> Accepts({"amount"}, {"currency", "source", "description",
        "customer"}),
    create_payment_intent |-> Accepts({"amount"}, {"currency", "payment_method_types",
        "metadata"}),
    confirm_payment_intent |-> Accepts({"payment_intent_id"}, {"payment_method"}),
    create_refund |-> Accepts({"charge_id"}, {"amount"}),
    list_events |-> Accepts({}, {"limit"}),
    get_event |-> Accepts({"event_id"}, {})]

stripe_methods == [
    validate_connection |-> Does({}, {}, "http", <<"read", "probe">>),
    list_customers |-> Fetches({}, {"limit"}),
    create_customer |-> Changes({}, {"email", "name", "metadata", "description"}),
    get_customer |-> Fetches({"customer_id"}, {}),
    update_customer |-> AnyKey({"customer_id"}, {}),
    list_charges |-> Fetches({}, {"limit"}),
    create_charge |-> Changes({"amount"}, {"currency", "source", "description",
        "customer"}),
    create_payment_intent |-> Changes({"amount"}, {"currency", "payment_method_types",
        "metadata"}),
    confirm_payment_intent |-> Changes({"payment_intent_id"}, {"payment_method"}),
    create_refund |-> Changes({"charge_id"}, {"amount"}),
    list_events |-> Fetches({}, {"limit"}),
    get_event |-> Fetches({"event_id"}, {})]

supabase_capabilities == [
    query_table |-> Accepts({"table"}, {"select", "filters", "limit", "order"}),
    insert_row |-> Accepts({"table", "row"}, {}),
    update_row |-> Accepts({"table", "updates", "match"}, {}),
    delete_row |-> Accepts({"table", "match"}, {}),
    rpc |-> Accepts({"fn_name"}, {"args"}),
    list_tables |-> Accepts({}, {}),
    get_row |-> Accepts({"table", "primary_key", "value"}, {})]

supabase_methods == [
    validate_connection |-> Does({}, {}, "once", <<"probe", "probe">>),
    query_table |-> Fetches({"table"}, {"select", "filters", "limit", "order"}),
    insert_row |-> Changes({"table", "row"}, {}),
    update_row |-> Changes({"table", "updates", "match"}, {}),
    delete_row |-> Changes({"table", "match"}, {}),
    rpc |-> Changes({"fn_name"}, {"args"}),
    list_tables |-> Does({}, {}, "http", <<"attempt">>),
    get_row |-> Fetches({"table", "primary_key", "value"}, {"select"})]

trello_capabilities == [
    list_boards |-> Accepts({}, {}),
    create_board |-> Accepts({"name"}, {"default_lists"}),
    list_lists |-> Accepts({"board_id"}, {}),
    create_list |-> Accepts({"board_id", "name"}, {}),
    list_cards |-> Accepts({"list_id"}, {}),
    create_card |-> Accepts({"list_id", "name"}, {"description", "due"}),
    get_card |-> Accepts({"card_id"}, {}),
    update_card |-> Accepts({"card_id"}, {}),
    add_comment |-> Accepts({"card_id", "text"}, {}),
    create_label |-> Accepts({"board_id", "name"}, {"color"}),
    move_card |-> Accepts({"card_id", "list_id"}, {}),
    delete_card |-> Accepts({"card_id"}, {})]

trello_methods == [
    validate_connection |-> Does({}, {}, "http", <<"read", "probe">>),
    list_boards |-> Fetches({}, {}),
    create_board |-> Changes({"name"}, {"default_lists"}),
    list_lists |-> Fetches({"board_id"}, {}),
    create_list |-> Changes({"board_id", "name"}, {}),
    list_cards |-> Fetches({"list_id"}, {}),
    create_card |-> Changes({"list_id", "name"}, {"description", "due"}),
    get_card |-> Fetches({"card_id"}, {}),
    update_card |-> AnyKey({"card_id"}, {}),
    add_comment |-> Changes({"card_id", "text"}, {}),
    create_label |-> Changes({"board_id", "name"}, {"color"}),
    move_card |-> Changes({"card_id", "list_id"}, {}),
    delete_card |-> Changes({"card_id"}, {})]

twilio_capabilities == [
    send_sms |-> Accepts({"to", "body"}, {"from_"}),
    send_whatsapp |-> Accepts({"to", "body"}, {"from_"}),
    list_messages |-> Accepts({}, {"limit"}),
    get_message |-> Accepts({"message_sid"}, {}),
    send_otp |-> Accepts({"to"}, {"channel", "verify_service_sid"}),
    verify_otp |-> Accepts({"to", "code"}, {"verify_service_sid"}),
    make_call |-> Accepts({"to"}, {"from_", "twiml", "url"})]

twilio_methods == [
    validate_connection |-> Does({}, {}, "http", <<"read", "probe">>),
    send_sms |-> Changes({"to", "body"}, {"from_"}),
    send_whatsapp |-> Changes({"to", "body"}, {"from_"}),
    list_messages |-> Fetches({}, {"limit"}),
    get_message |-> Fetches({"message_sid"}, {}),
    send_otp |-> Changes({"to"}, {"channel", "verify_service_sid"}),
    verify_otp |-> Changes({"to", "code"}, {"verify_service_sid"}),
    make_call |-> Changes({"to"}, {"from_", "twiml", "url"})]

webhook_capabilities == [
    send_webhook |-> Accepts({"url", "payload"}, {"headers", "method", "secret"}),
    send_signed_webhook |-> Accepts({"url", "payload", "secret"}, {"method"}),
    ping |-> Accepts({"url"}, {})]

webhook_methods == [
    validate_connection |-> Does({}, {}, "local", <<>>),
    send_webhook |-> Changes({"url", "payload"}, {"headers", "method", "secret"}),
    send_signed_webhook |-> Changes({"url", "payload", "secret"}, {"method"}),
    ping |-> Does({"url"}, {}, "once", <<"probe">>)]

-----------------------------------------------------------------------------
(* The registry: provider packages found by discover_providers.            *)

Capabilities == [
    airtable |-> airtable_capabilities,
    aws_s3 |-> aws_s3_capabilities,
    discord |-> discord_capabilities,
    dropbox |-> dropbox_capabilities,
    github |-> github_capabilities,
    gmail |-> gmail_capabilities,
    google_calendar |-> google_calendar_capabilities,
    google_drive |-> google_drive_capabilities,
    hubspot |-> hubspot_capabilities,
    jira |-> jira_capabilities,
    mongodb |-> mongodb_capabilities,
    mysql |-> mysql_capabilities,
    notion |-> notion_capabilities,
    onedrive |-> onedrive_capabilities,
    postgres |-> postgres_capabilities,
    salesforce |-> salesforce_capabilities,
    sendgrid |-> sendgrid_capabilities,
    slack |-> slack_capabilities,
    stripe |-> stripe_capabilities,
    supabase |-> supabase_capabilities,
    trello |-> trello_capabilities,
    twilio |-> twilio_capabilities,
    webhook |-> webhook_capabilities]

Methods == [
    airtable |-> airtable_methods,
    aws_s3 |-> aws_s3_methods,
    discord |-> discord_methods,
    dropbox |-> dropbox_methods,
    github |-> github_methods,
    gmail |-> gmail_methods,
    google_calendar |-> google_calendar_methods,
    google_drive |-> google_drive_methods,
    hubspot |-> hubspot_methods,
    jira |-> jira_methods,
    mongodb |-> mongodb_methods,
    mysql |-> mysql_methods,
    notion |-> notion_methods,
    onedrive |-> onedrive_methods,
    postgres |-> postgres_methods,
    salesforce |-> salesforce_methods,
    sendgrid |-> sendgrid_methods,
    slack |-> slack_methods,
    stripe |-> stripe_methods,
    supabase |-> supabase_methods,
    trello |-> trello_methods,
    twilio |-> twilio_methods,
    webhook |-> webhook_methods]

\* The classes with an oauth_authorize_url.
OAuthProviders ==
    {"discord", "dropbox", "github", "gmail", "google_calendar", "google_drive",
     "hubspot", "jira", "notion", "onedrive", "salesforce", "slack"}
=============================================================================
